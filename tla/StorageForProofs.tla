--------------------------- MODULE StorageForProofs ---------------------------
(***************************************************************************)
(* Theorems of StorageFor, for any number of threads, slots, values and pool *)
(* indices and any block size: who owns each pool index and each object of   *)
(* either storage at every step of every call, that a column's counts follow *)
(* its bits, and that either storage implements ComponentStore.              *)
(***************************************************************************)
EXTENDS StorageFor, OperatorLemmas, FiniteSetTheorems

Op(t) == frame[t].op

(* The slots whose object is still theirs. *)
Counted == presence \ Leaving

-----------------------------------------------------------------------------
(* Calls, of either storage. *)

CallTypes ==
  /\ DOMAIN pc = Threads /\ DOMAIN frame = Threads
  /\ presence \in SUBSET Slots
  /\ \A t \in Threads :
       /\ frame[t] \in [op : {"none", "add", "get", "remove", "reserve"},
                        slot : Slots \cup {0}, value : Values \cup {Nothing},
                        done : BOOLEAN, index : Nat, target : Nat]
       /\ Op(t) \in {"add", "get", "remove"} => Slot(t) \in Slots
       /\ Op(t) # "get" => frame[t].value \in Values
       /\ Op(t) = "none" => frame[t] = NoFrame(Tag) /\ pc[t] \in {"idle", "destroyed"}
       /\ pc[t] \in {"idle", "destroyed"} => Op(t) = "none"

(* Only lookups share a slot, with lookups or with one add. *)
CallsApart ==
  \A t, u \in Threads :
    (/\ t # u /\ Slot(t) = Slot(u)
     /\ Op(t) \in {"add", "remove"} /\ Op(u) \in {"add", "get", "remove"})
      => Op(t) = "add" /\ Op(u) = "get"

CallsInv ==
  /\ CallTypes
  /\ CallsApart
  /\ Destroyed => \A t \in Threads : pc[t] = "destroyed"

-----------------------------------------------------------------------------
(* SparseComponentStorage. *)

SparseTypes ==
  /\ entries \in [Slots -> Nat]
  /\ size \in 0 .. MaxIndices
  /\ taken \subseteq 0 .. size - 1
  /\ objects \in [0 .. MaxIndices - 1 -> Values \cup {Raw}]

(* What a thread knows where it is in its call. *)
SparseThread(t) ==
  /\ Op(t) # "reserve"
  /\ Op(t) = "add" =>
       /\ pc[t] \in {"page", "install", "test", "construct", "store", "set", "return"}
       /\ frame[t].done <=> pc[t] = "return"
       /\ pc[t] \in {"test", "construct", "store", "set"} => Sparse!PageOf(Slot(t)) \in pages
       /\ pc[t] \in {"construct", "store", "set"} => Slot(t) \notin presence
       /\ pc[t] \in {"store", "set"} => objects[frame[t].index] = frame[t].value
       /\ pc[t] = "set" => entries[Slot(t)] = frame[t].index
  /\ Op(t) = "get" =>
       /\ pc[t] \in {"look", "read", "return"}
       /\ frame[t].done <=> pc[t] = "return"
       /\ pc[t] = "read" => Slot(t) \in presence
  /\ Op(t) = "remove" =>
       /\ pc[t] \in {"destroy", "give", "erase", "clear", "return"}
       /\ frame[t].done <=> pc[t] # "destroy"
       /\ Slot(t) \in presence <=> pc[t] # "return"
       /\ pc[t] = "destroy" => entries[Slot(t)] = frame[t].index

(* Threads that own an index: one they have been given for a new object, or  *)
(* one whose object they have destroyed.                                      *)
Publishing == {t \in Threads : Op(t) = "add" /\ pc[t] \in {"store", "set"}}
Holding ==
  {t \in Threads : \/ Op(t) = "add" /\ pc[t] \in {"construct", "store", "set"}
                   \/ Op(t) = "remove" /\ pc[t] = "give"}

(* Every index out of the pool has one owner, a slot or a thread. *)
IndicesShared ==
  /\ \A s, r \in Counted : entries[s] = entries[r] => s = r
  /\ \A t, u \in Holding : frame[t].index = frame[u].index => t = u
  /\ \A s \in Counted : \A t \in Holding : entries[s] # frame[t].index
  /\ taken = {entries[s] : s \in Counted} \cup {frame[t].index : t \in Holding}

(* An object lives exactly in the indices of slots and of publishing threads.*)
SparseObjects ==
  \A i \in 0 .. MaxIndices - 1 :
    objects[i] # Raw <=> \/ ~Destroyed /\ \E s \in Counted : entries[s] = i
                         \/ \E t \in Publishing : frame[t].index = i

SparseInv ==
  /\ CallsInv
  /\ SparseTypes
  /\ \A t \in Threads : SparseThread(t)
  /\ IndicesShared
  /\ SparseObjects
  /\ \A s \in presence : Sparse!PageOf(s) \in pages

-----------------------------------------------------------------------------
(* ComponentColumn. *)

HasTable(s) == Column!TableOf(Column!BlockOf(s)) \in tables
HasBlock(s) == Column!BlockOf(s) \in blocks

ColumnTypes ==
  /\ storesData \in BOOLEAN
  /\ blockLive \in [Column!Blocks -> Int]
  /\ liveCount \in Int
  /\ IsFiniteSet(presence)
  /\ objects \in [Slots -> Values \cup {Raw}]

ColumnThread(t) ==
  /\ Op(t) = "reserve" =>
       /\ pc[t] \in {"table", "installTable", "block", "installBlock", "return"}
       /\ ~frame[t].done
  /\ pc[t] \in {"block", "installBlock"} => storesData
  /\ Op(t) = "add" =>
       /\ pc[t] \in {"table", "installTable", "block", "installBlock", "test",
                     "construct", "set", "countBlock", "count", "return"}
       /\ frame[t].done <=> pc[t] \in {"countBlock", "count", "return"}
       /\ storesData \/ frame[t].value = Tag
       /\ pc[t] \in {"block", "installBlock"} => HasTable(Slot(t))
       /\ pc[t] = "test" /\ storesData => HasTable(Slot(t)) /\ HasBlock(Slot(t))
       /\ pc[t] = "construct" => storesData /\ HasTable(Slot(t)) /\ HasBlock(Slot(t))
       /\ pc[t] = "set" =>
            /\ HasTable(Slot(t))
            /\ storesData => HasBlock(Slot(t)) /\ objects[Slot(t)] = frame[t].value
       /\ pc[t] \in {"construct", "set"} => Slot(t) \notin presence
       /\ ~storesData /\ pc[t] \in {"table", "installTable"} => Slot(t) \notin presence
       /\ pc[t] \in {"countBlock", "count"} => Slot(t) \in presence
  /\ Op(t) = "get" =>
       /\ pc[t] \in {"look", "read", "return"}
       /\ frame[t].done <=> pc[t] = "return"
       /\ pc[t] = "read" => Slot(t) \in presence
  /\ Op(t) = "remove" =>
       /\ pc[t] \in {"destroy", "clear", "uncountBlock", "uncount", "return"}
       /\ Slot(t) \in presence <=> pc[t] \in {"destroy", "clear"}
       /\ pc[t] = "destroy" => storesData
       /\ frame[t].done <=> pc[t] # "destroy" /\ (pc[t] = "clear" => storesData)

PublishingSlots == {Slot(t) : t \in {u \in Threads : Op(u) = "add" /\ pc[u] = "set"}}

ColumnObjects ==
  \A s \in Slots :
    /\ objects[s] # Raw <=> storesData /\ s \in Filled \cup PublishingSlots
    /\ s \in presence => HasTable(s) /\ (storesData => HasBlock(s))

ColumnInv ==
  /\ CallsInv
  /\ ColumnTypes
  /\ \A t \in Threads : ColumnThread(t)
  /\ ColumnObjects
  /\ Column!ColumnCountsSettle

-----------------------------------------------------------------------------
(* The invariant of the storage the policy chose. *)
StorageInv ==
  /\ policy \in {"sparse", "column"}
  /\ IF policy = "sparse" THEN SparseInv ELSE ColumnInv

-----------------------------------------------------------------------------
(* Calls. *)

(* An action of one thread. *)
Others(t) ==
  /\ DOMAIN pc' = Threads /\ DOMAIN frame' = Threads
  /\ \A u \in Threads \ {t} : pc'[u] = pc[u] /\ frame'[u] = frame[u]

FrameType ==
  [op : {"none", "add", "get", "remove", "reserve"}, slot : Slots \cup {0},
   value : Values \cup {Nothing}, done : BOOLEAN, index : Nat, target : Nat]

LEMMA TagIs == Tag \in Values
BY StorageAssumptions DEF Tag

LEMMA NoFrameIs ==
  NoFrame(Tag) \in FrameType /\ NoFrame(Tag).op = "none" /\ NoFrame(Tag).value \in Values
BY TagIs DEF NoFrame, Frame, FrameType

LEMMA FrameSet ==
  ASSUME NEW f \in FrameType
  PROVE  /\ \A v \in Values \cup {Nothing} :
              LET g == [f EXCEPT !.value = v, !.done = TRUE] IN
                /\ g \in FrameType /\ g.op = f.op /\ g.slot = f.slot /\ g.value = v
                /\ g.done = TRUE /\ g.index = f.index
         /\ LET g == [f EXCEPT !.done = TRUE] IN
              /\ g \in FrameType /\ g.op = f.op /\ g.slot = f.slot /\ g.value = f.value
              /\ g.done = TRUE /\ g.index = f.index
         /\ \A i \in Nat :
              LET g == [f EXCEPT !.index = i] IN
                /\ g \in FrameType /\ g.op = f.op /\ g.slot = f.slot /\ g.value = f.value
                /\ g.done = f.done /\ g.index = i
BY DEF FrameType

(* A call goes on: it remains the call it was. *)
LEMMA CallGoesOn ==
  ASSUME CallsInv, NEW t \in Threads, Others(t), presence' \in SUBSET Slots,
         frame'[t] \in FrameType, Op(t)' = Op(t), Slot(t)' = Slot(t), Op(t) # "none",
         Op(t) # "get" => frame'[t].value \in Values,
         pc'[t] \notin {"idle", "destroyed"}
  PROVE  CallsInv'
<1>1. CallTypes'
  BY DEF CallsInv, CallTypes, Others, FrameType, Op, Slot
<1>2. CallsApart'
  <2>1. \A u \in Threads : Op(u)' = Op(u) /\ Slot(u)' = Slot(u)
    BY DEF Others, Op, Slot
  <2>2. QED
    BY <2>1 DEF CallsInv, CallsApart
<1>3. ~Destroyed'
  BY DEF CallsInv, CallTypes, Others, Destroyed
<1>4. QED
  BY <1>1, <1>2, <1>3 DEF CallsInv

(* A call is over. *)
LEMMA CallEnds ==
  ASSUME CallsInv, NEW t \in Threads, Others(t), presence' \in SUBSET Slots,
         frame'[t] = NoFrame(Tag), pc'[t] = "idle", Op(t) # "none"
  PROVE  CallsInv'
<1>1. CallTypes'
  BY NoFrameIs DEF CallsInv, CallTypes, Others, FrameType, Op, Slot
<1>2. CallsApart'
  <2>1. \A u \in Threads \ {t} : Op(u)' = Op(u) /\ Slot(u)' = Slot(u)
    BY DEF Others, Op, Slot
  <2>2. Op(t)' = "none"
    BY NoFrameIs DEF Op
  <2>3. QED
    BY <2>1, <2>2 DEF CallsInv, CallsApart
<1>3. ~Destroyed'
  BY DEF CallsInv, CallTypes, Others, Destroyed
<1>4. QED
  BY <1>1, <1>2, <1>3 DEF CallsInv

(* A call starts where the calls on its slot allow it. *)
LEMMA CallStarts ==
  ASSUME CallsInv, NEW t \in Threads, pc[t] = "idle", Others(t), UNCHANGED presence,
         frame'[t] \in FrameType, frame'[t].op # "none", frame'[t].value \in Values,
         pc'[t] \notin {"idle", "destroyed"},
         \/ frame'[t].op = "reserve"
         \/ frame'[t].op = "add" /\ frame'[t].slot \in Slots /\ MayAdd(frame'[t].slot)
         \/ frame'[t].op = "get" /\ frame'[t].slot \in Slots /\ MayGet(frame'[t].slot)
         \/ frame'[t].op = "remove" /\ frame'[t].slot \in Slots /\ MayRemove(frame'[t].slot)
  PROVE  CallsInv'
<1>1. CallTypes'
  BY DEF CallsInv, CallTypes, Others, FrameType, Op, Slot
<1>2. CallsApart'
  <2>1. \A u \in Threads \ {t} : Op(u)' = Op(u) /\ Slot(u)' = Slot(u)
    BY DEF Others, Op, Slot
  <2>2. Op(t)' = frame'[t].op /\ Slot(t)' = frame'[t].slot
    BY DEF Op, Slot
  <2>3. \A u \in Threads \ {t} :
          Op(u) \in {"add", "get", "remove"} /\ Slot(u) = frame'[t].slot
            => \/ frame'[t].op = "reserve"
               \/ frame'[t].op = "add" /\ Op(u) = "get"
               \/ frame'[t].op = "get" /\ Op(u) \in {"get", "add"}
    BY DEF MayAdd, MayGet, MayRemove, CallsOn, Op
  <2>4. QED
    BY <2>1, <2>2, <2>3 DEF CallsInv, CallsApart
<1>3. ~Destroyed'
  BY DEF CallsInv, CallTypes, Others, Destroyed
<1>4. QED
  BY <1>1, <1>2, <1>3 DEF CallsInv

(* Destruction, while no call is under way. *)
LEMMA CallsDestroyed ==
  ASSUME CallsInv, AllIdle, pc' = [t \in Threads |-> "destroyed"], UNCHANGED <<presence, frame>>
  PROVE  CallsInv' /\ Destroyed' /\ \A t \in Threads : Op(t) = "none" /\ Op(t)' = "none"
<1>1. \A t \in Threads : Op(t) = "none" /\ Op(t)' = "none"
  BY DEF CallsInv, CallTypes, AllIdle, Op
<1>2. QED
  BY <1>1, StorageAssumptions
  DEF CallsInv, CallTypes, CallsApart, Destroyed, Op, Slot

-----------------------------------------------------------------------------
(* SparseComponentStorage. *)

Leaver(t) == Op(t) = "remove" /\ frame[t].done

LEMMA CountedIs ==
  Counted = {s \in presence : \A t \in Threads : Leaver(t) => Slot(t) # s}
BY DEF Counted, Leaving, Leaver, Op

(* The pool indices of slots and threads are indices. *)
LEMMA IndicesTaken ==
  ASSUME IndicesShared, SparseTypes
  PROVE  /\ \A s \in Counted : entries[s] \in taken /\ entries[s] \in 0 .. MaxIndices - 1
         /\ \A t \in Holding :
              frame[t].index \in taken /\ frame[t].index \in 0 .. MaxIndices - 1
         /\ Publishing \subseteq Holding
<1>1. taken \subseteq 0 .. MaxIndices - 1
  BY StorageForAssumptions DEF SparseTypes
<1>2. QED
  BY <1>1 DEF IndicesShared, Holding, Publishing

(* What the other threads know stays true where their slots are left alone. *)
LEMMA SparseOthers ==
  ASSUME SparseInv, NEW t \in Threads, Others(t), pages \subseteq pages',
         \A u \in Threads \ {t} : Op(u) \in {"add", "remove"} =>
           /\ Slot(u) \in presence' <=> Slot(u) \in presence
           /\ entries'[Slot(u)] = entries[Slot(u)],
         \A u \in Threads \ {t} :
           Op(u) = "get" /\ Slot(u) \in presence => Slot(u) \in presence',
         \A u \in Publishing \ {t} : objects'[frame[u].index] = objects[frame[u].index],
         NEW u \in Threads \ {t}
  PROVE  SparseThread(u)'
<1>1. /\ SparseThread(u) /\ pc'[u] = pc[u] /\ frame'[u] = frame[u]
      /\ Op(u)' = Op(u) /\ Slot(u)' = Slot(u)
  BY DEF SparseInv, Others, Op, Slot
<1>2. Sparse!PageOf(Slot(u))' = Sparse!PageOf(Slot(u))
  BY <1>1 DEF Sparse!PageOf
<1>3. QED
  BY <1>1, <1>2 DEF SparseThread, Publishing

(* An action that moves no index, object or bit. *)
LEMMA SparseQuiet ==
  ASSUME SparseInv, NEW t \in Threads, Others(t), CallsInv', "destroyed" \notin {pc[t], pc'[t]},
         pages \subseteq pages', UNCHANGED <<entries, taken, size, objects, presence>>,
         t \notin Holding, t \notin Holding',
         Leaver(t) => Slot(t) \notin presence, Leaver(t)' => Slot(t)' \notin presence,
         SparseThread(t)'
  PROVE  SparseInv'
<1>1. \A u \in Threads \ {t} :
        pc'[u] = pc[u] /\ frame'[u] = frame[u] /\ Op(u)' = Op(u) /\ Slot(u)' = Slot(u)
  BY DEF Others, Op, Slot
<1>2. \A u \in Threads : SparseThread(u)'
  BY SparseOthers
<1>3. Counted' = Counted
  BY <1>1 DEF Counted, Leaving, Leaver, Op
<1>4. Holding' = Holding /\ \A u \in Holding : frame'[u] = frame[u]
  BY <1>1 DEF Holding
<1>5. Publishing' = Publishing /\ Publishing \subseteq Holding
  BY <1>1 DEF Publishing, Holding
<1>6. ~Destroyed /\ ~Destroyed'
  BY DEF SparseInv, CallsInv, Destroyed, CallTypes, Others
<1>7. IndicesShared'
  BY <1>3, <1>4 DEF SparseInv, IndicesShared
<1>8. SparseObjects'
  BY <1>3, <1>4, <1>5, <1>6 DEF SparseInv, SparseObjects
<1>9. SparseTypes' /\ \A s \in presence' : Sparse!PageOf(s) \in pages'
  BY DEF SparseInv, SparseTypes
<1>10. QED
  BY <1>2, <1>7, <1>8, <1>9 DEF SparseInv

LEMMA SparseAddCalls ==
  ASSUME SparseInv, NEW t \in Threads, NEW s \in Slots, NEW v \in Values,
         Sparse!addComponent(t, s, v)
  PROVE  SparseInv'
<1> DEFINE f == Frame("add", s, v)
<1>1. /\ f \in FrameType /\ f.op = "add" /\ f.slot = s /\ f.value = v /\ f.done = FALSE
      /\ Sparse!Frame("add", s, v) = f
  BY DEF Frame, Sparse!Frame, FrameType
<1> HIDE DEF f
<1>2. /\ MayAdd(s) /\ pc[t] = "idle"
      /\ frame' = [frame EXCEPT ![t] = f] /\ pc' = [pc EXCEPT ![t] = "page"]
      /\ UNCHANGED <<pages, entries, taken, size, presence, objects>>
  BY <1>1 DEF Sparse!addComponent, Sparse!MayAdd, Sparse!CallsOn, Sparse!Slot, MayAdd,
              CallsOn, Slot, Sparse!Enter, Sparse!Goto, Sparse!poolState
<1>3. Op(t) = "none" /\ CallsInv /\ CallTypes
  BY <1>2 DEF SparseInv, CallsInv, CallTypes
<1>4. Others(t) /\ frame'[t] = f /\ pc'[t] = "page"
  BY <1>2, <1>3 DEF Others, CallTypes
<1>5. CallsInv'
  BY <1>1, <1>2, <1>3, <1>4, CallStarts
<1>6. Op(t)' = "add" /\ Slot(t)' = s /\ frame'[t].done = FALSE
  BY <1>1, <1>4 DEF Op, Slot
<1>7. SparseThread(t)' /\ t \notin Holding /\ t \notin Holding' /\ ~Leaver(t) /\ ~Leaver(t)'
  BY <1>3, <1>4, <1>6 DEF SparseThread, Holding, Leaver
<1>8. QED
  BY <1>2, <1>4, <1>5, <1>7, SparseQuiet

LEMMA SparseGetCalls ==
  ASSUME SparseInv, NEW t \in Threads, NEW s \in Slots,
         Sparse!getComponent(t, s), UNCHANGED <<pages, entries, taken, size, presence, objects>>
  PROVE  SparseInv'
<1> DEFINE f == Frame("get", s, Tag)
<1>1. /\ f \in FrameType /\ f.op = "get" /\ f.slot = s /\ f.value \in Values
      /\ f.done = FALSE /\ Sparse!Frame("get", s, Sparse!Tag) = f
  BY TagIs DEF Frame, Sparse!Frame, FrameType, Tag, Sparse!Tag
<1> HIDE DEF f
<1>2. /\ MayGet(s) /\ pc[t] = "idle"
      /\ frame' = [frame EXCEPT ![t] = f] /\ pc' = [pc EXCEPT ![t] = "look"]
  BY <1>1 DEF Sparse!getComponent, Sparse!MayGet, Sparse!CallsOn, Sparse!Slot, MayGet,
              CallsOn, Slot, Sparse!Enter, Sparse!Goto
<1>3. Op(t) = "none" /\ CallsInv /\ CallTypes
  BY <1>2 DEF SparseInv, CallsInv, CallTypes
<1>4. Others(t) /\ frame'[t] = f /\ pc'[t] = "look"
  BY <1>2, <1>3 DEF Others, CallTypes
<1>5. CallsInv'
  BY <1>1, <1>2, <1>3, <1>4, CallStarts
<1>6. Op(t)' = "get" /\ Slot(t)' = s /\ frame'[t].done = FALSE
  BY <1>1, <1>4 DEF Op, Slot
<1>7. SparseThread(t)' /\ t \notin Holding /\ t \notin Holding' /\ ~Leaver(t) /\ ~Leaver(t)'
  BY <1>3, <1>4, <1>6 DEF SparseThread, Holding, Leaver
<1>8. QED
  BY <1>2, <1>4, <1>5, <1>7, SparseQuiet

LEMMA SparseRemoveCalls ==
  ASSUME SparseInv, NEW t \in Threads, NEW s \in Slots, Sparse!removeComponent(t, s)
  PROVE  SparseInv'
<1> DEFINE f == [Frame("remove", s, Tag) EXCEPT !.index = entries[s]]
<1>1. /\ f \in FrameType /\ f.op = "remove" /\ f.slot = s /\ f.value \in Values
      /\ f.done = FALSE /\ f.index = entries[s]
      /\ [Sparse!Frame("remove", s, Sparse!Tag) EXCEPT !.index = entries[s]] = f
  BY TagIs DEF Frame, Sparse!Frame, FrameType, Tag, Sparse!Tag, SparseInv, SparseTypes
<1> HIDE DEF f
<1>2. /\ MayRemove(s) /\ pc[t] = "idle"
      /\ frame' = [frame EXCEPT ![t] = f] /\ pc' = [pc EXCEPT ![t] = "destroy"]
      /\ UNCHANGED <<pages, entries, taken, size, presence, objects>>
  BY <1>1 DEF Sparse!removeComponent, Sparse!MayRemove, Sparse!CallsOn, Sparse!Slot, MayRemove,
              CallsOn, Slot, Sparse!Enter, Sparse!Goto, Sparse!poolState
<1>3. Op(t) = "none" /\ CallsInv /\ CallTypes
  BY <1>2 DEF SparseInv, CallsInv, CallTypes
<1>4. Others(t) /\ frame'[t] = f /\ pc'[t] = "destroy"
  BY <1>2, <1>3 DEF Others, CallTypes
<1>5. CallsInv'
  BY <1>1, <1>2, <1>3, <1>4, CallStarts
<1>6. Op(t)' = "remove" /\ Slot(t)' = s /\ frame'[t].done = FALSE
  BY <1>1, <1>4 DEF Op, Slot
<1>7. SparseThread(t)' /\ t \notin Holding /\ t \notin Holding' /\ ~Leaver(t) /\ ~Leaver(t)'
  BY <1>1, <1>2, <1>3, <1>4, <1>6 DEF SparseThread, Holding, Leaver, MayRemove
<1>8. QED
  BY <1>2, <1>4, <1>5, <1>7, SparseQuiet

LEMMA SparsePageSteps ==
  ASSUME SparseInv, NEW t \in Threads, Sparse!findPage(t) \/ Sparse!installPage(t)
  PROVE  SparseInv'
<1>1. /\ Op(t) = "add" /\ pc[t] \in {"page", "install"}
      /\ \E l \in {"test", "install"} :
           /\ pc' = [pc EXCEPT ![t] = l]
           /\ l = "test" => Sparse!PageOf(Slot(t)) \in pages'
      /\ pages \subseteq pages'
      /\ UNCHANGED <<entries, taken, size, presence, objects, frame>>
  BY DEF Sparse!findPage, Sparse!installPage, Sparse!Doing, Sparse!Goto, Sparse!Slot, Slot,
         Op, Sparse!poolState
<1>2. CallsInv /\ CallTypes /\ SparseThread(t) /\ frame[t] \in FrameType
  BY DEF SparseInv, CallsInv, CallTypes, FrameType
<1>3. /\ Others(t) /\ frame'[t] = frame[t] /\ Op(t)' = Op(t) /\ Slot(t)' = Slot(t)
      /\ pc'[t] \in {"test", "install"}
      /\ pc'[t] = "test" => Sparse!PageOf(Slot(t)) \in pages'
  BY <1>1, <1>2 DEF Others, CallTypes, Op, Slot
<1>4. CallsInv'
  BY <1>1, <1>2, <1>3, CallGoesOn DEF CallTypes
<1>5. SparseThread(t)'
  <2>1. Sparse!PageOf(Slot(t))' = Sparse!PageOf(Slot(t))
    BY <1>3 DEF Sparse!PageOf
  <2>2. QED
    BY <1>1, <1>2, <1>3, <2>1 DEF SparseThread
<1>6. t \notin Holding /\ t \notin Holding' /\ ~Leaver(t) /\ ~Leaver(t)'
  BY <1>1, <1>3 DEF Holding, Leaver
<1>7. QED
  BY <1>1, <1>3, <1>4, <1>5, <1>6, SparseQuiet

(* A present slot that somebody adds to or looks up is not being removed. *)
LEMMA PresentCounted ==
  ASSUME CallsInv, NEW t \in Threads, Op(t) \in {"add", "get"}, Slot(t) \in presence
  PROVE  Slot(t) \in Counted /\ ~Destroyed
<1>1. CallTypes /\ CallsApart
  BY DEF CallsInv
<1>2. \A u \in Threads : Leaver(u) => Slot(u) # Slot(t)
  BY <1>1 DEF CallsApart, Leaver
<1>3. ~Destroyed
  BY <1>1 DEF CallsInv, CallTypes
<1>4. QED
  BY <1>2, <1>3, CountedIs

LEMMA SparseLookups ==
  ASSUME SparseInv, NEW t \in Threads, UNCHANGED <<pages, entries, taken, size, presence>>,
         \/ Sparse!lookup(t) /\ UNCHANGED objects
         \/ Sparse!readObject(t)
  PROVE  SparseInv'
<1>1. CallsInv /\ CallTypes /\ SparseThread(t) /\ frame[t] \in FrameType /\ SparseTypes
  BY DEF SparseInv, CallsInv, CallTypes, FrameType
<1>2. CASE Sparse!lookup(t) /\ UNCHANGED objects /\ Slot(t) \in presence
  <2>1. /\ Op(t) = "get" /\ pc[t] = "look"
        /\ pc' = [pc EXCEPT ![t] = "read"] /\ UNCHANGED frame
    BY <1>2 DEF Sparse!lookup, Sparse!Doing, Sparse!Goto, Sparse!Slot, Slot, Op
  <2>2. Others(t) /\ pc'[t] = "read" /\ frame'[t] = frame[t] /\ Op(t)' = Op(t) /\ Slot(t)' = Slot(t)
    BY <1>1, <2>1 DEF Others, CallTypes, Op, Slot
  <2>3. CallsInv'
    BY <1>1, <2>1, <2>2, CallGoesOn DEF CallTypes
  <2>4. SparseThread(t)' /\ t \notin Holding /\ t \notin Holding' /\ ~Leaver(t) /\ ~Leaver(t)'
    BY <1>1, <1>2, <2>1, <2>2 DEF SparseThread, Holding, Leaver
  <2>5. QED
    BY <1>2, <2>1, <2>2, <2>3, <2>4, SparseQuiet
<1>3. ASSUME NEW v \in Values \cup {Nothing}, Op(t) = "get", pc[t] \in {"look", "read"},
             frame' = [frame EXCEPT ![t].value = v, ![t].done = TRUE],
             pc' = [pc EXCEPT ![t] = "return"], UNCHANGED objects
      PROVE  SparseInv'
  <2> DEFINE g == [frame[t] EXCEPT !.value = v, !.done = TRUE]
  <2>0. /\ g \in FrameType /\ g.op = frame[t].op /\ g.slot = frame[t].slot
        /\ g.done = TRUE
    BY <1>1, FrameSet
  <2>1. Others(t) /\ pc'[t] = "return" /\ frame'[t] = g
    BY <1>1, <1>3 DEF Others, CallTypes
  <2> HIDE DEF g
  <2>2. /\ frame'[t] \in FrameType /\ Op(t)' = "get" /\ Slot(t)' = Slot(t)
        /\ frame'[t].done = TRUE
    BY <1>3, <2>0, <2>1 DEF Op, Slot
  <2>3. CallsInv'
    BY <1>1, <1>3, <2>1, <2>2, CallGoesOn DEF CallTypes
  <2>4. SparseThread(t)' /\ t \notin Holding /\ t \notin Holding' /\ ~Leaver(t) /\ ~Leaver(t)'
    BY <1>3, <2>1, <2>2 DEF SparseThread, Holding, Leaver
  <2>5. QED
    BY <1>3, <2>1, <2>3, <2>4, SparseQuiet
<1>4. CASE Sparse!lookup(t) /\ UNCHANGED objects /\ Slot(t) \notin presence
  <2>1. /\ Op(t) = "get" /\ pc[t] = "look"
        /\ frame' = [frame EXCEPT ![t].value = Nothing, ![t].done = TRUE]
        /\ pc' = [pc EXCEPT ![t] = "return"]
    BY <1>4 DEF Sparse!lookup, Sparse!Doing, Sparse!Goto, Sparse!Slot, Slot, Op
  <2>2. QED
    BY <1>3, <1>4, <2>1
<1>5. CASE Sparse!readObject(t)
  <2>1. /\ Op(t) = "get" /\ pc[t] = "read" /\ UNCHANGED objects
        /\ frame' = [frame EXCEPT ![t].value = objects[entries[Slot(t)]], ![t].done = TRUE]
        /\ pc' = [pc EXCEPT ![t] = "return"]
    BY <1>5 DEF Sparse!readObject, Sparse!ReadAs, Sparse!Entry, Sparse!Doing, Sparse!Goto,
                Sparse!Slot, Slot, Op
  <2>2. Slot(t) \in presence
    BY <1>1, <2>1 DEF SparseThread
  <2>3. objects[entries[Slot(t)]] \in Values
    BY <1>1, <2>1, <2>2, PresentCounted, IndicesTaken
    DEF SparseInv, SparseObjects, SparseTypes
  <2>4. QED
    BY <1>3, <2>1, <2>3
<1>6. QED
  BY <1>2, <1>4, <1>5

LEMMA SparseReturns ==
  ASSUME SparseInv, NEW t \in Threads, Sparse!return(t), UNCHANGED <<pages, entries, taken, size>>
  PROVE  SparseInv'
<1>1. CallsInv /\ CallTypes /\ SparseThread(t)
  BY DEF SparseInv, CallsInv
<1>2. /\ pc[t] = "return" /\ UNCHANGED <<presence, objects>>
      /\ frame' = [frame EXCEPT ![t] = NoFrame(Tag)] /\ pc' = [pc EXCEPT ![t] = "idle"]
  BY DEF Sparse!return, Sparse!Leave, Sparse!Goto, Sparse!NoFrame, Sparse!Frame, Sparse!Tag,
         NoFrame, Frame, Tag
<1>3. Others(t) /\ frame'[t] = NoFrame(Tag) /\ pc'[t] = "idle" /\ Op(t) # "none"
  BY <1>1, <1>2 DEF Others, CallTypes
<1>4. CallsInv'
  BY <1>1, <1>2, <1>3, CallEnds DEF CallTypes
<1>5. Op(t)' = "none"
  BY <1>3, NoFrameIs DEF Op
<1>6. SparseThread(t)' /\ t \notin Holding /\ t \notin Holding' /\ ~Leaver(t)'
  BY <1>2, <1>5 DEF SparseThread, Holding, Leaver
<1>7. Leaver(t) => Slot(t) \notin presence
  BY <1>1, <1>2 DEF Leaver, SparseThread
<1>8. QED
  BY <1>1, <1>2, <1>3, <1>4, <1>6, <1>7, SparseQuiet DEF CallTypes

LEMMA SparseOverwrites ==
  ASSUME SparseInv, NEW t \in Threads, Sparse!overwrite(t)
  PROVE  SparseInv'
<1>1. CallsInv /\ CallTypes /\ SparseThread(t) /\ frame[t] \in FrameType /\ SparseTypes
  BY DEF SparseInv, CallsInv, CallTypes, FrameType
<1> DEFINE g == [frame[t] EXCEPT !.done = TRUE]
           v == frame[t].value
           s == Slot(t)
<1>2. /\ g \in FrameType /\ g.op = Op(t) /\ g.slot = s /\ g.value = v /\ g.done = TRUE
      /\ g.index = frame[t].index
  BY <1>1, FrameSet DEF Op, Slot
<1>3. /\ Op(t) = "add" /\ pc[t] = "test" /\ s \in presence
      /\ objects' = [objects EXCEPT ![entries[s]] = v]
      /\ frame' = [frame EXCEPT ![t] = g] /\ pc' = [pc EXCEPT ![t] = "return"]
      /\ UNCHANGED <<pages, entries, taken, size, presence>>
  BY <1>1 DEF Sparse!overwrite, Sparse!Doing, Sparse!Effect, Sparse!Goto, Sparse!Entry,
              Sparse!Slot, Slot, Op, Sparse!poolState, CallTypes
<1> HIDE DEF g
<1>4. /\ Others(t) /\ frame'[t] = g /\ pc'[t] = "return" /\ Op(t)' = "add" /\ Slot(t)' = s
  BY <1>1, <1>2, <1>3 DEF Others, CallTypes, Op, Slot
<1>5. v \in Values /\ v # Raw
  BY <1>1, <1>3, StorageAssumptions DEF CallTypes
<1>6. CallsInv'
  BY <1>1, <1>2, <1>3, <1>4, <1>5, CallGoesOn DEF CallTypes
<1>7. s \in Counted /\ entries[s] \in 0 .. MaxIndices - 1 /\ ~Destroyed
  BY <1>1, <1>3, PresentCounted, IndicesTaken DEF SparseInv
<1>8. \A u \in Holding : entries[s] # frame[u].index
  BY <1>7 DEF SparseInv, IndicesShared
<1>9. SparseThread(t)'
  BY <1>2, <1>4 DEF SparseThread
<1>10. \A u \in Publishing : objects'[frame[u].index] = objects[frame[u].index]
  BY <1>1, <1>3, <1>8 DEF SparseTypes, Publishing, Holding
<1>11. \A u \in Threads : SparseThread(u)'
  BY <1>3, <1>4, <1>9, <1>10, SparseOthers
<1>12. Counted' = Counted
  BY <1>3, <1>4 DEF Others, Counted, Leaving, Op, Slot
<1>13. /\ Holding' = Holding /\ \A u \in Holding : frame'[u] = frame[u]
       /\ Publishing' = Publishing /\ Publishing \subseteq Holding
  BY <1>3, <1>4 DEF Others, Holding, Publishing, Op
<1>14. IndicesShared'
  BY <1>3, <1>12, <1>13 DEF SparseInv, IndicesShared
<1>15. ~Destroyed'
  BY <1>4, <1>7 DEF Destroyed, Others
<1>16. SparseTypes'
  BY <1>1, <1>3, <1>5, <1>7 DEF SparseTypes
<1>17. \A i \in 0 .. MaxIndices - 1 : objects'[i] # Raw <=> objects[i] # Raw
  BY <1>1, <1>3, <1>5, <1>7 DEF SparseTypes, SparseInv, SparseObjects
<1>18. SparseObjects'
  BY <1>3, <1>7, <1>12, <1>13, <1>15, <1>17 DEF SparseInv, SparseObjects
<1>19. QED
  BY <1>3, <1>6, <1>11, <1>14, <1>16, <1>18 DEF SparseInv

(* An index of the pool becomes the thread's. *)
LEMMA SparseAllocates ==
  ASSUME SparseInv, NEW t \in Threads, Sparse!allocate(t)
  PROVE  SparseInv'
<1>1. CallsInv /\ CallTypes /\ SparseThread(t) /\ frame[t] \in FrameType /\ SparseTypes
  BY DEF SparseInv, CallsInv, CallTypes, FrameType
<1>2. PICK i \in 0 .. MaxIndices - 1 :
        /\ Op(t) = "add" /\ pc[t] = "test" /\ Slot(t) \notin presence
        /\ i \notin taken /\ taken' = taken \cup {i}
        /\ size' \in 0 .. MaxIndices /\ taken' \subseteq 0 .. size' - 1
        /\ frame' = [frame EXCEPT ![t].index = i] /\ pc' = [pc EXCEPT ![t] = "construct"]
        /\ UNCHANGED <<pages, entries, presence, objects>>
  <2>1. /\ Op(t) = "add" /\ pc[t] = "test" /\ Slot(t) \notin presence
        /\ pc' = [pc EXCEPT ![t] = "construct"]
        /\ UNCHANGED <<pages, entries, presence, objects>>
    BY DEF Sparse!allocate, Sparse!Doing, Sparse!Goto, Sparse!Absent, Sparse!Slot, Slot, Op
  <2>2. /\ size \in 0 .. MaxIndices /\ taken \subseteq 0 .. size - 1 /\ MaxIndices \in Nat
    BY <1>1, StorageForAssumptions DEF SparseTypes
  <2>3. CASE /\ size < MaxIndices /\ Sparse!Pool!TakeNew
             /\ frame' = [frame EXCEPT ![t].index = size]
    <3>1. /\ size \in 0 .. MaxIndices - 1 /\ size \notin taken
          /\ taken' = taken \cup {size} /\ size' = size + 1
      BY <2>2, <2>3 DEF Sparse!Pool!TakeNew
    <3>2. size' \in 0 .. MaxIndices /\ taken' \subseteq 0 .. size' - 1
      BY <2>2, <3>1
    <3>3. QED
      BY <2>1, <2>3, <3>1, <3>2
  <2>4. ASSUME NEW i \in 0 .. MaxIndices - 1, Sparse!Pool!TakeRecycled(i),
               frame' = [frame EXCEPT ![t].index = i]
        PROVE  \E j \in 0 .. MaxIndices - 1 :
                 /\ j \notin taken /\ taken' = taken \cup {j}
                 /\ size' \in 0 .. MaxIndices /\ taken' \subseteq 0 .. size' - 1
                 /\ frame' = [frame EXCEPT ![t].index = j]
    <3>1. i \notin taken /\ taken' = taken \cup {i} /\ size' = size /\ i \in 0 .. size - 1
      BY <2>4 DEF Sparse!Pool!TakeRecycled
    <3>2. QED
      BY <2>2, <2>4, <3>1
  <2>5. \/ <2>3!1
        \/ \E i \in 0 .. MaxIndices - 1 :
              Sparse!Pool!TakeRecycled(i) /\ frame' = [frame EXCEPT ![t].index = i]
    BY DEF Sparse!allocate, Sparse!Indices
  <2>6. QED
    BY <2>1, <2>3, <2>4, <2>5
<1> DEFINE g == [frame[t] EXCEPT !.index = i]
           s == Slot(t)
<1>3. /\ g \in FrameType /\ g.op = Op(t) /\ g.slot = s /\ g.value = frame[t].value
      /\ g.done = frame[t].done /\ g.index = i
  <2>1. i \in Nat
    BY StorageForAssumptions
  <2>2. QED
    BY <1>1, <2>1, FrameSet DEF Op, Slot
<1>4. /\ Others(t) /\ frame'[t] = g /\ pc'[t] = "construct" /\ Op(t)' = "add" /\ Slot(t)' = s
  BY <1>1, <1>2, <1>3 DEF Others, CallTypes, Op, Slot
<1> HIDE DEF g
<1>5. CallsInv'
  BY <1>1, <1>2, <1>3, <1>4, CallGoesOn DEF CallTypes
<1>6. SparseThread(t)'
  <2>1. Sparse!PageOf(Slot(t))' = Sparse!PageOf(Slot(t))
    BY <1>4 DEF Sparse!PageOf
  <2>2. QED
    BY <1>1, <1>2, <1>3, <1>4, <2>1 DEF SparseThread
<1>7. \A u \in Threads : SparseThread(u)'
  BY <1>2, <1>4, <1>6, SparseOthers
<1>8. Counted' = Counted
  BY <1>2, <1>4 DEF Others, Counted, Leaving, Op, Slot
<1>9. /\ Holding' = Holding \cup {t} /\ t \notin Holding
      /\ \A u \in Holding : frame'[u] = frame[u]
      /\ Publishing' = Publishing /\ t \notin Publishing
      /\ \A u \in Publishing : frame'[u] = frame[u]
  BY <1>2, <1>4 DEF Others, Holding, Publishing, Op
<1>10. IndicesShared'
  <2>1. /\ \A r \in Counted : entries[r] # i
        /\ \A u \in Holding : frame[u].index # i
    BY <1>2 DEF SparseInv, IndicesShared
  <2>2. taken' = {entries[r] : r \in Counted} \cup {frame'[u].index : u \in Holding \cup {t}}
    BY <1>2, <1>3, <1>4, <1>9 DEF SparseInv, IndicesShared
  <2>3. QED
    BY <1>2, <1>3, <1>4, <1>8, <1>9, <2>1, <2>2 DEF SparseInv, IndicesShared
<1>11. ~Destroyed /\ ~Destroyed'
  BY <1>1, <1>2, <1>4 DEF CallsInv, Destroyed, Others
<1>12. SparseTypes'
  BY <1>1, <1>2, StorageForAssumptions DEF SparseTypes
<1>13. SparseObjects'
  BY <1>2, <1>8, <1>9, <1>11 DEF SparseInv, SparseObjects
<1>14. QED
  BY <1>2, <1>5, <1>7, <1>10, <1>12, <1>13 DEF SparseInv

LEMMA SparseConstructs ==
  ASSUME SparseInv, NEW t \in Threads, Sparse!construct(t)
  PROVE  SparseInv'
<1>1. CallsInv /\ CallTypes /\ SparseThread(t) /\ frame[t] \in FrameType /\ SparseTypes
  BY DEF SparseInv, CallsInv, CallTypes, FrameType
<1> DEFINE i == frame[t].index
           v == frame[t].value
<1>2. /\ Op(t) = "add" /\ pc[t] = "construct"
      /\ objects' = [objects EXCEPT ![i] = v] /\ pc' = [pc EXCEPT ![t] = "store"]
      /\ UNCHANGED <<pages, entries, taken, size, presence, frame>>
  BY DEF Sparse!construct, Sparse!Doing, Sparse!Goto, Sparse!Index, Op, Sparse!poolState
<1>3. Others(t) /\ frame'[t] = frame[t] /\ pc'[t] = "store" /\ Op(t)' = "add" /\ Slot(t)' = Slot(t)
  BY <1>1, <1>2 DEF Others, CallTypes, Op, Slot
<1>4. v \in Values /\ v # Raw
  BY <1>1, <1>2, StorageAssumptions DEF CallTypes
<1>5. CallsInv'
  BY <1>1, <1>2, <1>3, <1>4, CallGoesOn DEF CallTypes
<1>6. t \in Holding /\ t \notin Publishing /\ i \in 0 .. MaxIndices - 1
  BY <1>1, <1>2, IndicesTaken DEF Holding, Publishing, SparseInv
<1>7. objects'[i] = v /\ \A j \in 0 .. MaxIndices - 1 : j # i => objects'[j] = objects[j]
  BY <1>1, <1>2, <1>6 DEF SparseTypes
<1>8. SparseThread(t)'
  <2>1. Sparse!PageOf(Slot(t))' = Sparse!PageOf(Slot(t))
    BY <1>3 DEF Sparse!PageOf
  <2>2. QED
    BY <1>1, <1>2, <1>3, <1>7, <2>1 DEF SparseThread
<1>9. \A u \in Publishing : frame[u].index \in 0 .. MaxIndices - 1 /\ frame[u].index # i
  BY <1>1, <1>6, IndicesTaken DEF SparseInv, IndicesShared
<1>10. \A u \in Threads : SparseThread(u)'
  BY <1>2, <1>3, <1>7, <1>8, <1>9, SparseOthers
<1>11. Counted' = Counted
  BY <1>2 DEF Counted, Leaving, Slot
<1>12. /\ Holding' = Holding
       /\ Publishing' = Publishing \cup {t}
  BY <1>2, <1>3 DEF Others, Holding, Publishing, Op
<1>13. IndicesShared'
  BY <1>2, <1>11, <1>12 DEF SparseInv, IndicesShared
<1>14. ~Destroyed /\ ~Destroyed'
  BY <1>1, <1>2, <1>3 DEF CallsInv, Destroyed, Others
<1>15. SparseTypes'
  BY <1>1, <1>2, <1>4, <1>6 DEF SparseTypes
<1>16. SparseObjects'
  <2>1. \A s \in Counted : entries[s] # i
    BY <1>6 DEF SparseInv, IndicesShared
  <2>2. QED
    BY <1>2, <1>4, <1>7, <1>11, <1>12, <1>14, <2>1 DEF SparseInv, SparseObjects
<1>17. QED
  BY <1>2, <1>5, <1>10, <1>13, <1>15, <1>16 DEF SparseInv

(* The index goes back to the pool, whose object is none. *)
LEMMA IndexGiven ==
  ASSUME SparseInv, NEW t \in Holding, t \notin Publishing,
         Sparse!Pool!Give(frame[t].index), Counted' = Counted,
         Holding' = Holding \ {t}, Publishing' = Publishing,
         \A u \in Threads \ {t} : frame'[u] = frame[u],
         UNCHANGED <<entries, objects>>, ~Destroyed, ~Destroyed'
  PROVE  SparseTypes' /\ IndicesShared' /\ SparseObjects'
<1> DEFINE i == frame[t].index
<1>1. taken' = taken \ {i} /\ size' = size
  BY DEF Sparse!Pool!Give
<1>2. /\ \A s \in Counted : entries[s] # i
      /\ \A u \in Holding \ {t} : frame[u].index # i
  BY DEF SparseInv, IndicesShared
<1>3. taken' = {entries[s] : s \in Counted} \cup {frame[u].index : u \in Holding \ {t}}
  BY <1>1, <1>2 DEF SparseInv, IndicesShared
<1>4. \A u \in Holding \ {t} : frame'[u].index = frame[u].index
  BY DEF Holding
<1>5. IndicesShared'
  BY <1>3, <1>4 DEF SparseInv, IndicesShared
<1>6. SparseTypes'
  BY <1>1 DEF SparseInv, SparseTypes
<1>7. Publishing \subseteq Threads \ {t}
  BY DEF Publishing
<1>8. SparseObjects'
  BY <1>7 DEF SparseInv, SparseObjects
<1>9. QED
  BY <1>5, <1>6, <1>8

LEMMA SparseThrows ==
  ASSUME SparseInv, NEW t \in Threads, Sparse!constructorThrows(t)
  PROVE  SparseInv'
<1>1. CallsInv /\ CallTypes /\ SparseThread(t)
  BY DEF SparseInv, CallsInv
<1>2. /\ Op(t) = "add" /\ pc[t] = "construct" /\ Sparse!Pool!Give(frame[t].index)
      /\ UNCHANGED <<pages, entries, presence, objects>>
      /\ frame' = [frame EXCEPT ![t] = NoFrame(Tag)] /\ pc' = [pc EXCEPT ![t] = "idle"]
  BY DEF Sparse!constructorThrows, Sparse!Doing, Sparse!Leave, Sparse!Goto, Sparse!Index,
         Sparse!NoFrame, Sparse!Frame, Sparse!Tag, NoFrame, Frame, Tag, Op
<1>3. Others(t) /\ frame'[t] = NoFrame(Tag) /\ pc'[t] = "idle" /\ Op(t)' = "none"
  BY <1>1, <1>2, NoFrameIs DEF Others, CallTypes, Op
<1>4. CallsInv'
  BY <1>1, <1>2, <1>3, CallEnds DEF CallTypes
<1>5. SparseThread(t)'
  BY <1>3 DEF SparseThread
<1>6. \A u \in Threads : SparseThread(u)'
  BY <1>2, <1>3, <1>5, SparseOthers
<1>7. Counted' = Counted
  BY <1>2, <1>3 DEF Others, Counted, Leaving, Op, Slot
<1>8. /\ t \in Holding /\ t \notin Publishing
      /\ Holding' = Holding \ {t} /\ Publishing' = Publishing
  BY <1>2, <1>3 DEF Others, Holding, Publishing, Op
<1>9. ~Destroyed /\ ~Destroyed'
  BY <1>1, <1>2, <1>3 DEF CallsInv, Destroyed, Others
<1>10. SparseTypes' /\ IndicesShared' /\ SparseObjects'
  BY <1>2, <1>3, <1>7, <1>8, <1>9, IndexGiven DEF Others
<1>11. QED
  BY <1>2, <1>4, <1>6, <1>10 DEF SparseInv

LEMMA SparseStores ==
  ASSUME SparseInv, NEW t \in Threads, Sparse!storeEntry(t)
  PROVE  SparseInv'
<1>1. CallsInv /\ CallTypes /\ SparseThread(t) /\ frame[t] \in FrameType /\ SparseTypes
  BY DEF SparseInv, CallsInv, CallTypes, FrameType
<1> DEFINE s == Slot(t)
<1>2. /\ Op(t) = "add" /\ pc[t] = "store"
      /\ entries' = [entries EXCEPT ![s] = frame[t].index] /\ pc' = [pc EXCEPT ![t] = "set"]
      /\ UNCHANGED <<pages, taken, size, presence, objects, frame>>
  BY DEF Sparse!storeEntry, Sparse!Doing, Sparse!Goto, Sparse!Index, Sparse!Slot, Slot, Op,
         Sparse!poolState
<1>3. Others(t) /\ frame'[t] = frame[t] /\ pc'[t] = "set" /\ Op(t)' = "add" /\ Slot(t)' = s
  BY <1>1, <1>2 DEF Others, CallTypes, Op, Slot
<1>4. s \in Slots /\ s \notin presence
  BY <1>1, <1>2 DEF CallTypes, SparseThread
<1>5. CallsInv'
  BY <1>1, <1>2, <1>3, CallGoesOn DEF CallTypes
<1>6. entries'[s] = frame[t].index /\ \A r \in Slots : r # s => entries'[r] = entries[r]
  BY <1>1, <1>2, <1>4 DEF SparseTypes
<1>7. SparseThread(t)'
  <2>1. Sparse!PageOf(Slot(t))' = Sparse!PageOf(Slot(t))
    BY <1>3 DEF Sparse!PageOf
  <2>2. QED
    BY <1>1, <1>2, <1>3, <1>6, <2>1 DEF SparseThread
<1>8. \A u \in Threads \ {t} : Op(u) \in {"add", "remove"} => Slot(u) \in Slots /\ Slot(u) # s
  BY <1>1, <1>2 DEF CallsInv, CallTypes, CallsApart
<1>9. \A u \in Threads : SparseThread(u)'
  BY <1>2, <1>3, <1>6, <1>7, <1>8, SparseOthers
<1>10. Counted' = Counted /\ \A r \in Counted : entries'[r] = entries[r]
  BY <1>1, <1>2, <1>4, <1>6 DEF Counted, Leaving, Slot, CallTypes
<1>11. Holding' = Holding /\ Publishing' = Publishing
  BY <1>2, <1>3 DEF Others, Holding, Publishing, Op
<1>12. IndicesShared'
  BY <1>2, <1>10, <1>11 DEF SparseInv, IndicesShared
<1>13. ~Destroyed /\ ~Destroyed'
  BY <1>1, <1>2, <1>3 DEF CallsInv, Destroyed, Others
<1>14. SparseTypes'
  BY <1>1, <1>2, <1>4 DEF SparseTypes, FrameType
<1>15. SparseObjects'
  BY <1>2, <1>10, <1>11, <1>13 DEF SparseInv, SparseObjects
<1>16. QED
  BY <1>2, <1>5, <1>9, <1>12, <1>14, <1>15 DEF SparseInv

(* The index becomes the slot's. *)
LEMMA SparsePublishes ==
  ASSUME SparseInv, NEW t \in Threads, Sparse!setPresence(t)
  PROVE  SparseInv'
<1>1. CallsInv /\ CallTypes /\ SparseThread(t) /\ frame[t] \in FrameType /\ SparseTypes
  BY DEF SparseInv, CallsInv, CallTypes, FrameType
<1> DEFINE g == [frame[t] EXCEPT !.done = TRUE]
           s == Slot(t)
           i == frame[t].index
<1>2. /\ g \in FrameType /\ g.op = Op(t) /\ g.slot = s /\ g.value = frame[t].value
      /\ g.done = TRUE /\ g.index = i
  BY <1>1, FrameSet DEF Op, Slot
<1>3. /\ Op(t) = "add" /\ pc[t] = "set" /\ presence' = presence \cup {s}
      /\ frame' = [frame EXCEPT ![t] = g] /\ pc' = [pc EXCEPT ![t] = "return"]
      /\ UNCHANGED <<pages, entries, taken, size, objects>>
  BY <1>1 DEF Sparse!setPresence, Sparse!Doing, Sparse!Effect, Sparse!Goto, Sparse!Slot, Slot,
              Op, Sparse!poolState, CallTypes
<1> HIDE DEF g
<1>4. /\ Others(t) /\ frame'[t] = g /\ pc'[t] = "return" /\ Op(t)' = "add" /\ Slot(t)' = s
  BY <1>1, <1>2, <1>3 DEF Others, CallTypes, Op, Slot
<1>5. /\ s \in Slots /\ s \notin presence /\ Sparse!PageOf(s) \in pages /\ entries[s] = i
  BY <1>1, <1>3 DEF CallTypes, SparseThread
<1>6. CallsInv'
  BY <1>1, <1>2, <1>3, <1>4, <1>5, CallGoesOn DEF CallTypes
<1>7. \A u \in Threads \ {t} :
        /\ Op(u) \in {"add", "remove"} => Slot(u) # s
        /\ Op(u)' = Op(u) /\ Slot(u)' = Slot(u)
  BY <1>1, <1>3, <1>4 DEF CallsInv, CallTypes, CallsApart, Others, Op, Slot
<1>8. SparseThread(t)'
  BY <1>2, <1>4 DEF SparseThread
<1>9. \A u \in Threads : SparseThread(u)'
  BY <1>3, <1>4, <1>7, <1>8, SparseOthers
<1>10. Counted' = Counted \cup {s} /\ s \notin Counted
  BY <1>3, <1>4, <1>5, <1>7 DEF Others, Counted, Leaving, Op
<1>11. /\ Holding' = Holding \ {t} /\ t \in Holding
       /\ \A u \in Holding \ {t} : frame'[u] = frame[u]
       /\ Publishing' = Publishing \ {t} /\ t \in Publishing /\ Publishing \subseteq Holding
  BY <1>3, <1>4 DEF Others, Holding, Publishing, Op
<1>12. IndicesShared'
  <2>1. /\ \A r \in Counted : entries[r] # i
        /\ \A u \in Holding \ {t} : frame[u].index # i
    BY <1>11 DEF SparseInv, IndicesShared
  <2>2. taken' = {entries'[r] : r \in Counted \cup {s}} \cup {frame'[u].index : u \in Holding \ {t}}
    BY <1>3, <1>5, <1>11 DEF SparseInv, IndicesShared
  <2>3. QED
    BY <1>3, <1>5, <1>10, <1>11, <2>1, <2>2 DEF SparseInv, IndicesShared
<1>13. ~Destroyed /\ ~Destroyed'
  BY <1>1, <1>3, <1>4 DEF CallsInv, Destroyed, Others
<1>14. SparseTypes'
  BY <1>1, <1>3 DEF SparseTypes
<1>15. SparseObjects'
  BY <1>3, <1>5, <1>10, <1>11, <1>13 DEF SparseInv, SparseObjects
<1>16. \A r \in presence' : Sparse!PageOf(r) \in pages'
  BY <1>3, <1>5 DEF SparseInv
<1>17. QED
  BY <1>6, <1>9, <1>12, <1>14, <1>15, <1>16 DEF SparseInv

(* The index becomes the thread's, without an object. *)
LEMMA SparseDestroys ==
  ASSUME SparseInv, NEW t \in Threads, Sparse!destroyObject(t)
  PROVE  SparseInv'
<1>1. CallsInv /\ CallTypes /\ SparseThread(t) /\ frame[t] \in FrameType /\ SparseTypes
  BY DEF SparseInv, CallsInv, CallTypes, FrameType
<1> DEFINE g == [frame[t] EXCEPT !.done = TRUE]
           s == Slot(t)
           i == frame[t].index
<1>2. /\ g \in FrameType /\ g.op = Op(t) /\ g.slot = s /\ g.value = frame[t].value
      /\ g.done = TRUE /\ g.index = i
  BY <1>1, FrameSet DEF Op, Slot
<1>3. /\ Op(t) = "remove" /\ pc[t] = "destroy" /\ objects' = [objects EXCEPT ![i] = Raw]
      /\ frame' = [frame EXCEPT ![t] = g] /\ pc' = [pc EXCEPT ![t] = "give"]
      /\ UNCHANGED <<pages, entries, taken, size, presence>>
  BY <1>1 DEF Sparse!destroyObject, Sparse!Doing, Sparse!Effect, Sparse!Goto, Sparse!Index,
              Op, Sparse!poolState, CallTypes
<1> HIDE DEF g
<1>4. /\ Others(t) /\ frame'[t] = g /\ pc'[t] = "give" /\ Op(t)' = "remove" /\ Slot(t)' = s
  BY <1>1, <1>2, <1>3 DEF Others, CallTypes, Op, Slot
<1>5. /\ s \in presence /\ entries[s] = i
  BY <1>1, <1>3 DEF SparseThread
<1>6. CallsInv'
  BY <1>1, <1>2, <1>3, <1>4, CallGoesOn DEF CallTypes
<1>7. \A u \in Threads \ {t} :
        /\ Op(u) \in {"add", "remove", "get"} => Slot(u) # s
        /\ Op(u)' = Op(u) /\ Slot(u)' = Slot(u)
  BY <1>1, <1>3, <1>4 DEF CallsInv, CallTypes, CallsApart, Others, Op, Slot
<1>8. s \in Counted /\ Counted' = Counted \ {s}
  BY <1>1, <1>2, <1>3, <1>4, <1>5, <1>7 DEF Others, Counted, Leaving, Op, SparseThread
<1>9. i \in 0 .. MaxIndices - 1
  BY <1>1, <1>5, <1>8, IndicesTaken DEF SparseInv
<1>10. objects'[i] = Raw /\ \A j \in 0 .. MaxIndices - 1 : j # i => objects'[j] = objects[j]
  BY <1>1, <1>3, <1>9 DEF SparseTypes
<1>11. /\ Holding' = Holding \cup {t} /\ t \notin Holding
       /\ \A u \in Holding : frame'[u] = frame[u]
       /\ Publishing' = Publishing /\ t \notin Publishing /\ Publishing \subseteq Holding
  BY <1>3, <1>4 DEF Others, Holding, Publishing, Op
<1>12. \A u \in Publishing : frame[u].index \in 0 .. MaxIndices - 1 /\ frame[u].index # i
  BY <1>1, <1>5, <1>8, <1>11, IndicesTaken DEF SparseInv, IndicesShared
<1>13. SparseThread(t)'
  BY <1>2, <1>3, <1>4, <1>5 DEF SparseThread
<1>14. \A u \in Threads : SparseThread(u)'
  BY <1>3, <1>4, <1>10, <1>12, <1>13, SparseOthers
<1>15. IndicesShared'
  <2>1. /\ \A r \in Counted \ {s} : entries[r] # i
        /\ \A u \in Holding : frame[u].index # i
    BY <1>5, <1>8 DEF SparseInv, IndicesShared
  <2>2. taken' = {entries'[r] : r \in Counted \ {s}} \cup {frame'[u].index : u \in Holding \cup {t}}
    BY <1>2, <1>3, <1>4, <1>5, <1>8, <1>11 DEF SparseInv, IndicesShared
  <2>3. QED
    BY <1>2, <1>3, <1>4, <1>8, <1>11, <2>1, <2>2 DEF SparseInv, IndicesShared
<1>16. ~Destroyed /\ ~Destroyed'
  BY <1>1, <1>3, <1>4 DEF CallsInv, Destroyed, Others
<1>17. SparseTypes'
  BY <1>1, <1>3, <1>9 DEF SparseTypes
<1>18. SparseObjects'
  <2>1. \A r \in Counted \ {s} : entries[r] # i
    BY <1>5, <1>8 DEF SparseInv, IndicesShared
  <2>2. QED
    BY <1>3, <1>5, <1>8, <1>10, <1>11, <1>12, <1>16, <2>1 DEF SparseInv, SparseObjects
<1>19. QED
  BY <1>3, <1>6, <1>14, <1>15, <1>17, <1>18 DEF SparseInv

LEMMA SparseGives ==
  ASSUME SparseInv, NEW t \in Threads, Sparse!giveIndex(t)
  PROVE  SparseInv'
<1>1. CallsInv /\ CallTypes /\ SparseThread(t) /\ frame[t] \in FrameType /\ SparseTypes
  BY DEF SparseInv, CallsInv, CallTypes, FrameType
<1>2. /\ Op(t) = "remove" /\ pc[t] = "give" /\ Sparse!Pool!Give(frame[t].index)
      /\ UNCHANGED <<pages, entries, presence, objects, frame>>
      /\ pc' = [pc EXCEPT ![t] = "erase"]
  BY DEF Sparse!giveIndex, Sparse!Doing, Sparse!Goto, Sparse!Index, Op
<1>3. Others(t) /\ frame'[t] = frame[t] /\ pc'[t] = "erase" /\ Op(t)' = "remove" /\ Slot(t)' = Slot(t)
  BY <1>1, <1>2 DEF Others, CallTypes, Op, Slot
<1>4. CallsInv'
  BY <1>1, <1>2, <1>3, CallGoesOn DEF CallTypes
<1>5. SparseThread(t)'
  BY <1>1, <1>2, <1>3 DEF SparseThread
<1>6. \A u \in Threads : SparseThread(u)'
  BY <1>2, <1>3, <1>5, SparseOthers
<1>7. Counted' = Counted
  BY <1>2 DEF Counted, Leaving, Slot
<1>8. /\ t \in Holding /\ t \notin Publishing
      /\ Holding' = Holding \ {t} /\ Publishing' = Publishing
  BY <1>2, <1>3 DEF Others, Holding, Publishing, Op
<1>9. ~Destroyed /\ ~Destroyed'
  BY <1>1, <1>2, <1>3 DEF CallsInv, Destroyed, Others
<1>10. SparseTypes' /\ IndicesShared' /\ SparseObjects'
  BY <1>2, <1>3, <1>7, <1>8, <1>9, IndexGiven DEF Others
<1>11. QED
  BY <1>2, <1>4, <1>6, <1>10 DEF SparseInv

(* The entry or the bit of a slot whose object is gone. *)
LEMMA SparseErases ==
  ASSUME SparseInv, NEW t \in Threads, Sparse!eraseEntry(t) \/ Sparse!clearPresence(t)
  PROVE  SparseInv'
<1>1. CallsInv /\ CallTypes /\ SparseThread(t) /\ frame[t] \in FrameType /\ SparseTypes
  BY DEF SparseInv, CallsInv, CallTypes, FrameType
<1> DEFINE s == Slot(t)
<1>2. /\ Op(t) = "remove" /\ UNCHANGED <<pages, taken, size, objects, frame>>
      /\ \/ /\ pc[t] = "erase" /\ pc' = [pc EXCEPT ![t] = "clear"] /\ UNCHANGED presence
            /\ entries' = [entries EXCEPT ![s] = MaxIndices]
         \/ /\ pc[t] = "clear" /\ pc' = [pc EXCEPT ![t] = "return"] /\ UNCHANGED entries
            /\ presence' = presence \ {s}
  BY DEF Sparse!eraseEntry, Sparse!clearPresence, Sparse!Doing, Sparse!Goto, Sparse!NoIndex,
         Sparse!Slot, Slot, Op, Sparse!poolState
<1>3. /\ Others(t) /\ frame'[t] = frame[t] /\ pc'[t] \in {"clear", "return"}
      /\ Op(t)' = "remove" /\ Slot(t)' = s
  BY <1>1, <1>2 DEF Others, CallTypes, Op, Slot
<1>4. CallsInv'
  BY <1>1, <1>2, <1>3, CallGoesOn DEF CallTypes
<1>5. s \in Slots /\ s \in presence /\ frame[t].done
  BY <1>1, <1>2 DEF CallTypes, SparseThread
<1>6. \A u \in Threads \ {t} : Op(u) \in {"add", "remove", "get"} => Slot(u) # s /\ Slot(u) \in Slots
  BY <1>1, <1>2 DEF CallsInv, CallTypes, CallsApart
<1>7. /\ entries' \in [Slots -> Nat]
      /\ \A r \in Slots : r # s => entries'[r] = entries[r] /\ (r \in presence' <=> r \in presence)
  BY <1>1, <1>2, StorageForAssumptions DEF SparseTypes
<1>8. SparseThread(t)'
  <2>1. s \in presence' <=> pc'[t] # "return"
    BY <1>1, <1>2, <1>5 DEF CallTypes
  <2>2. QED
    BY <1>3, <1>5, <2>1 DEF SparseThread
<1>9. \A u \in Threads : SparseThread(u)'
  BY <1>2, <1>3, <1>6, <1>7, <1>8, SparseOthers
<1>10. s \in Leaving /\ Leaving' = Leaving
  BY <1>2, <1>5 DEF Leaving, Op, Slot
<1>11. Counted' = Counted /\ \A r \in Counted : entries'[r] = entries[r]
  BY <1>1, <1>2, <1>7, <1>10 DEF Counted, CallTypes
<1>12. Holding' = Holding /\ Publishing' = Publishing
  BY <1>2, <1>3 DEF Others, Holding, Publishing, Op
<1>13. IndicesShared'
  BY <1>2, <1>11, <1>12 DEF SparseInv, IndicesShared
<1>14. ~Destroyed /\ ~Destroyed'
  BY <1>1, <1>2, <1>3 DEF CallsInv, Destroyed, Others
<1>15. SparseTypes'
  BY <1>1, <1>2, <1>7 DEF SparseTypes
<1>16. SparseObjects'
  BY <1>2, <1>11, <1>12, <1>14 DEF SparseInv, SparseObjects
<1>17. QED
  BY <1>2, <1>4, <1>9, <1>13, <1>15, <1>16 DEF SparseInv

LEMMA SparseDestroyed ==
  ASSUME SparseInv, Sparse!destroyStorage
  PROVE  SparseInv'
<1>1. /\ AllIdle /\ pc' = [t \in Threads |-> "destroyed"]
      /\ objects' = [i \in 0 .. MaxIndices - 1 |->
                       IF \E s \in presence : entries[s] = i THEN Raw ELSE objects[i]]
      /\ UNCHANGED <<pages, entries, taken, size, presence, frame>>
  BY DEF Sparse!destroyStorage, Sparse!AllIdle, AllIdle, Sparse!Indices, Sparse!poolState
<1>2. CallsInv' /\ Destroyed' /\ \A t \in Threads : Op(t) = "none" /\ Op(t)' = "none"
  BY <1>1, CallsDestroyed DEF SparseInv
<1>3. \A t \in Threads : SparseThread(t)'
  BY <1>2 DEF SparseThread
<1>4. /\ Counted' = Counted /\ Counted = presence
      /\ Holding = {} /\ Holding' = {} /\ Publishing = {} /\ Publishing' = {}
  BY <1>1, <1>2 DEF Counted, Leaving, Op, Holding, Publishing, Slot
<1>5. SparseTypes' /\ IndicesShared'
  BY <1>1, <1>4 DEF SparseInv, SparseTypes, IndicesShared
<1>6. SparseObjects'
  BY <1>1, <1>2, <1>4 DEF SparseInv, SparseObjects
<1>7. QED
  BY <1>1, <1>2, <1>3, <1>5, <1>6 DEF SparseInv

LEMMA SparseInitially == Sparse!SparseInit => SparseInv
<1> SUFFICES ASSUME Sparse!SparseInit PROVE SparseInv
  OBVIOUS
<1>1. /\ presence = {} /\ pc = [t \in Threads |-> "idle"]
      /\ frame = [t \in Threads |-> NoFrame(Tag)]
      /\ entries = [s \in Slots |-> MaxIndices]
      /\ objects = [i \in 0 .. MaxIndices - 1 |-> Raw] /\ taken = {} /\ size = 0
  BY DEF Sparse!SparseInit, Sparse!CallsInit, Sparse!Pool!Init, Sparse!NoFrame, Sparse!Frame,
         Sparse!Tag, NoFrame, Frame, Tag, Sparse!NoIndex, Sparse!Indices
<1>2. \A t \in Threads : pc[t] = "idle" /\ frame[t] = NoFrame(Tag) /\ Op(t) = "none"
  BY <1>1, NoFrameIs DEF Op
<1>3. CallsInv
  BY <1>1, <1>2, NoFrameIs DEF CallsInv, CallTypes, CallsApart, Destroyed, FrameType
<1>4. Counted = {} /\ Holding = {} /\ Publishing = {}
  BY <1>1, <1>2 DEF Counted, Holding, Publishing
<1>5. SparseTypes /\ IndicesShared /\ SparseObjects
  BY <1>1, <1>4, StorageForAssumptions DEF SparseTypes, IndicesShared, SparseObjects
<1>6. QED
  BY <1>1, <1>2, <1>3, <1>5 DEF SparseInv, SparseThread

LEMMA SparseStep ==
  ASSUME SparseInv, [Sparse!SparseNext]_storageVars
  PROVE  SparseInv'
<1>1. CASE Sparse!destroyStorage
  BY <1>1, SparseDestroyed
<1>2. ASSUME NEW t \in Threads, NEW s \in Slots,
             \/ \E v \in Values : Sparse!addComponent(t, s, v)
             \/ Sparse!removeComponent(t, s)
             \/ /\ Sparse!getComponent(t, s)
                /\ UNCHANGED <<pages, entries, taken, size, presence, objects>>
      PROVE  SparseInv'
  BY <1>2, SparseAddCalls, SparseRemoveCalls, SparseGetCalls
<1>3. ASSUME NEW t \in Threads,
             \/ Sparse!findPage(t) \/ Sparse!installPage(t) \/ Sparse!overwrite(t)
             \/ Sparse!allocate(t) \/ Sparse!construct(t) \/ Sparse!constructorThrows(t)
             \/ Sparse!storeEntry(t) \/ Sparse!setPresence(t) \/ Sparse!destroyObject(t)
             \/ Sparse!giveIndex(t) \/ Sparse!eraseEntry(t) \/ Sparse!clearPresence(t)
      PROVE  SparseInv'
  BY <1>3, SparsePageSteps, SparseOverwrites, SparseAllocates, SparseConstructs, SparseThrows,
     SparseStores, SparsePublishes, SparseDestroys, SparseGives, SparseErases
<1>4. ASSUME NEW t \in Threads,
             \/ Sparse!lookup(t) /\ UNCHANGED <<pages, entries, taken, size, presence, objects>>
             \/ Sparse!readObject(t)
             \/ Sparse!return(t) /\ UNCHANGED <<pages, entries, taken, size>>
      PROVE  SparseInv'
  <2>1. Sparse!readObject(t) => UNCHANGED <<pages, entries, taken, size, presence>>
    BY DEF Sparse!readObject, Sparse!poolState
  <2>2. QED
    BY <1>4, <2>1, SparseLookups, SparseReturns
<1>5. CASE UNCHANGED storageVars
  BY <1>5 DEF storageVars, sparseOnly, SparseInv, CallsInv, CallTypes, CallsApart, Destroyed,
     SparseTypes, SparseThread, IndicesShared, SparseObjects, Counted, Leaving, Holding,
     Publishing, Op, Slot
<1>6. QED
  BY <1>1, <1>2, <1>3, <1>4, <1>5 DEF Sparse!SparseNext, Sparse!poolState

-----------------------------------------------------------------------------

(* ComponentColumn: the counts. *)

CountLabels == {"countBlock", "count", "uncountBlock", "uncount"}

At(labels, b) == {t \in Threads : pc[t] \in labels /\ Column!Block(t) \in b}
PresentIn(b) == {s \in presence : Column!BlockOf(s) = b}

(* Threads that have still to count the bit they set, or the one they cleared. *)
Late == Cardinality(At({"countBlock", "count"}, Column!Blocks))
Early == Cardinality(At({"uncountBlock", "uncount"}, Column!Blocks))
LateIn(b) == Cardinality(At({"countBlock"}, {b}))
EarlyIn(b) == Cardinality(At({"uncountBlock"}, {b}))

(* ColumnCountsSettle but for the counts' not being negative. *)
CountsFollow ==
  /\ Cardinality(presence) = liveCount + Late - Early
  /\ \A b \in Column!Blocks :
       Cardinality(PresentIn(b)) = blockLive[b] + LateIn(b) - EarlyIn(b)

(* One Cardinality, whatever module it comes by. *)
LEMMA CardinalityIs ==
  \A S : Sparse!Cardinality(S) = Cardinality(S) /\ Column!Cardinality(S) = Cardinality(S)
BY DEF Sparse!Cardinality, Column!Cardinality, Cardinality

LEMMA SettleIs ==
  Column!ColumnCountsSettle <=>
    CountsFollow /\ liveCount >= 0 /\ \A b \in Column!Blocks : blockLive[b] >= 0
<1>1. \A labels, b : Column!Between(labels, b) = Cardinality(At(labels, b))
  BY CardinalityIs DEF At, Column!Between
<1>2. \A b : {s \in presence : Column!BlockOf(s) = b} = PresentIn(b)
  BY DEF PresentIn
<1>3. /\ Cardinality(presence) = Column!Cardinality(presence)
      /\ \A b : Column!Cardinality({s \in presence : Column!BlockOf(s) = b})
               = Cardinality(PresentIn(b))
  BY <1>2, CardinalityIs
<1>4. QED
  BY <1>1, <1>3 DEF Column!ColumnCountsSettle, CountsFollow, Late, Early, LateIn, EarlyIn

LEMMA AtFinite ==
  ASSUME NEW labels, NEW b
  PROVE  IsFiniteSet(At(labels, b)) /\ Cardinality(At(labels, b)) \in Nat
<1>1. At(labels, b) \in SUBSET Threads /\ IsFiniteSet(Threads)
  BY StorageAssumptions DEF At
<1>2. IsFiniteSet(At(labels, b))
  BY <1>1, FS_Subset
<1>3. QED
  BY <1>2, FS_CardinalityType

(* What is counted is there, a slot for every thread that has yet to count. *)
LEMMA CountsFit ==
  (/\ CallsInv /\ ColumnTypes /\ \A t \in Threads : ColumnThread(t)
   /\ CountsFollow)
  => Column!ColumnCountsSettle
<1> SUFFICES ASSUME CallsInv, ColumnTypes, \A t \in Threads : ColumnThread(t), CountsFollow
             PROVE  Column!ColumnCountsSettle
  OBVIOUS
<1>1. CallTypes /\ CallsApart
  BY DEF CallsInv
<1>2. ASSUME NEW labels \in SUBSET {"countBlock", "count"}, NEW b, NEW P \in SUBSET presence,
             \A t \in At(labels, b) : Slot(t) \in P
      PROVE  Cardinality(At(labels, b)) <= Cardinality(P) /\ Cardinality(P) \in Nat
  <2> DEFINE f == [t \in At(labels, b) |-> Slot(t)]
  <2>1. \A t \in At(labels, b) : t \in Threads /\ Op(t) = "add"
    BY <1>1 DEF At, ColumnThread, CallTypes, Op
  <2>2. \A t, u \in At(labels, b) : f[t] = f[u] => t = u
    BY <1>1, <2>1 DEF CallsApart
  <2>3. f \in Injection(At(labels, b), P)
    BY <1>2, <2>2 DEF Injection, IsInjective
  <2>4. IsFiniteSet(P)
    BY FS_Subset DEF ColumnTypes
  <2>5. QED
    BY <2>3, <2>4, FS_Injection, FS_CardinalityType
<1>3. liveCount >= 0
  <2>1. Late <= Cardinality(presence)
    <3>1. \A t \in At({"countBlock", "count"}, Column!Blocks) : Slot(t) \in presence
      BY <1>1 DEF At, ColumnThread, CallTypes, Op
    <3>2. QED
      BY <1>2, <3>1 DEF Late
  <2>2. Cardinality(presence) \in Nat /\ Late \in Nat /\ Early \in Nat /\ liveCount \in Int
    BY AtFinite, FS_CardinalityType DEF ColumnTypes, Late, Early
  <2>3. QED
    BY <2>1, <2>2 DEF CountsFollow
<1>4. ASSUME NEW b \in Column!Blocks PROVE blockLive[b] >= 0
  <2>1. \A t \in At({"countBlock"}, {b}) : Slot(t) \in PresentIn(b)
    BY <1>1 DEF At, ColumnThread, CallTypes, PresentIn, Column!Block, Op, Column!Slot, Slot
  <2>2. LateIn(b) <= Cardinality(PresentIn(b)) /\ Cardinality(PresentIn(b)) \in Nat
    BY <1>2, <2>1 DEF PresentIn, LateIn
  <2>3. LateIn(b) \in Nat /\ EarlyIn(b) \in Nat /\ blockLive[b] \in Int
    BY AtFinite DEF LateIn, EarlyIn, ColumnTypes
  <2>4. QED
    BY <2>2, <2>3 DEF CountsFollow
<1>5. QED
  BY <1>3, <1>4, SettleIs

LEMMA CountsFitNext ==
  (/\ CallsInv /\ ColumnTypes /\ \A t \in Threads : ColumnThread(t)
   /\ CountsFollow)'
  => Column!ColumnCountsSettle'
BY CountsFit, PTL

(* How many threads have yet to count changes with the one that steps. *)
LEMMA AtSteps ==
  ASSUME NEW t \in Threads, Others(t), NEW labels, NEW b
  PROVE  /\ Cardinality(At(labels, b)) \in Nat
         /\ Cardinality(At(labels, b)') =
              Cardinality(At(labels, b))
                + (IF pc'[t] \in labels /\ Column!Block(t)' \in b THEN 1 ELSE 0)
                - (IF pc[t] \in labels /\ Column!Block(t) \in b THEN 1 ELSE 0)
<1>1. \A u \in Threads \ {t} : Column!Block(u)' = Column!Block(u) /\ pc'[u] = pc[u]
  BY DEF Others, Column!Block, Column!Slot
<1>2. At(labels, b)' =
        IF pc'[t] \in labels /\ Column!Block(t)' \in b
        THEN (At(labels, b) \ {t}) \cup {t} ELSE At(labels, b) \ {t}
  BY <1>1 DEF At
<1> DEFINE A == At(labels, b)
<1>3. IsFiniteSet(A) /\ Cardinality(A) \in Nat
  BY AtFinite
<1>4. IsFiniteSet(A \ {t}) /\ Cardinality(A \ {t}) = IF t \in A THEN Cardinality(A) - 1 ELSE Cardinality(A)
  BY <1>3, FS_RemoveElement
<1>5. Cardinality((A \ {t}) \cup {t}) = Cardinality(A \ {t}) + 1
  BY <1>4, FS_AddElement
<1>6. t \in A <=> pc[t] \in labels /\ Column!Block(t) \in b
  BY DEF At
<1> HIDE DEF A
<1>7. QED
  BY <1>2, <1>3, <1>4, <1>5, <1>6 DEF A

(* Two bits a step may change, two counts: what follows what. *)
LEMMA CountsStay ==
  ASSUME CountsFollow, NEW t \in Threads, Others(t), UNCHANGED <<presence, blockLive, liveCount>>,
         pc[t] \notin CountLabels, pc'[t] \notin CountLabels
  PROVE  CountsFollow'
<1>1. \A labels \in SUBSET CountLabels : \A b : At(labels, b)' = At(labels, b)
  BY DEF At, Others, Column!Block, Column!Slot
<1>2. /\ Late' = Late /\ Early' = Early
      /\ \A b : LateIn(b)' = LateIn(b) /\ EarlyIn(b)' = EarlyIn(b)
  BY <1>1 DEF CountLabels, Late, Early, LateIn, EarlyIn
<1>3. \A b : PresentIn(b)' = PresentIn(b)
  BY DEF PresentIn
<1>4. QED
  BY <1>2, <1>3 DEF CountsFollow

(* What the other threads know stays true where their slots are left alone. *)
LEMMA ColumnOthers ==
  ASSUME ColumnInv, NEW t \in Threads, Others(t), UNCHANGED storesData,
         tables \subseteq tables', blocks \subseteq blocks',
         \A u \in Threads \ {t} : Op(u) \in {"add", "remove"} =>
           /\ Slot(u) \in presence' <=> Slot(u) \in presence
           /\ objects'[Slot(u)] = objects[Slot(u)],
         \A u \in Threads \ {t} :
           Op(u) = "get" /\ Slot(u) \in presence => Slot(u) \in presence',
         NEW u \in Threads \ {t}
  PROVE  ColumnThread(u)'
<1>1. /\ ColumnThread(u) /\ pc'[u] = pc[u] /\ frame'[u] = frame[u]
      /\ Op(u)' = Op(u) /\ Slot(u)' = Slot(u)
  BY DEF ColumnInv, Others, Op, Slot
<1>2. /\ HasTable(Slot(u)) => HasTable(Slot(u))'
      /\ HasBlock(Slot(u)) => HasBlock(Slot(u))'
  BY <1>1 DEF HasTable, HasBlock
<1>3. QED
  BY <1>1, <1>2 DEF ColumnThread

(* An action that moves no object, bit or count. *)
LEMMA ColumnQuiet ==
  ASSUME ColumnInv, NEW t \in Threads, Others(t), CallsInv', "destroyed" \notin {pc[t], pc'[t]},
         tables \subseteq tables', blocks \subseteq blocks',
         UNCHANGED <<storesData, blockLive, liveCount, presence, objects>>,
         pc[t] \notin CountLabels, pc'[t] \notin CountLabels,
         Op(t) = "add" /\ pc[t] = "set" => ~storesData,
         Op(t)' = "add" /\ pc'[t] = "set" => ~storesData,
         Leaver(t) => Slot(t) \notin presence, Leaver(t)' => Slot(t)' \notin presence,
         ColumnThread(t)'
  PROVE  ColumnInv'
<1>1. \A u \in Threads \ {t} :
        pc'[u] = pc[u] /\ frame'[u] = frame[u] /\ Op(u)' = Op(u) /\ Slot(u)' = Slot(u)
  BY DEF Others, Op, Slot
<1>2. \A u \in Threads : ColumnThread(u)'
  BY ColumnOthers
<1>3. Counted' = Counted
  BY <1>1 DEF Counted, Leaving, Leaver, Op
<1>4. ~Destroyed /\ ~Destroyed'
  BY DEF ColumnInv, CallsInv, Destroyed, CallTypes, Others
<1>5. Filled' = Filled
  BY <1>3, <1>4 DEF Filled, Counted
<1>6. storesData => PublishingSlots' = PublishingSlots
  BY <1>1 DEF PublishingSlots
<1>7. \A s : (HasTable(s) => HasTable(s)') /\ (HasBlock(s) => HasBlock(s)')
  BY DEF HasTable, HasBlock
<1>8. ColumnObjects'
  BY <1>5, <1>6, <1>7 DEF ColumnInv, ColumnObjects
<1>9. ColumnTypes'
  BY DEF ColumnInv, ColumnTypes
<1>10. CountsFollow'
  BY CountsStay, SettleIs DEF ColumnInv
<1>11. QED
  BY <1>2, <1>8, <1>9, <1>10, CountsFitNext DEF ColumnInv

LEMMA ColumnAddCalls ==
  ASSUME ColumnInv, NEW t \in Threads, NEW s \in Slots, NEW v \in Values,
         Column!addComponent(t, s, v)
  PROVE  ColumnInv'
<1> DEFINE f == Frame("add", s, v)
           l == IF storesData THEN "table" ELSE "test"
<1>0. /\ l \in {"table", "test"}
      /\ storesData => l = "table"
      /\ ~storesData => l = "test"
  OBVIOUS
<1>1. /\ f \in FrameType /\ f.op = "add" /\ f.slot = s /\ f.value = v /\ f.done = FALSE
      /\ Column!Frame("add", s, v) = f
  BY DEF Frame, Column!Frame, FrameType
<1> HIDE DEF f
<1>2. /\ MayAdd(s) /\ pc[t] = "idle" /\ (storesData \/ v = Tag)
      /\ frame' = [frame EXCEPT ![t] = f] /\ pc' = [pc EXCEPT ![t] = l]
      /\ UNCHANGED <<storesData, tables, blocks, blockLive, liveCount, presence, objects>>
  BY <1>1 DEF Column!addComponent, Column!MayAdd, Column!CallsOn, Column!Slot, MayAdd,
              CallsOn, Slot, Column!Enter, Column!Goto, Column!memory, Column!counts,
              Column!Tag, Tag
<1>3. Op(t) = "none" /\ CallsInv /\ CallTypes
  BY <1>2 DEF ColumnInv, CallsInv, CallTypes
<1>4. Others(t) /\ frame'[t] = f /\ pc'[t] = l
  BY <1>2, <1>3 DEF Others, CallTypes
<1> HIDE DEF l
<1>5. CallsInv'
  BY <1>0, <1>1, <1>2, <1>3, <1>4, CallStarts
<1>6. Op(t)' = "add" /\ Slot(t)' = s /\ frame'[t].done = FALSE /\ frame'[t].value = v
  BY <1>1, <1>4 DEF Op, Slot
<1>7. ColumnThread(t)' /\ ~Leaver(t) /\ ~Leaver(t)'
  BY <1>0, <1>2, <1>3, <1>4, <1>6 DEF ColumnThread, Leaver
<1>8. QED
  BY <1>0, <1>2, <1>3, <1>4, <1>5, <1>7, ColumnQuiet DEF CountLabels

LEMMA ColumnGetCalls ==
  ASSUME ColumnInv, NEW t \in Threads, NEW s \in Slots, Column!getComponent(t, s),
         UNCHANGED <<storesData, tables, blocks, blockLive, liveCount, presence, objects>>
  PROVE  ColumnInv'
<1> DEFINE f == Frame("get", s, Tag)
<1>1. /\ f \in FrameType /\ f.op = "get" /\ f.slot = s /\ f.value \in Values
      /\ f.done = FALSE /\ Column!Frame("get", s, Column!Tag) = f
  BY TagIs DEF Frame, Column!Frame, FrameType, Tag, Column!Tag
<1> HIDE DEF f
<1>2. /\ MayGet(s) /\ pc[t] = "idle"
      /\ frame' = [frame EXCEPT ![t] = f] /\ pc' = [pc EXCEPT ![t] = "look"]
  BY <1>1 DEF Column!getComponent, Column!MayGet, Column!CallsOn, Column!Slot, MayGet,
              CallsOn, Slot, Column!Enter, Column!Goto
<1>3. Op(t) = "none" /\ CallsInv /\ CallTypes
  BY <1>2 DEF ColumnInv, CallsInv, CallTypes
<1>4. Others(t) /\ frame'[t] = f /\ pc'[t] = "look"
  BY <1>2, <1>3 DEF Others, CallTypes
<1>5. CallsInv'
  BY <1>1, <1>2, <1>3, <1>4, CallStarts
<1>6. Op(t)' = "get" /\ Slot(t)' = s /\ frame'[t].done = FALSE
  BY <1>1, <1>4 DEF Op, Slot
<1>7. ColumnThread(t)' /\ ~Leaver(t) /\ ~Leaver(t)'
  BY <1>3, <1>4, <1>6 DEF ColumnThread, Leaver
<1>8. QED
  BY <1>2, <1>3, <1>4, <1>5, <1>6, <1>7, ColumnQuiet DEF CountLabels

LEMMA ColumnRemoveCalls ==
  ASSUME ColumnInv, NEW t \in Threads, NEW s \in Slots, Column!removeComponent(t, s)
  PROVE  ColumnInv'
<1> DEFINE f == Frame("remove", s, Tag)
           l == IF storesData THEN "destroy" ELSE "clear"
<1>0. /\ l \in {"destroy", "clear"}
      /\ storesData => l = "destroy"
      /\ ~storesData => l = "clear"
  OBVIOUS
<1>1. /\ f \in FrameType /\ f.op = "remove" /\ f.slot = s /\ f.value \in Values
      /\ f.done = FALSE /\ Column!Frame("remove", s, Column!Tag) = f
  BY TagIs DEF Frame, Column!Frame, FrameType, Tag, Column!Tag
<1> HIDE DEF f
<1>2. /\ MayRemove(s) /\ s \in presence /\ pc[t] = "idle"
      /\ frame' = [frame EXCEPT ![t] = f] /\ pc' = [pc EXCEPT ![t] = l]
      /\ UNCHANGED <<storesData, tables, blocks, blockLive, liveCount, presence, objects>>
  BY <1>1 DEF Column!removeComponent, Column!MayRemove, Column!CallsOn, Column!Slot, MayRemove,
              CallsOn, Slot, Column!Enter, Column!Goto, Column!memory, Column!counts
<1>3. Op(t) = "none" /\ CallsInv /\ CallTypes
  BY <1>2 DEF ColumnInv, CallsInv, CallTypes
<1>4. Others(t) /\ frame'[t] = f /\ pc'[t] = l
  BY <1>2, <1>3 DEF Others, CallTypes
<1> HIDE DEF l
<1>5. CallsInv'
  BY <1>0, <1>1, <1>2, <1>3, <1>4, CallStarts
<1>6. Op(t)' = "remove" /\ Slot(t)' = s /\ frame'[t].done = FALSE
  BY <1>1, <1>4 DEF Op, Slot
<1>7. ColumnThread(t)' /\ ~Leaver(t) /\ ~Leaver(t)'
  BY <1>0, <1>2, <1>3, <1>4, <1>6 DEF ColumnThread, Leaver
<1>8. QED
  BY <1>0, <1>2, <1>3, <1>4, <1>5, <1>6, <1>7, ColumnQuiet DEF CountLabels

LEMMA ColumnReserveCalls ==
  ASSUME ColumnInv, NEW t \in Threads, NEW n \in Reservations, Column!reserve(t, n)
  PROVE  ColumnInv'
<1> DEFINE to == (n + BlockSize - 1) \div BlockSize
           f == [NoFrame(Tag) EXCEPT !.op = "reserve", !.target = to]
<1>1. to \in Nat
  <2>1. n \in Nat /\ BlockSize \in Nat \ {0}
    BY StorageForAssumptions
  <2>2. QED
    BY <2>1
<1>2. /\ f \in FrameType /\ f.op = "reserve" /\ f.value \in Values /\ f.done = FALSE
      /\ [Column!NoFrame(Column!Tag) EXCEPT !.op = "reserve", !.target = to] = f
  <2> HIDE DEF to
  <2>1. QED
    BY <1>1, TagIs DEF NoFrame, Frame, Column!NoFrame, Column!Frame, FrameType, Tag, Column!Tag
<1> HIDE DEF f, to
<1>3. /\ pc[t] = "idle"
      /\ frame' = [frame EXCEPT ![t] = f] /\ pc' = [pc EXCEPT ![t] = "table"]
      /\ UNCHANGED <<storesData, tables, blocks, blockLive, liveCount, presence, objects>>
  BY <1>2 DEF Column!reserve, Column!Enter, Column!Goto, Column!memory, Column!counts, to
<1>4. Op(t) = "none" /\ CallsInv /\ CallTypes
  BY <1>3 DEF ColumnInv, CallsInv, CallTypes
<1>5. Others(t) /\ frame'[t] = f /\ pc'[t] = "table"
  BY <1>3, <1>4 DEF Others, CallTypes
<1>6. CallsInv'
  BY <1>2, <1>3, <1>4, <1>5, CallStarts
<1>7. Op(t)' = "reserve" /\ frame'[t].done = FALSE
  BY <1>2, <1>5 DEF Op
<1>8. ColumnThread(t)' /\ ~Leaver(t) /\ ~Leaver(t)'
  BY <1>4, <1>5, <1>7 DEF ColumnThread, Leaver
<1>9. QED
  BY <1>3, <1>4, <1>5, <1>6, <1>7, <1>8, ColumnQuiet DEF CountLabels

(* The steps that find or make memory, of an add or of reserve. *)
MemoryStep(t, from, to) ==
  /\ pc[t] \in from /\ pc'[t] \in to /\ Others(t) /\ Op(t) \in {"add", "reserve"}
  /\ frame'[t] \in FrameType
  /\ frame'[t].op = Op(t) /\ frame'[t].slot = Slot(t)
  /\ frame'[t].value = frame[t].value /\ frame'[t].done = frame[t].done
  /\ tables \subseteq tables' /\ blocks \subseteq blocks'
  /\ UNCHANGED <<storesData, blockLive, liveCount, presence, objects>>

LEMMA ReservesNext ==
  ASSUME ColumnInv, NEW t \in Threads, Op(t) = "reserve", Column!NextToReserve(t)
  PROVE  /\ Others(t) /\ frame'[t] \in FrameType /\ pc'[t] \in {"table", "return"}
         /\ frame'[t].op = Op(t) /\ frame'[t].slot = Slot(t)
         /\ frame'[t].value = frame[t].value /\ frame'[t].done = frame[t].done
<1>1. CallTypes /\ frame[t] \in FrameType
  BY DEF ColumnInv, CallsInv, CallTypes, FrameType
<1>2. \A b \in Nat : Column!NextBlock(b) \in Nat
  BY DEF Column!NextBlock
<1> DEFINE g == [frame[t] EXCEPT !.index = Column!NextBlock(@)]
<1>3. /\ g \in FrameType /\ g.op = Op(t) /\ g.slot = Slot(t) /\ g.value = frame[t].value
      /\ g.done = frame[t].done
  <2>1. Column!NextBlock(frame[t].index) \in Nat
    BY <1>1, <1>2 DEF FrameType
  <2>2. QED
    BY <1>1, <2>1, FrameSet DEF Op, Slot
<1>4. \/ frame' = [frame EXCEPT ![t] = g] /\ pc' = [pc EXCEPT ![t] = "table"]
      \/ frame' = frame /\ pc' = [pc EXCEPT ![t] = "return"]
  BY <1>1 DEF Column!NextToReserve, Column!Goto, CallTypes
<1> HIDE DEF g
<1>5. QED
  BY <1>1, <1>3, <1>4 DEF Others, CallTypes, Op, Slot

LEMMA TableSteps ==
  ASSUME ColumnInv, NEW t \in Threads, Column!findTable(t) \/ Column!installTable(t)
  PROVE  /\ MemoryStep(t, {"table", "installTable"},
                       {"table", "installTable", "block", "set", "return"})
         /\ pc'[t] = "block" => storesData
         /\ pc'[t] = "set" => ~storesData /\ Op(t) = "add"
         /\ pc'[t] \in {"table", "return"} => Op(t) = "reserve"
         /\ Op(t) = "add" /\ pc'[t] \in {"block", "set"} => HasTable(Slot(t))'
<1>1. CallTypes /\ frame[t] \in FrameType /\ ColumnThread(t) /\ storesData \in BOOLEAN
  BY DEF ColumnInv, CallsInv, CallTypes, FrameType, ColumnTypes
<1>2. /\ pc[t] \in {"table", "installTable"}
      /\ tables \subseteq tables' /\ blocks \subseteq blocks'
      /\ UNCHANGED <<storesData, blockLive, liveCount, presence, objects>>
  BY DEF Column!findTable, Column!installTable, Column!memory, Column!counts
<1>3. Op(t) \in {"add", "reserve"}
  BY <1>1, <1>2 DEF CallTypes, ColumnThread, Op
<1>4. CASE pc' = [pc EXCEPT ![t] = "installTable"] /\ UNCHANGED frame
  BY <1>1, <1>2, <1>3, <1>4 DEF MemoryStep, Others, CallTypes, Op, Slot
<1>5. ASSUME Column!AfterTable(t), Column!TableOf(Column!Block(t)) \in tables'
      PROVE  /\ MemoryStep(t, {"table", "installTable"},
                           {"table", "installTable", "block", "set", "return"})
             /\ pc'[t] = "block" => storesData
             /\ pc'[t] = "set" => ~storesData /\ Op(t) = "add"
             /\ pc'[t] \in {"table", "return"} => Op(t) = "reserve"
             /\ Op(t) = "add" /\ pc'[t] \in {"block", "set"} => HasTable(Slot(t))'
  <2>1. CASE storesData
    <3>1. pc' = [pc EXCEPT ![t] = "block"] /\ frame' = frame
      BY <1>5, <2>1 DEF Column!AfterTable, Column!Goto
    <3>2. Op(t) = "add" => Column!Block(t) = Column!BlockOf(Slot(t)) /\ Slot(t)' = Slot(t)
      BY <3>1 DEF Column!Block, Op, Column!Slot, Slot
    <3>3. QED
      BY <1>1, <1>2, <1>3, <1>5, <2>1, <3>1, <3>2
      DEF MemoryStep, Others, CallTypes, Op, Slot, HasTable
  <2>2. CASE ~storesData /\ Op(t) = "reserve"
    <3>1. Column!NextToReserve(t)
      BY <1>5, <2>2 DEF Column!AfterTable, Op
    <3>2. QED
      BY <1>2, <2>2, <3>1, ReservesNext DEF MemoryStep
  <2>3. CASE ~storesData /\ Op(t) = "add"
    <3>1. pc' = [pc EXCEPT ![t] = "set"] /\ frame' = frame
      BY <1>5, <2>3 DEF Column!AfterTable, Column!Goto, Op
    <3>2. Column!Block(t) = Column!BlockOf(Slot(t)) /\ Slot(t)' = Slot(t)
      BY <2>3, <3>1 DEF Column!Block, Op, Column!Slot, Slot
    <3>3. QED
      BY <1>1, <1>2, <1>3, <1>5, <2>3, <3>1, <3>2
      DEF MemoryStep, Others, CallTypes, Op, Slot, HasTable
  <2>4. QED
    BY <1>1, <1>3, <2>1, <2>2, <2>3
<1>6. \/ pc' = [pc EXCEPT ![t] = "installTable"] /\ UNCHANGED frame
      \/ Column!AfterTable(t) /\ Column!TableOf(Column!Block(t)) \in tables'
  BY DEF Column!findTable, Column!installTable, Column!Goto, Column!memory
<1>7. QED
  BY <1>4, <1>5, <1>6

LEMMA BlockSteps ==
  ASSUME ColumnInv, NEW t \in Threads, Column!findBlock(t) \/ Column!installBlock(t)
  PROVE  /\ MemoryStep(t, {"block", "installBlock"}, {"table", "installBlock", "test", "return"})
         /\ storesData
         /\ pc'[t] \in {"table", "return"} => Op(t) = "reserve"
         /\ pc'[t] = "test" => Op(t) = "add" /\ HasBlock(Slot(t))'
<1>1. CallTypes /\ frame[t] \in FrameType /\ ColumnThread(t)
  BY DEF ColumnInv, CallsInv, CallTypes, FrameType
<1>2. /\ pc[t] \in {"block", "installBlock"}
      /\ tables \subseteq tables' /\ blocks \subseteq blocks'
      /\ UNCHANGED <<storesData, blockLive, liveCount, presence, objects>>
  BY DEF Column!findBlock, Column!installBlock, Column!memory, Column!counts
<1>3. Op(t) \in {"add", "reserve"} /\ storesData
  BY <1>1, <1>2 DEF CallTypes, ColumnThread, Op
<1>4. CASE pc' = [pc EXCEPT ![t] = "installBlock"] /\ UNCHANGED frame
  BY <1>1, <1>2, <1>3, <1>4 DEF MemoryStep, Others, CallTypes, Op, Slot
<1>5. CASE Column!AfterBlock(t) /\ Column!Block(t) \in blocks'
  <2>1. CASE Op(t) = "reserve"
    <3>1. Column!NextToReserve(t)
      BY <1>5, <2>1 DEF Column!AfterBlock, Op
    <3>2. QED
      BY <1>2, <1>3, <2>1, <3>1, ReservesNext DEF MemoryStep
  <2>2. CASE Op(t) = "add"
    <3>1. pc' = [pc EXCEPT ![t] = "test"] /\ frame' = frame
      BY <1>5, <2>2 DEF Column!AfterBlock, Column!Goto, Op
    <3>2. Column!Block(t) = Column!BlockOf(Slot(t)) /\ Slot(t)' = Slot(t)
      BY <2>2, <3>1 DEF Column!Block, Op, Column!Slot, Slot
    <3>3. QED
      BY <1>1, <1>2, <1>3, <1>5, <2>2, <3>1, <3>2
      DEF MemoryStep, Others, CallTypes, Op, Slot, HasBlock
  <2>3. QED
    BY <1>3, <2>1, <2>2
<1>6. \/ pc' = [pc EXCEPT ![t] = "installBlock"] /\ UNCHANGED frame
      \/ Column!AfterBlock(t) /\ Column!Block(t) \in blocks'
  BY DEF Column!findBlock, Column!installBlock, Column!Goto, Column!memory
<1>7. QED
  BY <1>4, <1>5, <1>6

LEMMA ColumnMemory ==
  ASSUME ColumnInv, NEW t \in Threads,
         \/ Column!findTable(t) \/ Column!installTable(t)
         \/ Column!findBlock(t) \/ Column!installBlock(t)
  PROVE  ColumnInv'
<1>1. CallsInv /\ CallTypes /\ ColumnThread(t)
  BY DEF ColumnInv, CallsInv
<1> DEFINE Labels == {"table", "installTable", "block", "installBlock", "test", "set", "return"}
<1>2. MemoryStep(t, Labels, Labels)
  BY TableSteps, BlockSteps DEF MemoryStep
<1> HIDE DEF Labels
<1>3. Others(t) /\ Op(t)' = Op(t) /\ Slot(t)' = Slot(t)
  BY <1>2 DEF MemoryStep, Op, Slot
<1>4. CallsInv'
  BY <1>1, <1>2, <1>3, CallGoesOn DEF MemoryStep, CallTypes, Labels
<1>5. /\ HasTable(Slot(t)) => HasTable(Slot(t))'
      /\ HasBlock(Slot(t)) => HasBlock(Slot(t))'
  BY <1>2, <1>3 DEF MemoryStep, HasTable, HasBlock
<1>6. ColumnThread(t)' /\ (pc'[t] = "set" => ~storesData)
  <2>1. CASE Column!findTable(t) \/ Column!installTable(t)
    <3>1. /\ pc[t] \in {"table", "installTable"}
          /\ pc'[t] \in {"table", "installTable", "block", "set", "return"}
          /\ pc'[t] = "block" => storesData
          /\ pc'[t] = "set" => ~storesData /\ Op(t) = "add"
          /\ pc'[t] \in {"table", "return"} => Op(t) = "reserve"
          /\ Op(t) = "add" /\ pc'[t] \in {"block", "set"} => HasTable(Slot(t))'
      BY <2>1, TableSteps DEF MemoryStep
    <3>2. /\ Op(t) \in {"add", "reserve"} /\ storesData \in BOOLEAN
          /\ UNCHANGED <<storesData, presence>>
          /\ frame'[t].value = frame[t].value /\ frame'[t].done = frame[t].done
      BY <1>2 DEF MemoryStep, ColumnInv, ColumnTypes
    <3>3. CASE Op(t) = "reserve"
      BY <1>1, <1>3, <3>1, <3>2, <3>3 DEF ColumnThread
    <3>4. CASE Op(t) = "add"
      <4>1. ~storesData => Slot(t)' \notin presence'
        BY <1>1, <1>3, <3>1, <3>2, <3>4 DEF ColumnThread
      <4>2. ~frame[t].done /\ (storesData \/ frame[t].value = Tag)
        BY <1>1, <3>1, <3>4 DEF ColumnThread
      <4>3. QED
        BY <1>3, <3>1, <3>2, <3>4, <4>1, <4>2 DEF ColumnThread
    <3>5. QED
      BY <3>1, <3>2, <3>3, <3>4
  <2>2. CASE Column!findBlock(t) \/ Column!installBlock(t)
    BY <1>1, <1>3, <1>5, <2>2, BlockSteps DEF MemoryStep, ColumnThread
  <2>3. QED
    BY <2>1, <2>2
<1>7. ~Leaver(t) /\ ~Leaver(t)' /\ (pc[t] \notin {"set", "destroyed"})
  BY <1>2, <1>3, TableSteps, BlockSteps DEF MemoryStep, Leaver
<1>8. QED
  BY <1>2, <1>4, <1>6, <1>7, ColumnQuiet DEF MemoryStep, CountLabels, Labels

LEMMA ColumnLookups ==
  ASSUME ColumnInv, NEW t \in Threads,
         UNCHANGED <<storesData, tables, blocks, blockLive, liveCount, presence>>,
         \/ Column!lookup(t) /\ UNCHANGED objects
         \/ Column!readObject(t)
  PROVE  ColumnInv'
<1>1. CallsInv /\ CallTypes /\ ColumnThread(t) /\ frame[t] \in FrameType /\ ColumnTypes
  BY DEF ColumnInv, CallsInv, CallTypes, FrameType
<1>2. CASE Column!lookup(t) /\ UNCHANGED objects /\ Slot(t) \in presence
  <2>1. /\ Op(t) = "get" /\ pc[t] = "look"
        /\ pc' = [pc EXCEPT ![t] = "read"] /\ UNCHANGED frame
    BY <1>2 DEF Column!lookup, Column!Doing, Column!Goto, Column!Slot, Slot, Op
  <2>2. Others(t) /\ pc'[t] = "read" /\ frame'[t] = frame[t] /\ Op(t)' = Op(t) /\ Slot(t)' = Slot(t)
    BY <1>1, <2>1 DEF Others, CallTypes, Op, Slot
  <2>3. CallsInv'
    BY <1>1, <2>1, <2>2, CallGoesOn DEF CallTypes
  <2>4. ColumnThread(t)' /\ ~Leaver(t) /\ ~Leaver(t)'
    BY <1>1, <1>2, <2>1, <2>2 DEF ColumnThread, Leaver
  <2>5. QED
    BY <1>2, <2>1, <2>2, <2>3, <2>4, ColumnQuiet DEF CountLabels
<1>3. ASSUME NEW v \in Values \cup {Nothing}, Op(t) = "get", pc[t] \in {"look", "read"},
             frame' = [frame EXCEPT ![t].value = v, ![t].done = TRUE],
             pc' = [pc EXCEPT ![t] = "return"], UNCHANGED objects
      PROVE  ColumnInv'
  <2> DEFINE g == [frame[t] EXCEPT !.value = v, !.done = TRUE]
  <2>0. /\ g \in FrameType /\ g.op = frame[t].op /\ g.slot = frame[t].slot
        /\ g.done = TRUE
    BY <1>1, FrameSet
  <2>1. Others(t) /\ pc'[t] = "return" /\ frame'[t] = g
    BY <1>1, <1>3 DEF Others, CallTypes
  <2> HIDE DEF g
  <2>2. /\ frame'[t] \in FrameType /\ Op(t)' = "get" /\ Slot(t)' = Slot(t)
        /\ frame'[t].done = TRUE
    BY <1>3, <2>0, <2>1 DEF Op, Slot
  <2>3. CallsInv'
    BY <1>1, <1>3, <2>1, <2>2, CallGoesOn DEF CallTypes
  <2>4. ColumnThread(t)' /\ ~Leaver(t) /\ ~Leaver(t)'
    BY <1>3, <2>1, <2>2 DEF ColumnThread, Leaver
  <2>5. QED
    BY <1>3, <2>1, <2>2, <2>3, <2>4, ColumnQuiet DEF CountLabels
<1>4. CASE Column!lookup(t) /\ UNCHANGED objects /\ Slot(t) \notin presence
  <2>1. /\ Op(t) = "get" /\ pc[t] = "look"
        /\ frame' = [frame EXCEPT ![t].value = Nothing, ![t].done = TRUE]
        /\ pc' = [pc EXCEPT ![t] = "return"]
    BY <1>4 DEF Column!lookup, Column!Doing, Column!Goto, Column!Slot, Slot, Op
  <2>2. QED
    BY <1>3, <1>4, <2>1
<1>5. CASE Column!readObject(t)
  <2> DEFINE v == IF storesData THEN objects[Slot(t)] ELSE Tag
  <2>1. /\ Op(t) = "get" /\ pc[t] = "read" /\ UNCHANGED objects
        /\ frame' = [frame EXCEPT ![t].value = v, ![t].done = TRUE]
        /\ pc' = [pc EXCEPT ![t] = "return"]
    BY <1>5 DEF Column!readObject, Column!ReadAs, Column!Doing, Column!Goto,
                Column!Slot, Slot, Op, Column!Tag, Tag
  <2>2. Slot(t) \in Slots /\ Slot(t) \in presence
    BY <1>1, <2>1 DEF ColumnThread, CallTypes
  <2>3. Slot(t) \in Counted /\ ~Destroyed
    BY <1>1, <2>1, <2>2, PresentCounted
  <2>4. v \in Values
    BY <2>2, <2>3, TagIs DEF ColumnInv, ColumnObjects, ColumnTypes, Filled, Counted
  <2>5. QED
    BY <1>3, <2>1, <2>4
<1>6. QED
  BY <1>2, <1>4, <1>5

LEMMA ColumnEnds ==
  ASSUME ColumnInv, NEW t \in Threads,
         \/ /\ Column!return(t)
            /\ UNCHANGED <<storesData, tables, blocks, blockLive, liveCount>>
         \/ Column!constructorThrows(t)
  PROVE  ColumnInv'
<1>1. CallsInv /\ CallTypes /\ ColumnThread(t)
  BY DEF ColumnInv, CallsInv
<1>2. /\ \/ pc[t] = "return"
         \/ pc[t] = "construct" /\ Op(t) = "add"
      /\ UNCHANGED <<storesData, tables, blocks, blockLive, liveCount, presence, objects>>
      /\ frame' = [frame EXCEPT ![t] = NoFrame(Tag)] /\ pc' = [pc EXCEPT ![t] = "idle"]
  BY DEF Column!return, Column!constructorThrows, Column!Doing, Column!memory, Column!counts,
         Column!Leave, Column!Goto, Column!NoFrame, Column!Frame, Column!Tag,
         NoFrame, Frame, Tag, Op
<1>3. Others(t) /\ frame'[t] = NoFrame(Tag) /\ pc'[t] = "idle" /\ Op(t) # "none"
  BY <1>1, <1>2 DEF Others, CallTypes
<1>4. CallsInv'
  BY <1>1, <1>2, <1>3, CallEnds DEF CallTypes
<1>5. Op(t)' = "none"
  BY <1>3, NoFrameIs DEF Op
<1>6. ColumnThread(t)' /\ ~Leaver(t)'
  BY <1>3, <1>5 DEF ColumnThread, Leaver
<1>7. Leaver(t) => Slot(t) \notin presence
  BY <1>1, <1>2 DEF Leaver, ColumnThread
<1>8. QED
  BY <1>1, <1>2, <1>3, <1>4, <1>5, <1>6, <1>7, ColumnQuiet DEF CallTypes, CountLabels

LEMMA ColumnAbsent ==
  ASSUME ColumnInv, NEW t \in Threads, Column!absent(t)
  PROVE  ColumnInv'
<1>1. /\ CallsInv /\ CallTypes /\ ColumnThread(t) /\ storesData \in BOOLEAN
      /\ frame[t] \in FrameType
  BY DEF ColumnInv, CallsInv, CallTypes, ColumnTypes, FrameType
<1>2. /\ Op(t) = "add" /\ pc[t] = "test" /\ Slot(t) \notin presence
      /\ \/ storesData /\ pc' = [pc EXCEPT ![t] = "construct"]
         \/ ~storesData /\ pc' = [pc EXCEPT ![t] = "table"]
      /\ UNCHANGED <<storesData, tables, blocks, blockLive, liveCount, presence, objects, frame>>
  BY DEF Column!absent, Column!Doing, Column!Goto, Column!Slot, Slot, Op, Column!memory,
         Column!counts
<1>3. /\ Others(t) /\ frame'[t] = frame[t] /\ Op(t)' = "add" /\ Slot(t)' = Slot(t)
      /\ pc'[t] \in {"construct", "table"}
      /\ pc'[t] = "construct" <=> storesData
  BY <1>1, <1>2 DEF Others, CallTypes, Op, Slot
<1>4. CallsInv'
  BY <1>1, <1>2, <1>3, CallGoesOn DEF CallTypes
<1>5. HasTable(Slot(t))' = HasTable(Slot(t)) /\ HasBlock(Slot(t))' = HasBlock(Slot(t))
  BY <1>2, <1>3 DEF HasTable, HasBlock
<1>6. ColumnThread(t)' /\ ~Leaver(t) /\ ~Leaver(t)'
  BY <1>1, <1>2, <1>3, <1>5 DEF ColumnThread, Leaver
<1>7. QED
  BY <1>2, <1>3, <1>4, <1>6, ColumnQuiet DEF CountLabels

LEMMA ColumnOverwrites ==
  ASSUME ColumnInv, NEW t \in Threads, Column!overwrite(t)
  PROVE  ColumnInv'
<1>1. /\ CallsInv /\ CallTypes /\ ColumnThread(t) /\ frame[t] \in FrameType /\ ColumnTypes
      /\ storesData \in BOOLEAN
  BY DEF ColumnInv, CallsInv, CallTypes, FrameType, ColumnTypes
<1> DEFINE g == [frame[t] EXCEPT !.done = TRUE]
           v == frame[t].value
           s == Slot(t)
<1>2. /\ g \in FrameType /\ g.op = Op(t) /\ g.slot = s /\ g.value = v /\ g.done = TRUE
  BY <1>1, FrameSet DEF Op, Slot
<1>3. /\ Op(t) = "add" /\ pc[t] = "test" /\ s \in presence
      /\ objects' = IF storesData THEN [objects EXCEPT ![s] = v] ELSE objects
      /\ frame' = [frame EXCEPT ![t] = g] /\ pc' = [pc EXCEPT ![t] = "return"]
      /\ UNCHANGED <<storesData, tables, blocks, blockLive, liveCount, presence>>
  BY <1>1 DEF Column!overwrite, Column!Doing, Column!Effect, Column!Goto,
              Column!Slot, Slot, Op, Column!memory, Column!counts, CallTypes
<1> HIDE DEF g
<1>4. /\ Others(t) /\ frame'[t] = g /\ pc'[t] = "return" /\ Op(t)' = "add" /\ Slot(t)' = s
  BY <1>1, <1>2, <1>3 DEF Others, CallTypes, Op, Slot
<1>5. v \in Values /\ v # Raw /\ s \in Slots
  BY <1>1, <1>3, StorageAssumptions DEF CallTypes
<1>6. CallsInv'
  BY <1>1, <1>2, <1>3, <1>4, <1>5, CallGoesOn DEF CallTypes
<1>7. s \in Counted /\ ~Destroyed
  BY <1>1, <1>3, PresentCounted
<1>8. /\ objects' \in [Slots -> Values \cup {Raw}]
      /\ \A r \in Slots : r # s => objects'[r] = objects[r]
      /\ storesData => objects'[s] = v
      /\ ~storesData => objects'[s] = objects[s]
  BY <1>1, <1>3, <1>5 DEF ColumnTypes
<1>9. ColumnThread(t)'
  BY <1>1, <1>2, <1>3, <1>4 DEF ColumnThread
<1>10. \A u \in Threads \ {t} : Op(u) \in {"add", "remove"} => Slot(u) \in Slots /\ Slot(u) # s
  BY <1>1, <1>3 DEF CallsInv, CallTypes, CallsApart
<1>11. \A u \in Threads : ColumnThread(u)'
  BY <1>3, <1>4, <1>8, <1>9, <1>10, ColumnOthers
<1>12. Counted' = Counted /\ PublishingSlots' = PublishingSlots
  BY <1>3, <1>4 DEF Others, Counted, Leaving, PublishingSlots, Op, Slot
<1>13. Filled' = Filled /\ s \in Filled
  BY <1>4, <1>7, <1>12 DEF Destroyed, Others, Filled, Counted
<1>14. \A r \in Slots : objects'[r] # Raw <=> objects[r] # Raw
  BY <1>1, <1>5, <1>8, <1>13 DEF ColumnInv, ColumnObjects
<1>15. ColumnObjects'
  BY <1>3, <1>12, <1>13, <1>14 DEF ColumnInv, ColumnObjects, HasTable, HasBlock
<1>16. ColumnTypes'
  BY <1>1, <1>3, <1>8 DEF ColumnTypes
<1>17. CountsFollow'
  BY <1>3, <1>4, CountsStay, SettleIs DEF ColumnInv, CountLabels
<1>18. QED
  BY <1>6, <1>11, <1>15, <1>16, <1>17, CountsFitNext DEF ColumnInv

LEMMA ColumnConstructs ==
  ASSUME ColumnInv, NEW t \in Threads, Column!construct(t)
  PROVE  ColumnInv'
<1>1. /\ CallsInv /\ CallTypes /\ ColumnThread(t) /\ frame[t] \in FrameType /\ ColumnTypes
      /\ storesData \in BOOLEAN
  BY DEF ColumnInv, CallsInv, CallTypes, FrameType, ColumnTypes
<1> DEFINE v == frame[t].value
           s == Slot(t)
<1>2. /\ Op(t) = "add" /\ pc[t] = "construct"
      /\ objects' = [objects EXCEPT ![s] = v] /\ pc' = [pc EXCEPT ![t] = "set"]
      /\ UNCHANGED <<storesData, tables, blocks, blockLive, liveCount, presence, frame>>
  BY DEF Column!construct, Column!Doing, Column!Goto, Column!Slot, Slot, Op, Column!memory,
         Column!counts
<1>3. Others(t) /\ frame'[t] = frame[t] /\ pc'[t] = "set" /\ Op(t)' = "add" /\ Slot(t)' = s
  BY <1>1, <1>2 DEF Others, CallTypes, Op, Slot
<1>4. v \in Values /\ v # Raw /\ s \in Slots
  BY <1>1, <1>2, StorageAssumptions DEF CallTypes
<1>5. CallsInv'
  BY <1>1, <1>2, <1>3, <1>4, CallGoesOn DEF CallTypes
<1>6. /\ objects' \in [Slots -> Values \cup {Raw}]
      /\ \A r \in Slots : r # s => objects'[r] = objects[r]
      /\ objects'[s] = v
  BY <1>1, <1>2, <1>4 DEF ColumnTypes
<1>7. storesData /\ HasTable(s) /\ HasBlock(s) /\ s \notin presence /\ ~frame[t].done
  BY <1>1, <1>2 DEF ColumnThread
<1>8. ColumnThread(t)'
  <2>1. HasTable(Slot(t))' /\ HasBlock(Slot(t))'
    BY <1>2, <1>3, <1>7 DEF HasTable, HasBlock
  <2>2. QED
    BY <1>2, <1>3, <1>6, <1>7, <2>1 DEF ColumnThread
<1>9. \A u \in Threads \ {t} : Op(u) \in {"add", "remove"} => Slot(u) \in Slots /\ Slot(u) # s
  BY <1>1, <1>2 DEF CallsInv, CallTypes, CallsApart
<1>10. \A u \in Threads : ColumnThread(u)'
  BY <1>2, <1>3, <1>6, <1>8, <1>9, ColumnOthers
<1>11. Counted' = Counted /\ PublishingSlots' = PublishingSlots \cup {s}
  BY <1>2, <1>3 DEF Others, Counted, Leaving, PublishingSlots, Op, Slot
<1>12. Filled' = Filled
  BY <1>1, <1>2, <1>3, <1>11 DEF CallsInv, Destroyed, Others, Filled, Counted
<1>13. ColumnObjects'
  BY <1>2, <1>4, <1>6, <1>7, <1>11, <1>12 DEF ColumnInv, ColumnObjects, HasTable, HasBlock
<1>14. ColumnTypes'
  BY <1>1, <1>2, <1>6 DEF ColumnTypes
<1>15. CountsFollow'
  BY <1>2, <1>3, CountsStay, SettleIs DEF ColumnInv, CountLabels
<1>16. QED
  BY <1>5, <1>10, <1>13, <1>14, <1>15, CountsFitNext DEF ColumnInv

LEMMA ColumnDestroys ==
  ASSUME ColumnInv, NEW t \in Threads, Column!destroyObject(t)
  PROVE  ColumnInv'
<1>1. /\ CallsInv /\ CallTypes /\ ColumnThread(t) /\ frame[t] \in FrameType /\ ColumnTypes
      /\ storesData \in BOOLEAN
  BY DEF ColumnInv, CallsInv, CallTypes, FrameType, ColumnTypes
<1> DEFINE g == [frame[t] EXCEPT !.done = TRUE]
           s == Slot(t)
<1>2. /\ g \in FrameType /\ g.op = Op(t) /\ g.slot = s /\ g.value = frame[t].value
      /\ g.done = TRUE
  BY <1>1, FrameSet DEF Op, Slot
<1>3. /\ Op(t) = "remove" /\ pc[t] = "destroy" /\ objects' = [objects EXCEPT ![s] = Raw]
      /\ frame' = [frame EXCEPT ![t] = g] /\ pc' = [pc EXCEPT ![t] = "clear"]
      /\ UNCHANGED <<storesData, tables, blocks, blockLive, liveCount, presence>>
  BY <1>1 DEF Column!destroyObject, Column!Doing, Column!Effect, Column!Goto,
              Column!Slot, Slot, Op, Column!memory, Column!counts, CallTypes
<1> HIDE DEF g
<1>4. /\ Others(t) /\ frame'[t] = g /\ pc'[t] = "clear" /\ Op(t)' = "remove" /\ Slot(t)' = s
  BY <1>1, <1>2, <1>3 DEF Others, CallTypes, Op, Slot
<1>5. s \in Slots /\ s \in presence /\ storesData
  BY <1>1, <1>3 DEF CallTypes, ColumnThread
<1>6. CallsInv'
  BY <1>1, <1>2, <1>3, <1>4, CallGoesOn DEF CallTypes
<1>7. /\ objects' \in [Slots -> Values \cup {Raw}]
      /\ \A r \in Slots : r # s => objects'[r] = objects[r]
      /\ objects'[s] = Raw
  BY <1>1, <1>3, <1>5 DEF ColumnTypes
<1>8. ColumnThread(t)'
  BY <1>2, <1>3, <1>4, <1>5 DEF ColumnThread
<1>9. \A u \in Threads \ {t} : Op(u) \in {"add", "remove"} => Slot(u) \in Slots /\ Slot(u) # s
  BY <1>1, <1>3 DEF CallsInv, CallTypes, CallsApart
<1>10. \A u \in Threads : ColumnThread(u)'
  BY <1>3, <1>4, <1>7, <1>8, <1>9, ColumnOthers
<1>11. Counted' = Counted \ {s}
  BY <1>2, <1>3, <1>4 DEF Others, Counted, Leaving, Op, Slot
<1>12. PublishingSlots' = PublishingSlots /\ s \notin PublishingSlots
  BY <1>3, <1>4, <1>9 DEF Others, PublishingSlots, Op, Slot
<1>13. Filled' = Filled \ {s}
  BY <1>1, <1>3, <1>4, <1>11 DEF CallsInv, Destroyed, Others, Filled, Counted
<1>14. ColumnObjects'
  BY <1>3, <1>7, <1>12, <1>13 DEF ColumnInv, ColumnObjects, HasTable, HasBlock
<1>15. ColumnTypes'
  BY <1>1, <1>3, <1>7 DEF ColumnTypes
<1>16. CountsFollow'
  BY <1>3, <1>4, CountsStay, SettleIs DEF ColumnInv, CountLabels
<1>17. QED
  BY <1>6, <1>10, <1>14, <1>15, <1>16, CountsFitNext DEF ColumnInv

(* What is still to be counted changes with the thread that steps. *)
LEMMA CountsMove ==
  ASSUME ColumnInv, NEW t \in Threads, Others(t), Op(t) \in {"add", "remove"},
         Op(t)' = Op(t), Slot(t)' = Slot(t), NEW b
  PROVE  /\ Column!BlockOf(Slot(t)) \in Column!Blocks
         /\ Late \in Nat /\ Early \in Nat /\ LateIn(b) \in Nat /\ EarlyIn(b) \in Nat
         /\ Late' = Late + (IF pc'[t] \in {"countBlock", "count"} THEN 1 ELSE 0)
                         - (IF pc[t] \in {"countBlock", "count"} THEN 1 ELSE 0)
         /\ Early' = Early + (IF pc'[t] \in {"uncountBlock", "uncount"} THEN 1 ELSE 0)
                           - (IF pc[t] \in {"uncountBlock", "uncount"} THEN 1 ELSE 0)
         /\ LateIn(b)' =
              LateIn(b) + (IF pc'[t] = "countBlock" /\ Column!BlockOf(Slot(t)) = b THEN 1 ELSE 0)
                        - (IF pc[t] = "countBlock" /\ Column!BlockOf(Slot(t)) = b THEN 1 ELSE 0)
         /\ EarlyIn(b)' =
              EarlyIn(b)
                + (IF pc'[t] = "uncountBlock" /\ Column!BlockOf(Slot(t)) = b THEN 1 ELSE 0)
                - (IF pc[t] = "uncountBlock" /\ Column!BlockOf(Slot(t)) = b THEN 1 ELSE 0)
<1>1. Column!BlockOf(Slot(t)) \in Column!Blocks
  BY DEF ColumnInv, CallsInv, CallTypes, Column!Blocks
<1>2. PICK b0 : b0 = Column!BlockOf(Slot(t))
  OBVIOUS
<1>3. Column!Block(t) = b0 /\ Column!Block(t)' = b0
  BY <1>2 DEF Column!Block, Column!Slot, Slot, Op, Column!BlockOf
<1>4. ASSUME NEW labels, NEW c
      PROVE  /\ Cardinality(At(labels, c)) \in Nat
             /\ Cardinality(At(labels, c)') =
                  Cardinality(At(labels, c)) + (IF pc'[t] \in labels /\ b0 \in c THEN 1 ELSE 0)
                                             - (IF pc[t] \in labels /\ b0 \in c THEN 1 ELSE 0)
  BY <1>3, AtSteps
<1>5. /\ Late \in Nat
      /\ Late' = Late + (IF pc'[t] \in {"countBlock", "count"} THEN 1 ELSE 0)
                      - (IF pc[t] \in {"countBlock", "count"} THEN 1 ELSE 0)
  BY <1>1, <1>2, <1>4 DEF Late
<1>6. /\ Early \in Nat
      /\ Early' = Early + (IF pc'[t] \in {"uncountBlock", "uncount"} THEN 1 ELSE 0)
                        - (IF pc[t] \in {"uncountBlock", "uncount"} THEN 1 ELSE 0)
  BY <1>1, <1>2, <1>4 DEF Early
<1>7. /\ LateIn(b) \in Nat
      /\ LateIn(b)' = LateIn(b) + (IF pc'[t] = "countBlock" /\ b0 = b THEN 1 ELSE 0)
                                - (IF pc[t] = "countBlock" /\ b0 = b THEN 1 ELSE 0)
  <2>1. /\ LateIn(b) \in Nat
        /\ LateIn(b)' = LateIn(b) + (IF pc'[t] \in {"countBlock"} /\ b0 \in {b} THEN 1 ELSE 0)
                                  - (IF pc[t] \in {"countBlock"} /\ b0 \in {b} THEN 1 ELSE 0)
    BY <1>4 DEF LateIn
  <2>2. QED
    BY <2>1
<1>8. /\ EarlyIn(b) \in Nat
      /\ EarlyIn(b)' = EarlyIn(b) + (IF pc'[t] = "uncountBlock" /\ b0 = b THEN 1 ELSE 0)
                                  - (IF pc[t] = "uncountBlock" /\ b0 = b THEN 1 ELSE 0)
  <2>1. /\ EarlyIn(b) \in Nat
        /\ EarlyIn(b)' =
             EarlyIn(b) + (IF pc'[t] \in {"uncountBlock"} /\ b0 \in {b} THEN 1 ELSE 0)
                        - (IF pc[t] \in {"uncountBlock"} /\ b0 \in {b} THEN 1 ELSE 0)
    BY <1>4 DEF EarlyIn
  <2>2. QED
    BY <2>1
<1>9. QED
  BY <1>1, <1>2, <1>5, <1>6, <1>7, <1>8

(* A bit set, or cleared, is a slot more, or less, in its block. *)
LEMMA BitsMove ==
  ASSUME IsFiniteSet(presence), NEW s, NEW b, s \notin presence,
         presence' = presence \cup {s}
  PROVE  /\ Cardinality(presence) \in Nat /\ Cardinality(PresentIn(b)) \in Nat
         /\ IsFiniteSet(presence')
         /\ Cardinality(presence') = Cardinality(presence) + 1
         /\ Cardinality(PresentIn(b)') =
              Cardinality(PresentIn(b)) + (IF Column!BlockOf(s) = b THEN 1 ELSE 0)
<1>1. IsFiniteSet(PresentIn(b)) /\ s \notin PresentIn(b)
  BY FS_Subset DEF PresentIn
<1>2. Cardinality(presence) \in Nat /\ Cardinality(PresentIn(b)) \in Nat
  BY <1>1, FS_CardinalityType
<1>3. IsFiniteSet(presence \cup {s}) /\ Cardinality(presence \cup {s}) = Cardinality(presence) + 1
  BY FS_AddElement
<1>4. Cardinality(PresentIn(b) \cup {s}) = Cardinality(PresentIn(b)) + 1
  BY <1>1, FS_AddElement
<1>5. PresentIn(b)' = IF Column!BlockOf(s) = b THEN PresentIn(b) \cup {s} ELSE PresentIn(b)
  BY DEF PresentIn, Column!BlockOf
<1>6. QED
  BY <1>2, <1>3, <1>4, <1>5

LEMMA BitsMoveBack ==
  ASSUME IsFiniteSet(presence), NEW s, NEW b, s \in presence, presence' = presence \ {s}
  PROVE  /\ Cardinality(presence) \in Nat /\ Cardinality(PresentIn(b)) \in Nat
         /\ IsFiniteSet(presence')
         /\ Cardinality(presence') = Cardinality(presence) - 1
         /\ Cardinality(PresentIn(b)') =
              Cardinality(PresentIn(b)) - (IF Column!BlockOf(s) = b THEN 1 ELSE 0)
<1>1. IsFiniteSet(PresentIn(b)) /\ (s \in PresentIn(b) <=> Column!BlockOf(s) = b)
  BY FS_Subset DEF PresentIn
<1>2. Cardinality(presence) \in Nat /\ Cardinality(PresentIn(b)) \in Nat
  BY <1>1, FS_CardinalityType
<1>3. IsFiniteSet(presence \ {s}) /\ Cardinality(presence \ {s}) = Cardinality(presence) - 1
  BY FS_RemoveElement
<1>4. s \in PresentIn(b) => Cardinality(PresentIn(b) \ {s}) = Cardinality(PresentIn(b)) - 1
  BY <1>1, FS_RemoveElement
<1>5. PresentIn(b)' = IF Column!BlockOf(s) = b THEN PresentIn(b) \ {s} ELSE PresentIn(b)
  BY DEF PresentIn, Column!BlockOf
<1>6. QED
  BY <1>1, <1>2, <1>3, <1>4, <1>5

LEMMA ColumnPublishes ==
  ASSUME ColumnInv, NEW t \in Threads, Column!setPresence(t)
  PROVE  ColumnInv'
<1>1. /\ CallsInv /\ CallTypes /\ ColumnThread(t) /\ frame[t] \in FrameType /\ ColumnTypes
      /\ storesData \in BOOLEAN
  BY DEF ColumnInv, CallsInv, CallTypes, FrameType, ColumnTypes
<1> DEFINE g == [frame[t] EXCEPT !.done = TRUE]
<1>0. PICK s : s = Slot(t)
  OBVIOUS
<1>2. /\ g \in FrameType /\ g.op = Op(t) /\ g.slot = s /\ g.value = frame[t].value
      /\ g.done = TRUE
  BY <1>0, <1>1, FrameSet DEF Op, Slot
<1>3. /\ Op(t) = "add" /\ pc[t] = "set" /\ presence' = presence \cup {s}
      /\ frame' = [frame EXCEPT ![t] = g] /\ pc' = [pc EXCEPT ![t] = "countBlock"]
      /\ UNCHANGED <<storesData, tables, blocks, blockLive, liveCount, objects>>
  BY <1>0, <1>1 DEF Column!setPresence, Column!Doing, Column!Effect, Column!Goto,
              Column!Slot, Slot, Op, Column!memory, Column!counts, CallTypes
<1> HIDE DEF g
<1>4. /\ Others(t) /\ frame'[t] = g /\ pc'[t] = "countBlock" /\ Op(t)' = "add" /\ Slot(t)' = s
  BY <1>1, <1>2, <1>3 DEF Others, CallTypes, Op, Slot
<1>5. /\ s \in Slots /\ s \notin presence /\ HasTable(s) /\ frame[t].value \in Values
      /\ storesData => HasBlock(s) /\ objects[s] = frame[t].value
      /\ storesData \/ frame[t].value = Tag
  BY <1>0, <1>1, <1>3 DEF CallTypes, ColumnThread
<1>6. CallsInv'
  <2>1. presence' \in SUBSET Slots
    BY <1>1, <1>3, <1>5 DEF CallTypes
  <2>2. QED
    BY <1>0, <1>1, <1>2, <1>3, <1>4, <1>5, <2>1, CallGoesOn
<1>7. ColumnThread(t)'
  BY <1>2, <1>3, <1>4, <1>5 DEF ColumnThread
<1>8. \A u \in Threads \ {t} : Op(u) \in {"add", "remove"} => Slot(u) \in Slots /\ Slot(u) # s
  BY <1>0, <1>1, <1>3 DEF CallsInv, CallTypes, CallsApart
<1>9. \A u \in Threads : ColumnThread(u)'
  BY <1>3, <1>4, <1>7, <1>8, ColumnOthers
<1>10. Counted' = Counted \cup {s}
  BY <1>2, <1>3, <1>4, <1>8 DEF Others, Counted, Leaving, Op, Slot
<1>11. PublishingSlots = PublishingSlots' \cup {s}
  BY <1>0, <1>3, <1>4, <1>8 DEF Others, PublishingSlots, Op, Slot
<1>12. Filled' = Filled \cup {s}
  BY <1>1, <1>3, <1>4, <1>10 DEF CallsInv, Destroyed, Others, Filled, Counted
<1>13. ColumnObjects'
  BY <1>3, <1>5, <1>11, <1>12 DEF ColumnInv, ColumnObjects, HasTable, HasBlock
<1>14. ColumnTypes'
  BY <1>1, <1>3, <1>5, BitsMove DEF ColumnTypes
<1>15. CountsFollow'
  <2>1. CountsFollow /\ liveCount \in Int /\ UNCHANGED <<blockLive, liveCount>>
    BY <1>1, <1>3, SettleIs DEF ColumnInv, ColumnTypes
  <2>2. ASSUME NEW b \in Column!Blocks
        PROVE  /\ Cardinality(presence') = liveCount + Late' - Early'
               /\ Cardinality(PresentIn(b)') = blockLive[b] + LateIn(b)' - EarlyIn(b)'
    <3>1. /\ Late \in Nat /\ Early \in Nat /\ LateIn(b) \in Nat /\ EarlyIn(b) \in Nat
          /\ Late' = Late + 1 /\ Early' = Early /\ EarlyIn(b)' = EarlyIn(b)
          /\ LateIn(b)' = LateIn(b) + (IF Column!BlockOf(s) = b THEN 1 ELSE 0)
      BY <1>0, <1>3, <1>4, CountsMove
    <3>2. blockLive[b] \in Int
      BY <1>1 DEF ColumnTypes
    <3>3. /\ Cardinality(presence) = liveCount + Late - Early
          /\ Cardinality(PresentIn(b)) = blockLive[b] + LateIn(b) - EarlyIn(b)
      BY <2>1 DEF CountsFollow
    <3>4. /\ Cardinality(presence') = Cardinality(presence) + 1
          /\ Cardinality(PresentIn(b)') =
               Cardinality(PresentIn(b)) + (IF Column!BlockOf(s) = b THEN 1 ELSE 0)
      BY <1>1, <1>3, <1>5, BitsMove DEF ColumnTypes
    <3>5. QED
      BY <2>1, <3>1, <3>2, <3>3, <3>4
  <2>3. Column!BlockOf(s) \in Column!Blocks
    BY <1>5 DEF Column!Blocks
  <2>4. QED
    BY <2>1, <2>2, <2>3 DEF CountsFollow
<1>16. QED
  BY <1>6, <1>9, <1>13, <1>14, <1>15, CountsFitNext DEF ColumnInv

LEMMA ColumnClears ==
  ASSUME ColumnInv, NEW t \in Threads, Column!clearPresence(t)
  PROVE  ColumnInv'
<1>1. /\ CallsInv /\ CallTypes /\ ColumnThread(t) /\ frame[t] \in FrameType /\ ColumnTypes
      /\ storesData \in BOOLEAN
  BY DEF ColumnInv, CallsInv, CallTypes, FrameType, ColumnTypes
<1> DEFINE g == [frame[t] EXCEPT !.done = TRUE]
<1>0. PICK s : s = Slot(t)
  OBVIOUS
<1>2. /\ g \in FrameType /\ g.op = Op(t) /\ g.slot = s /\ g.value = frame[t].value
      /\ g.done = TRUE
  BY <1>0, <1>1, FrameSet DEF Op, Slot
<1>3. /\ Op(t) = "remove" /\ pc[t] = "clear" /\ presence' = presence \ {s}
      /\ frame' = [frame EXCEPT ![t] = g] /\ pc' = [pc EXCEPT ![t] = "uncountBlock"]
      /\ UNCHANGED <<storesData, tables, blocks, blockLive, liveCount, objects>>
  BY <1>0, <1>1 DEF Column!clearPresence, Column!Doing, Column!Effect, Column!Goto,
              Column!Slot, Slot, Op, Column!memory, Column!counts, CallTypes
<1> HIDE DEF g
<1>4. /\ Others(t) /\ frame'[t] = g /\ pc'[t] = "uncountBlock" /\ Op(t)' = "remove"
      /\ Slot(t)' = s
  BY <1>1, <1>2, <1>3 DEF Others, CallTypes, Op, Slot
<1>5. /\ s \in Slots /\ s \in presence /\ frame[t].value \in Values
      /\ frame[t].done <=> storesData
  BY <1>0, <1>1, <1>3 DEF CallTypes, ColumnThread
<1>6. CallsInv'
  <2>1. presence' \in SUBSET Slots
    BY <1>1, <1>3 DEF CallTypes
  <2>2. QED
    BY <1>0, <1>1, <1>2, <1>3, <1>4, <1>5, <2>1, CallGoesOn
<1>7. ColumnThread(t)'
  BY <1>2, <1>3, <1>4, <1>5 DEF ColumnThread
<1>8. \A u \in Threads \ {t} : Op(u) \in {"add", "get", "remove"} => Slot(u) \in Slots /\ Slot(u) # s
  BY <1>0, <1>1, <1>3 DEF CallsInv, CallTypes, CallsApart
<1>9. \A u \in Threads : ColumnThread(u)'
  BY <1>3, <1>4, <1>7, <1>8, ColumnOthers
<1>10. Counted' = Counted \ {s}
  BY <1>0, <1>2, <1>3, <1>4 DEF Others, Counted, Leaving, Op, Slot
<1>11. storesData => s \notin Counted
  BY <1>0, <1>3, <1>5 DEF Counted, Leaving, Op, Slot
<1>12. PublishingSlots' = PublishingSlots
  BY <1>3, <1>4 DEF Others, PublishingSlots, Op, Slot
<1>13. storesData => Filled' = Filled
  BY <1>1, <1>3, <1>4, <1>10, <1>11 DEF CallsInv, Destroyed, Others, Filled, Counted
<1>14. ColumnObjects'
  BY <1>3, <1>12, <1>13 DEF ColumnInv, ColumnObjects, HasTable, HasBlock
<1>15. ColumnTypes'
  BY <1>1, <1>3, <1>5, BitsMoveBack DEF ColumnTypes
<1>16. CountsFollow'
  <2>1. CountsFollow /\ liveCount \in Int /\ UNCHANGED <<blockLive, liveCount>>
    BY <1>1, <1>3, SettleIs DEF ColumnInv, ColumnTypes
  <2>2. ASSUME NEW b \in Column!Blocks
        PROVE  /\ Cardinality(presence') = liveCount + Late' - Early'
               /\ Cardinality(PresentIn(b)') = blockLive[b] + LateIn(b)' - EarlyIn(b)'
    <3>1. /\ Late \in Nat /\ Early \in Nat /\ LateIn(b) \in Nat /\ EarlyIn(b) \in Nat
          /\ Early' = Early + 1 /\ Late' = Late /\ LateIn(b)' = LateIn(b)
          /\ EarlyIn(b)' = EarlyIn(b) + (IF Column!BlockOf(s) = b THEN 1 ELSE 0)
      BY <1>0, <1>3, <1>4, CountsMove
    <3>2. blockLive[b] \in Int
      BY <1>1 DEF ColumnTypes
    <3>3. /\ Cardinality(presence) = liveCount + Late - Early
          /\ Cardinality(PresentIn(b)) = blockLive[b] + LateIn(b) - EarlyIn(b)
      BY <2>1 DEF CountsFollow
    <3>4. /\ Cardinality(presence') = Cardinality(presence) - 1
          /\ Cardinality(PresentIn(b)') =
               Cardinality(PresentIn(b)) - (IF Column!BlockOf(s) = b THEN 1 ELSE 0)
          /\ Cardinality(PresentIn(b)) \in Nat
      BY <1>1, <1>3, <1>5, BitsMoveBack DEF ColumnTypes
    <3>5. QED
      BY <2>1, <3>1, <3>2, <3>3, <3>4
  <2>3. Column!BlockOf(s) \in Column!Blocks
    BY <1>5 DEF Column!Blocks
  <2>4. QED
    BY <2>1, <2>2, <2>3 DEF CountsFollow
<1>17. QED
  BY <1>6, <1>9, <1>14, <1>15, <1>16, CountsFitNext DEF ColumnInv

(* An action that moves a count. *)
LEMMA ColumnCounting ==
  ASSUME ColumnInv, NEW t \in Threads, Others(t), frame'[t] = frame[t],
         Op(t) \in {"add", "remove"}, pc[t] \in CountLabels, pc'[t] \in CountLabels \cup {"return"},
         UNCHANGED <<storesData, tables, blocks, presence, objects>>,
         blockLive' \in [Column!Blocks -> Int], liveCount' \in Int,
         ColumnThread(t)', CountsFollow'
  PROVE  ColumnInv'
<1>1. CallsInv /\ CallTypes /\ frame[t] \in FrameType
  BY DEF ColumnInv, CallsInv, CallTypes, FrameType
<1>2. \A u \in Threads : frame'[u] = frame[u] /\ Op(u)' = Op(u) /\ Slot(u)' = Slot(u)
  BY DEF Others, Op, Slot
<1>3. CallsInv'
  BY <1>1, <1>2, CallGoesOn DEF CallTypes, CountLabels
<1>4. \A u \in Threads : ColumnThread(u)'
  BY ColumnOthers
<1>5. Counted' = Counted
  BY <1>2 DEF Counted, Leaving, Op
<1>6. Filled' = Filled
  BY <1>1, <1>5 DEF CallsInv, Destroyed, Others, Filled, Counted, CountLabels
<1>7. PublishingSlots' = PublishingSlots
  BY <1>2 DEF PublishingSlots, Others, CountLabels
<1>8. ColumnObjects'
  BY <1>6, <1>7 DEF ColumnInv, ColumnObjects, HasTable, HasBlock
<1>9. ColumnTypes'
  BY DEF ColumnInv, ColumnTypes
<1>10. QED
  BY <1>3, <1>4, <1>8, <1>9, CountsFitNext DEF ColumnInv

LEMMA ColumnCountsBlock ==
  ASSUME ColumnInv, NEW t \in Threads,
         Column!countBlock(t) \/ Column!uncountBlock(t)
  PROVE  ColumnInv'
<1>1. /\ CallsInv /\ CallTypes /\ ColumnThread(t) /\ ColumnTypes
  BY DEF ColumnInv, CallsInv
<1>0. PICK b0 : b0 = Column!BlockOf(Slot(t))
  OBVIOUS
<1>2. /\ pc[t] \in {"countBlock", "uncountBlock"}
      /\ Op(t) = IF pc[t] = "countBlock" THEN "add" ELSE "remove"
  BY <1>1 DEF Column!countBlock, Column!uncountBlock, CallTypes, ColumnThread, Op
<1>3. Column!Block(t) = b0 /\ b0 \in Column!Blocks
  BY <1>0, <1>1, <1>2 DEF Column!Block, Column!Slot, Slot, Op, CallTypes, Column!Blocks
<1>4. /\ blockLive' = [blockLive EXCEPT ![b0] = IF pc[t] = "countBlock" THEN @ + 1 ELSE @ - 1]
      /\ pc' = [pc EXCEPT ![t] = IF pc[t] = "countBlock" THEN "count" ELSE "uncount"]
      /\ UNCHANGED <<storesData, tables, blocks, liveCount, presence, objects, frame>>
  BY <1>3 DEF Column!countBlock, Column!uncountBlock, Column!Goto, Column!memory
<1>5. /\ Others(t) /\ frame'[t] = frame[t] /\ Op(t)' = Op(t) /\ Slot(t)' = Slot(t)
      /\ pc'[t] = IF pc[t] = "countBlock" THEN "count" ELSE "uncount"
  BY <1>1, <1>4 DEF Others, CallTypes, Op, Slot
<1>6. /\ blockLive' \in [Column!Blocks -> Int]
      /\ \A b \in Column!Blocks :
           blockLive'[b] = IF b = b0 THEN IF pc[t] = "countBlock" THEN blockLive[b] + 1
                                          ELSE blockLive[b] - 1
                           ELSE blockLive[b]
  BY <1>1, <1>3, <1>4 DEF ColumnTypes
<1>7. ColumnThread(t)'
  BY <1>1, <1>2, <1>4, <1>5 DEF ColumnThread
<1>8. CountsFollow'
  <2>1. CountsFollow /\ liveCount \in Int
    BY <1>1, SettleIs DEF ColumnInv, ColumnTypes
  <2>2. ASSUME NEW b \in Column!Blocks
        PROVE  /\ Cardinality(presence) = liveCount + Late' - Early'
               /\ Cardinality(PresentIn(b)) = blockLive'[b] + LateIn(b)' - EarlyIn(b)'
    <3>1. /\ Late \in Nat /\ Early \in Nat /\ LateIn(b) \in Nat /\ EarlyIn(b) \in Nat
          /\ Late' = Late /\ Early' = Early
          /\ LateIn(b)' = LateIn(b) - (IF pc[t] = "countBlock" /\ b0 = b THEN 1 ELSE 0)
          /\ EarlyIn(b)' = EarlyIn(b) - (IF pc[t] = "uncountBlock" /\ b0 = b THEN 1 ELSE 0)
      BY <1>0, <1>2, <1>5, CountsMove
    <3>2. blockLive[b] \in Int
      BY <1>1 DEF ColumnTypes
    <3>3. /\ Cardinality(presence) = liveCount + Late - Early
          /\ Cardinality(PresentIn(b)) = blockLive[b] + LateIn(b) - EarlyIn(b)
      BY <2>1 DEF CountsFollow
    <3>4. QED
      BY <1>2, <1>6, <3>1, <3>2, <3>3
  <2>3. \A b : PresentIn(b)' = PresentIn(b)
    BY <1>4 DEF PresentIn
  <2>4. QED
    BY <1>3, <1>4, <2>2, <2>3 DEF CountsFollow
<1>9. QED
  BY <1>1, <1>2, <1>4, <1>5, <1>6, <1>7, <1>8, ColumnCounting DEF ColumnTypes, CountLabels

LEMMA ColumnCountsOne ==
  ASSUME ColumnInv, NEW t \in Threads, Column!count(t) \/ Column!uncount(t)
  PROVE  ColumnInv'
<1>1. /\ CallsInv /\ CallTypes /\ ColumnThread(t) /\ ColumnTypes
  BY DEF ColumnInv, CallsInv
<1>2. /\ pc[t] \in {"count", "uncount"}
      /\ Op(t) = IF pc[t] = "count" THEN "add" ELSE "remove"
  BY <1>1 DEF Column!count, Column!uncount, CallTypes, ColumnThread, Op
<1>3. /\ liveCount' = IF pc[t] = "count" THEN liveCount + 1 ELSE liveCount - 1
      /\ pc' = [pc EXCEPT ![t] = "return"]
      /\ UNCHANGED <<storesData, tables, blocks, blockLive, presence, objects, frame>>
  BY DEF Column!count, Column!uncount, Column!Goto, Column!memory
<1>4. /\ Others(t) /\ frame'[t] = frame[t] /\ Op(t)' = Op(t) /\ Slot(t)' = Slot(t)
      /\ pc'[t] = "return"
  BY <1>1, <1>3 DEF Others, CallTypes, Op, Slot
<1>5. liveCount' \in Int
  BY <1>1, <1>3 DEF ColumnTypes
<1>6. ColumnThread(t)'
  BY <1>1, <1>2, <1>3, <1>4 DEF ColumnThread
<1>7. CountsFollow'
  <2>1. CountsFollow /\ liveCount \in Int
    BY <1>1, SettleIs DEF ColumnInv, ColumnTypes
  <2>2. ASSUME NEW b
        PROVE  /\ Cardinality(presence) = liveCount' + Late' - Early'
               /\ LateIn(b)' = LateIn(b) /\ EarlyIn(b)' = EarlyIn(b)
    <3>1. /\ Late \in Nat /\ Early \in Nat /\ LateIn(b) \in Nat /\ EarlyIn(b) \in Nat
          /\ Late' = Late - (IF pc[t] = "count" THEN 1 ELSE 0)
          /\ Early' = Early - (IF pc[t] = "uncount" THEN 1 ELSE 0)
          /\ LateIn(b)' = LateIn(b) /\ EarlyIn(b)' = EarlyIn(b)
      BY <1>2, <1>4, CountsMove
    <3>2. Cardinality(presence) = liveCount + Late - Early
      BY <2>1 DEF CountsFollow
    <3>3. QED
      BY <1>2, <1>3, <2>1, <3>1, <3>2
  <2>3. \A b : PresentIn(b)' = PresentIn(b)
    BY <1>3 DEF PresentIn
  <2>4. QED
    BY <1>3, <2>1, <2>2, <2>3 DEF CountsFollow
<1>8. QED
  BY <1>1, <1>2, <1>3, <1>4, <1>5, <1>6, <1>7, ColumnCounting DEF ColumnTypes, CountLabels

LEMMA ColumnDestroyed ==
  ASSUME ColumnInv, Column!destroyStorage
  PROVE  ColumnInv'
<1>1. /\ AllIdle /\ pc' = [t \in Threads |-> "destroyed"]
      /\ objects' = [s \in Slots |-> IF s \in presence THEN Raw ELSE objects[s]]
      /\ UNCHANGED <<storesData, tables, blocks, blockLive, liveCount, presence, frame>>
  BY DEF Column!destroyStorage, Column!AllIdle, AllIdle, Column!memory, Column!counts
<1>2. CallsInv' /\ Destroyed' /\ \A t \in Threads : Op(t) = "none" /\ Op(t)' = "none"
  BY <1>1, CallsDestroyed DEF ColumnInv
<1>3. \A t \in Threads : ColumnThread(t)'
  BY <1>1, <1>2 DEF ColumnThread
<1>4. Filled \subseteq presence /\ Filled' = {} /\ PublishingSlots = {} /\ PublishingSlots' = {}
  BY <1>2 DEF Filled, PublishingSlots
<1>5. ColumnTypes' /\ ColumnObjects'
  BY <1>1, <1>4 DEF ColumnInv, ColumnTypes, ColumnObjects, HasTable, HasBlock
<1>6. CountsFollow'
  <2>1. \A labels \in SUBSET CountLabels : \A b : At(labels, b) = {} /\ At(labels, b)' = {}
    BY <1>1 DEF At, AllIdle, CountLabels
  <2>2. /\ Late' = Late /\ Early' = Early
        /\ \A b : LateIn(b)' = LateIn(b) /\ EarlyIn(b)' = EarlyIn(b)
    BY <2>1 DEF CountLabels, Late, Early, LateIn, EarlyIn
  <2>3. CountsFollow /\ \A b : PresentIn(b)' = PresentIn(b)
    BY <1>1, SettleIs DEF PresentIn, ColumnInv
  <2>4. QED
    BY <1>1, <2>2, <2>3 DEF CountsFollow
<1>7. QED
  BY <1>2, <1>3, <1>5, <1>6, CountsFitNext DEF ColumnInv

LEMMA ColumnInitially == Column!ColumnInit => ColumnInv
<1> SUFFICES ASSUME Column!ColumnInit PROVE ColumnInv
  OBVIOUS
<1>1. /\ presence = {} /\ pc = [t \in Threads |-> "idle"]
      /\ frame = [t \in Threads |-> NoFrame(Tag)]
      /\ storesData \in BOOLEAN /\ blockLive = [b \in Column!Blocks |-> 0] /\ liveCount = 0
      /\ objects = [s \in Slots |-> Raw]
  BY DEF Column!ColumnInit, Column!CallsInit, Column!NoFrame, Column!Frame, Column!Tag,
         NoFrame, Frame, Tag
<1>2. \A t \in Threads : pc[t] = "idle" /\ frame[t] = NoFrame(Tag) /\ Op(t) = "none"
  BY <1>1, NoFrameIs DEF Op
<1>3. CallsInv
  BY <1>1, <1>2, NoFrameIs DEF CallsInv, CallTypes, CallsApart, Destroyed, FrameType
<1>4. Filled = {} /\ PublishingSlots = {}
  BY <1>1, <1>2 DEF Filled, PublishingSlots
<1>5. IsFiniteSet({}) /\ Cardinality({}) = 0
  BY FS_EmptySet
<1>6. ColumnTypes /\ ColumnObjects
  BY <1>1, <1>4, <1>5 DEF ColumnTypes, ColumnObjects
<1>7. CountsFollow
  <2>1. \A labels \in SUBSET CountLabels : \A b : At(labels, b) = {}
    BY <1>2 DEF At, CountLabels
  <2>2. Late = 0 /\ Early = 0 /\ \A b : LateIn(b) = 0 /\ EarlyIn(b) = 0
    BY <1>5, <2>1 DEF CountLabels, Late, Early, LateIn, EarlyIn
  <2>3. \A b : PresentIn(b) = {}
    BY <1>1 DEF PresentIn
  <2>4. QED
    BY <1>1, <1>5, <2>2, <2>3 DEF CountsFollow
<1>8. \A t \in Threads : ColumnThread(t)
  BY <1>2 DEF ColumnThread
<1>9. QED
  BY <1>3, <1>6, <1>7, <1>8, CountsFit DEF ColumnInv

LEMMA ColumnStep ==
  ASSUME ColumnInv, [Column!ColumnNext]_storageVars
  PROVE  ColumnInv'
<1>1. CASE Column!destroyStorage
  BY <1>1, ColumnDestroyed
<1>2. ASSUME NEW t \in Threads, NEW s \in Slots,
             \/ \E v \in Values : Column!addComponent(t, s, v)
             \/ Column!removeComponent(t, s)
             \/ /\ Column!getComponent(t, s)
                /\ UNCHANGED <<storesData, tables, blocks, blockLive, liveCount, presence, objects>>
      PROVE  ColumnInv'
  BY <1>2, ColumnAddCalls, ColumnRemoveCalls, ColumnGetCalls
<1>3. ASSUME NEW t \in Threads,
             \/ \E n \in Reservations : Column!reserve(t, n)
             \/ Column!findTable(t) \/ Column!installTable(t)
             \/ Column!findBlock(t) \/ Column!installBlock(t)
             \/ Column!overwrite(t) \/ Column!absent(t) \/ Column!construct(t)
             \/ Column!constructorThrows(t) \/ Column!setPresence(t)
             \/ Column!countBlock(t) \/ Column!count(t)
             \/ Column!destroyObject(t) \/ Column!clearPresence(t)
             \/ Column!uncountBlock(t) \/ Column!uncount(t)
      PROVE  ColumnInv'
  BY <1>3, ColumnReserveCalls, ColumnMemory, ColumnOverwrites, ColumnAbsent, ColumnConstructs,
     ColumnEnds, ColumnPublishes, ColumnCountsBlock, ColumnCountsOne, ColumnDestroys, ColumnClears
<1>4. ASSUME NEW t \in Threads,
             \/ /\ Column!lookup(t)
                /\ UNCHANGED <<storesData, tables, blocks, blockLive, liveCount, presence, objects>>
             \/ Column!readObject(t)
             \/ Column!return(t) /\ UNCHANGED <<storesData, tables, blocks, blockLive, liveCount>>
      PROVE  ColumnInv'
  <2>1. Column!readObject(t) =>
          UNCHANGED <<storesData, tables, blocks, blockLive, liveCount, presence>>
    BY DEF Column!readObject, Column!memory, Column!counts
  <2>2. QED
    BY <1>4, <2>1, ColumnLookups, ColumnEnds
<1>5. CASE UNCHANGED storageVars
  <2>1. UNCHANGED <<storesData, tables, blocks, blockLive, liveCount, presence, objects, pc, frame>>
    BY <1>5 DEF storageVars, columnOnly
  <2>2. CallsInv' /\ ColumnTypes' /\ ColumnObjects' /\ \A t \in Threads : ColumnThread(t)'
    BY <2>1 DEF ColumnInv, CallsInv, CallTypes, CallsApart, Destroyed, ColumnTypes, ColumnThread,
       ColumnObjects, Filled, Leaving, PublishingSlots, HasTable, HasBlock, Op, Slot
  <2>3. Column!ColumnCountsSettle'
    BY <2>1 DEF ColumnInv, Column!ColumnCountsSettle, Column!Between, Column!Block, Column!Slot
  <2>4. QED
    BY <2>2, <2>3 DEF ColumnInv
<1>6. QED
  BY <1>1, <1>2, <1>3, <1>4, <1>5 DEF Column!ColumnNext, Column!memory, Column!counts

-----------------------------------------------------------------------------
(* Every step of every call keeps what the storage, its bits, its counts and *)
(* the threads at work on it know of each other (SparseComponentStorage and   *)
(* ComponentColumn: addComponent, removeComponent, reserve, ~).                *)
THEOREM StorageInvariant == StorageSpec => []StorageInv
<1>1. StorageInit => StorageInv
  BY SparseInitially, ColumnInitially DEF StorageInit, StorageInv
<1>2. StorageInv /\ [StorageNext]_storageVars => StorageInv'
  <2> SUFFICES ASSUME StorageInv, [StorageNext]_storageVars PROVE StorageInv'
    OBVIOUS
  <2>1. UNCHANGED policy
    BY DEF StorageNext, storageVars
  <2>2. CASE policy = "sparse"
    <3>1. SparseInv /\ [Sparse!SparseNext]_storageVars
      BY <2>2 DEF StorageInv, StorageNext
    <3>2. QED
      BY <2>1, <2>2, <3>1, SparseStep DEF StorageInv
  <2>3. CASE policy = "column"
    <3>1. ColumnInv /\ [Column!ColumnNext]_storageVars
      BY <2>3 DEF StorageInv, StorageNext
    <3>2. QED
      BY <2>1, <2>3, <3>1, ColumnStep DEF StorageInv
  <2>4. QED
    BY <2>2, <2>3 DEF StorageInv
<1>3. QED
  BY <1>1, <1>2, PTL DEF StorageSpec

LEMMA SparseOwned == SparseInv => Sparse!SparseObjectsOwned
<1> SUFFICES ASSUME SparseInv PROVE Sparse!SparseObjectsOwned
  OBVIOUS
<1>1. /\ CallTypes /\ SparseTypes /\ IndicesShared /\ SparseObjects
      /\ \A s \in presence : Sparse!PageOf(s) \in pages
  BY DEF SparseInv, CallsInv
<1>2. Sparse!Leaving = Leaving /\ Sparse!Filled = Filled /\ Sparse!Indices = 0 .. MaxIndices - 1
  BY DEF Sparse!Leaving, Leaving, Sparse!Slot, Slot, Sparse!Filled, Filled,
         Sparse!Destroyed, Destroyed, Sparse!Indices
<1>3. ASSUME NEW i \in 0 .. MaxIndices - 1
      PROVE  LET named == {s \in presence \ Leaving : entries[s] = i} IN
               /\ Cardinality(named) + Cardinality(Sparse!Holders(i)) = IF i \in taken THEN 1 ELSE 0
               /\ objects[i] # Raw <=> named \cap Filled # {} \/ Sparse!Constructing(i)
  <2> DEFINE named == {s \in presence \ Leaving : entries[s] = i}
             holders == {t \in Holding : frame[t].index = i}
  <2>1. Sparse!Holders(i) = holders
    BY DEF Sparse!Holders, Sparse!Index, Sparse!Doing, Holding, Op
  <2>2. named = {s \in Counted : entries[s] = i}
    BY DEF Counted
  <2>3. /\ \A s, r \in named : s = r
        /\ \A t, u \in holders : t = u
        /\ named = {} \/ holders = {}
        /\ i \in taken <=> named # {} \/ holders # {}
    BY <1>1, <2>2 DEF IndicesShared
  <2>4. objects[i] # Raw <=> named \cap Filled # {} \/ Sparse!Constructing(i)
    <3>1. Sparse!Constructing(i) <=> \E t \in Publishing : frame[t].index = i
      BY <2>1 DEF Sparse!Constructing, Publishing, Holding
    <3>2. named \cap Filled # {} <=> ~Destroyed /\ \E s \in Counted : entries[s] = i
      BY <2>2 DEF Filled, Counted
    <3>3. QED
      BY <1>1, <3>1, <3>2 DEF SparseObjects
  <2> HIDE DEF named, holders
  <2>5. ASSUME NEW S, \A x, y \in S : x = y
        PROVE  Cardinality(S) = IF S = {} THEN 0 ELSE 1
    <3>1. CASE S = {}
      BY <3>1, FS_EmptySet
    <3>2. ASSUME NEW x \in S PROVE Cardinality(S) = 1
      <4>1. S = {x}
        BY <2>5
      <4>2. QED
        BY <4>1, FS_Singleton
    <3>3. QED
      BY <3>1, <3>2
  <2>6. /\ Cardinality(named) = IF named = {} THEN 0 ELSE 1
        /\ Cardinality(holders) = IF holders = {} THEN 0 ELSE 1
    BY <2>3, <2>5
  <2>7. Cardinality(named) + Cardinality(holders) = IF i \in taken THEN 1 ELSE 0
    BY <2>3, <2>6
  <2>8. QED
    BY <2>1, <2>4, <2>7 DEF named
<1>4. QED
  BY <1>1, <1>2, <1>3, CardinalityIs DEF Sparse!SparseObjectsOwned

LEMMA ColumnOwned == ColumnInv => Column!ColumnObjectsOwned
<1> SUFFICES ASSUME ColumnInv, NEW s \in Slots
             PROVE  /\ objects[s] # Raw <=>
                         storesData /\ (s \in Filled \/ s \in PublishingSlots)
                    /\ s \in presence => HasTable(s)
                    /\ objects[s] # Raw => HasBlock(s)
  <2>1. Column!Filled = Filled
    BY DEF Column!Leaving, Leaving, Column!Slot, Slot, Column!Filled, Filled,
           Column!Destroyed, Destroyed
  <2>2. \A s \in Slots : s \in PublishingSlots <=>
          \E t \in Threads : Column!Doing(t, "add", "set") /\ Column!Slot(t) = s
    BY DEF PublishingSlots, Column!Doing, Column!Slot, Op, Slot
  <2>3. QED
    BY <2>1, <2>2 DEF Column!ColumnObjectsOwned, HasTable, HasBlock
<1>1. /\ objects[s] # Raw <=> storesData /\ s \in Filled \cup PublishingSlots
      /\ s \in presence => HasTable(s) /\ (storesData => HasBlock(s))
  BY DEF ColumnInv, ColumnObjects
<1>2. s \in PublishingSlots /\ storesData => HasBlock(s)
  BY DEF PublishingSlots, ColumnInv, ColumnThread
<1>3. QED
  BY <1>1, <1>2 DEF Filled

(* Memory is owned, whatever the threads do (SparseComponentStorage and      *)
(* ComponentColumn): an object lives exactly in the place of a slot that has  *)
(* the component or of a thread about to make one present, and every index    *)
(* out of a sparse storage's pool is that of exactly one slot or thread.      *)
THEOREM OwnedObjects == StorageSpec => []ObjectsOwned
<1>1. StorageInv => ObjectsOwned
  BY SparseOwned, ColumnOwned DEF StorageInv, ObjectsOwned
<1>2. QED
  BY <1>1, StorageInvariant, PTL

(* size() of a column and the live count of each of its blocks differ from    *)
(* the presence bits by the calls that have still to count theirs, and are     *)
(* never negative (ComponentColumn::markPresent, markAbsent).                  *)
THEOREM SettledCounts == StorageSpec => []LiveCountsSettle
<1>1. StorageInv => LiveCountsSettle
  BY DEF StorageInv, LiveCountsSettle, ColumnInv
<1>2. QED
  BY <1>1, StorageInvariant, PTL

-----------------------------------------------------------------------------
(* Either storage implements ComponentStore. *)

(* What a slot holds, and so what the storage holds. *)
Held(s) ==
  IF policy = "sparse" THEN objects[entries[s]] ELSE IF storesData THEN objects[s] ELSE Tag
Contents == [s \in Filled |-> Held(s)]
Calls == [t \in Threads |-> CallOf(t)]

StoreStep == [Store!Next]_(Store!storeVars)

Asks(t) == Op(t) \in {"add", "get", "remove"}

ContentsSame ==
  Contents = IF policy = "sparse" THEN Sparse!SparseContents ELSE Column!ColumnContents

LEMMA ContentsAre == ContentsSame
<1>1. Sparse!Filled = Filled /\ Column!Filled = Filled
  BY DEF Sparse!Leaving, Column!Leaving, Leaving, Sparse!Slot, Column!Slot, Slot,
         Sparse!Filled, Column!Filled, Filled, Sparse!Destroyed, Column!Destroyed, Destroyed
<1>2. CASE policy = "sparse"
  BY <1>1, <1>2 DEF ContentsSame, Contents, Held, Sparse!SparseContents
<1>3. CASE policy # "sparse"
  BY <1>1, <1>3 DEF ContentsSame, Contents, Held, Column!ColumnContents, Column!Tag, Tag
<1>4. QED
  BY <1>2, <1>3

LEMMA ContentsAreNext == ContentsSame'
BY ContentsAre, PTL

LEMMA CallIs ==
  ASSUME CallTypes, NEW t \in Threads
  PROVE  /\ Store!NoCall = [op |-> "none"]
         /\ Asks(t) => /\ CallOf(t) = [op |-> Op(t), slot |-> Slot(t),
                                       value |-> frame[t].value, done |-> frame[t].done]
                       /\ CallOf(t) # [op |-> "none"]
         /\ ~Asks(t) => CallOf(t) = [op |-> "none"]
<1>1. Op(t) \in {"none", "add", "get", "remove", "reserve"}
  BY DEF CallTypes, Op
<1>2. Asks(t) => CallOf(t) = [op |-> Op(t), slot |-> Slot(t),
                              value |-> frame[t].value, done |-> frame[t].done]
  BY DEF CallOf, Asks, Op, Slot
<1>3. Asks(t) => CallOf(t).op # "none"
  BY <1>2 DEF Asks
<1>4. QED
  BY <1>1, <1>2, <1>3 DEF CallOf, Asks, Op, Store!NoCall

LEMMA StoreStutters ==
  ASSUME Filled' = Filled, \A s \in Filled : Held(s)' = Held(s),
         \A t \in Threads : CallOf(t)' = CallOf(t)
  PROVE  StoreStep
<1>1. Contents' = Contents
  BY DEF Contents
<1>2. [t \in Threads |-> CallOf(t)]' = [t \in Threads |-> CallOf(t)]
  OBVIOUS
<1>3. QED
  BY <1>1, <1>2, ContentsAre, ContentsAreNext DEF ContentsSame, StoreStep, Store!storeVars

LEMMA StoreCallsOn ==
  ASSUME CallTypes, NEW s
  PROVE  Store!CallsOn(s) = {Op(u) : u \in CallsOn(s)}
<1>1. \A u \in Threads : /\ CallOf(u) # Store!NoCall <=> Asks(u)
                         /\ Asks(u) => CallOf(u).op = Op(u) /\ CallOf(u).slot = Slot(u)
  BY CallIs
<1>2. \A u \in Threads : u \in CallsOn(s) <=> Asks(u) /\ Slot(u) = s
  BY DEF CallsOn, Asks, Op
<1>3. CallsOn(s) \subseteq Threads
  BY DEF CallsOn
<1>4. QED
  BY <1>1, <1>2, <1>3 DEF Store!CallsOn

(* The calls after an action of one thread. *)
LEMMA CallsNext ==
  ASSUME NEW t \in Threads, Others(t)
  PROVE  /\ Calls' = [Calls EXCEPT ![t] = CallOf(t)']
         /\ \A u \in Threads \ {t} : CallOf(u)' = CallOf(u)
<1>1. ASSUME NEW u \in Threads \ {t} PROVE CallOf(u)' = CallOf(u)
  BY DEF Others, CallOf
<1>2. QED
  BY <1>1 DEF Calls

LEMMA CallIsNext ==
  ASSUME NEW t \in Threads,
         frame'[t].op \in {"add", "get", "remove"}
  PROVE  CallOf(t)' = [op |-> frame'[t].op, slot |-> frame'[t].slot,
                       value |-> frame'[t].value, done |-> frame'[t].done]
BY DEF CallOf

LEMMA StoreCalls ==
  ASSUME CallsInv, NEW t \in Threads, pc[t] = "idle", Others(t), UNCHANGED presence,
         \A s \in Filled : Held(s)' = Held(s), pc'[t] # "destroyed",
         NEW s \in Slots, NEW v \in Values, NEW op, frame'[t].op = op, frame'[t].slot = s,
         frame'[t].value = v, frame'[t].done = FALSE,
         \/ op = "add" /\ MayAdd(s)
         \/ op = "get" /\ MayGet(s)
         \/ op = "remove" /\ MayRemove(s)
  PROVE  StoreStep
<1>1. CallTypes /\ ~Destroyed /\ ~Destroyed' /\ Op(t) = "none"
  BY DEF CallsInv, CallTypes, Destroyed, Others
<1>2. Filled' = Filled /\ Contents' = Contents
  <2>1. Leaving' = Leaving
    BY <1>1 DEF Leaving, Others, Slot, Op
  <2>2. Filled' = Filled
    BY <1>1, <2>1 DEF Filled
  <2>3. QED
    BY <2>2 DEF Contents
<1>3. Calls[t] = Store!NoCall
  BY <1>1, CallIs DEF Calls, Asks
<1>4. Calls' = [Calls EXCEPT ![t] = Store!Pending(op, s, v)]
  BY CallsNext, CallIsNext DEF Store!Pending
<1>5. /\ op = "remove" => s \in DOMAIN Contents /\ Store!CallsOn(s) = {}
      /\ op = "add" => Store!CallsOn(s) \subseteq {"get"}
      /\ op = "get" => Store!CallsOn(s) \subseteq {"get", "add"}
  <2>1. Store!CallsOn(s) = {Op(u) : u \in CallsOn(s)}
    BY <1>1, StoreCallsOn
  <2>2. op = "remove" => s \in Filled
    BY <1>1 DEF MayRemove, Filled, Leaving, CallsOn
  <2>3. QED
    BY <2>1, <2>2 DEF MayRemove, MayAdd, MayGet, Contents, Op
<1>6. Store!Call(t)
  <2>1. \E r \in Slots, w \in Values, o \in {"add", "get", "remove"} :
          /\ o = "remove" => r \in DOMAIN Contents /\ Store!CallsOn(r) = {}
          /\ o = "add" => Store!CallsOn(r) \subseteq {"get"}
          /\ o = "get" => Store!CallsOn(r) \subseteq {"get", "add"}
          /\ Calls' = [Calls EXCEPT ![t] = Store!Pending(o, r, w)]
    BY <1>4, <1>5
  <2> HIDE DEF Contents
  <2>2. QED
    BY <1>2, <1>3, <2>1, ContentsAre, ContentsAreNext DEF Store!Call, Calls, ContentsSame
<1>7. QED
  BY <1>6 DEF StoreStep, Store!Next

(* The steps at which calls take effect. *)
LEMMA StoreFinishes ==
  ASSUME CallsInv, NEW t \in Threads, Others(t), Asks(t), frame[t].done = FALSE,
         Op(t)' = Op(t), Slot(t)' = Slot(t), frame'[t].done = TRUE
  PROVE  /\ Calls[t].op = Op(t) /\ Calls[t].slot = Slot(t) /\ Calls[t].value = frame[t].value
         /\ Calls[t] # Store!NoCall /\ ~Calls[t].done
         /\ Calls' = [Calls EXCEPT ![t].value = frame'[t].value, ![t].done = TRUE]
         /\ frame'[t].value = frame[t].value => Calls' = [Calls EXCEPT ![t].done = TRUE]
<1>1. PICK o, s, v, w : o = Op(t) /\ s = Slot(t) /\ v = frame[t].value /\ w = frame'[t].value
  OBVIOUS
<1>0. PICK e : e = FALSE
  OBVIOUS
<1>2. PICK c : c = [op |-> o, slot |-> s, value |-> v, done |-> e]
  OBVIOUS
<1>3. Calls[t] = c /\ c # Store!NoCall
  BY <1>0, <1>1, <1>2, CallIs DEF Calls, CallsInv
<1>4. CallOf(t)' = [op |-> o, slot |-> s, value |-> w, done |-> TRUE]
  BY <1>1, CallIsNext DEF Asks, Op, Slot
<1>5. c.op = o /\ c.slot = s /\ c.value = v /\ ~c.done
  BY <1>0, <1>2
<1>6. /\ [c EXCEPT !.value = w, !.done = TRUE] = [op |-> o, slot |-> s, value |-> w, done |-> TRUE]
      /\ [c EXCEPT !.done = TRUE] = [op |-> o, slot |-> s, value |-> v, done |-> TRUE]
  <2>1. PICK d : d = TRUE
    OBVIOUS
  <2>2. [c EXCEPT !.done = d] = [op |-> o, slot |-> s, value |-> v, done |-> d]
    BY <1>2
  <2>3. PICK b : b = [op |-> o, slot |-> s, value |-> w, done |-> e]
    OBVIOUS
  <2>4. [c EXCEPT !.value = w] = b
    BY <1>2, <2>3
  <2>5. [b EXCEPT !.done = d] = [op |-> o, slot |-> s, value |-> w, done |-> d]
    BY <2>3
  <2>6. [c EXCEPT !.value = w, !.done = d] = [op |-> o, slot |-> s, value |-> w, done |-> d]
    BY <2>4, <2>5
  <2>7. QED
    BY <2>1, <2>2, <2>6
<1>7. Calls' = [Calls EXCEPT ![t] = CallOf(t)'] /\ t \in DOMAIN Calls
  BY CallsNext DEF Calls
<1>8. Calls' = [Calls EXCEPT ![t].value = w, ![t].done = TRUE]
  BY <1>3, <1>4, <1>6, <1>7
<1>9. w = v => Calls' = [Calls EXCEPT ![t].done = TRUE]
  BY <1>3, <1>4, <1>6, <1>7
<1>10. QED
  BY <1>1, <1>3, <1>5, <1>8, <1>9

LEMMA StorePuts ==
  ASSUME CallsInv, NEW t \in Threads, Others(t), Op(t) = "add", frame[t].done = FALSE,
         Op(t)' = Op(t), Slot(t)' = Slot(t), frame'[t].done = TRUE,
         frame'[t].value = frame[t].value, Filled' = Filled \cup {Slot(t)},
         \A s \in Filled' : Held(s)' = IF s = Slot(t) THEN frame[t].value ELSE Held(s)
  PROVE  StoreStep
<1>1. /\ Calls[t].op = "add" /\ Calls[t].slot = Slot(t) /\ Calls[t].value = frame[t].value
      /\ Calls[t] # Store!NoCall /\ ~Calls[t].done
      /\ Calls' = [Calls EXCEPT ![t].done = TRUE]
  BY StoreFinishes DEF Asks
<1>2. Contents' = [s \in Filled \cup {Slot(t)} |-> IF s = Slot(t) THEN frame[t].value ELSE Held(s)]
  BY DEF Contents
<1>3. Contents' = [s \in DOMAIN Contents \cup {Calls[t].slot} |->
                     IF s = Calls[t].slot THEN Calls[t].value ELSE Contents[s]]
  BY <1>1, <1>2 DEF Contents
<1> HIDE DEF Contents
<1>4. Store!Put(t)
  BY <1>1, <1>3, ContentsAre, ContentsAreNext
  DEF Store!Put, Store!Due, Store!Finish, Calls, ContentsSame
<1>5. QED
  BY <1>4 DEF StoreStep, Store!Next

LEMMA StoreRemoves ==
  ASSUME CallsInv, NEW t \in Threads, Others(t), Op(t) = "remove", frame[t].done = FALSE,
         Op(t)' = Op(t), Slot(t)' = Slot(t), frame'[t].done = TRUE,
         frame'[t].value = frame[t].value, Filled' = Filled \ {Slot(t)},
         \A s \in Filled' : Held(s)' = Held(s)
  PROVE  StoreStep
<1>1. /\ Calls[t].op = "remove" /\ Calls[t].slot = Slot(t)
      /\ Calls[t] # Store!NoCall /\ ~Calls[t].done
      /\ Calls' = [Calls EXCEPT ![t].done = TRUE]
  BY StoreFinishes DEF Asks
<1>2. Contents' = [s \in Filled \ {Slot(t)} |-> Held(s)]
  BY DEF Contents
<1>3. Contents' = [s \in DOMAIN Contents \ {Calls[t].slot} |-> Contents[s]]
  BY <1>1, <1>2 DEF Contents
<1>4. Store!Remove(t)
  BY <1>1, <1>3, ContentsAre, ContentsAreNext
  DEF Store!Remove, Store!Due, Store!Finish, Calls, ContentsSame
<1>5. QED
  BY <1>4 DEF StoreStep, Store!Next

LEMMA StoreGets ==
  ASSUME CallsInv, NEW t \in Threads, Others(t), Op(t) = "get", frame[t].done = FALSE,
         Op(t)' = Op(t), Slot(t)' = Slot(t), frame'[t].done = TRUE,
         Filled' = Filled, \A s \in Filled : Held(s)' = Held(s),
         Slot(t) \in Filled => frame'[t].value = Held(Slot(t)),
         Slot(t) \notin Filled => frame'[t].value = Nothing
  PROVE  StoreStep
<1>1. /\ Calls[t].op = "get" /\ Calls[t].slot = Slot(t)
      /\ Calls[t] # Store!NoCall /\ ~Calls[t].done
      /\ Calls' = [Calls EXCEPT ![t].value = frame'[t].value, ![t].done = TRUE]
  BY StoreFinishes DEF Asks
<1>2. Contents' = Contents
  BY DEF Contents
<1>3. frame'[t].value = IF Calls[t].slot \in DOMAIN Contents
                        THEN Contents[Calls[t].slot] ELSE Nothing
  BY <1>1 DEF Contents
<1>4. Store!Get(t)
  BY <1>1, <1>2, <1>3, ContentsAre, ContentsAreNext
  DEF Store!Get, Store!Due, Calls, ContentsSame
<1>5. QED
  BY <1>4 DEF StoreStep, Store!Next

LEMMA StoreReturns ==
  ASSUME CallsInv, NEW t \in Threads, Others(t), Op(t)' = "none",
         Asks(t) => frame[t].done \/ Op(t) = "add",
         Filled' = Filled, \A s \in Filled : Held(s)' = Held(s)
  PROVE  StoreStep
<1>1. CallOf(t)' = Store!NoCall
  BY DEF CallOf, Op, Store!NoCall
<1>2. Contents' = Contents
  BY DEF Contents
<1>3. CASE ~Asks(t)
  <2>1. \A u \in Threads : CallOf(u)' = CallOf(u)
    BY <1>1, <1>3, CallIs, CallsNext DEF CallsInv
  <2>2. QED
    BY <2>1, StoreStutters
<1>4. CASE Asks(t)
  <2>1. /\ Calls[t] # Store!NoCall /\ (Calls[t].done \/ Calls[t].op = "add")
    BY <1>4, CallIs DEF CallsInv, Calls
  <2>2. Calls' = [Calls EXCEPT ![t] = Store!NoCall]
    BY <1>1, CallsNext
  <2>3. Store!Return(t)
    BY <1>2, <2>1, <2>2, ContentsAre, ContentsAreNext DEF Store!Return, Calls, ContentsSame
  <2>4. QED
    BY <2>3 DEF StoreStep, Store!Next
<1>5. QED
  BY <1>3, <1>4

LEMMA StoreCloses ==
  ASSUME CallsInv, AllIdle, Destroyed', UNCHANGED frame
  PROVE  StoreStep
<1>1. \A t \in Threads : CallOf(t) = Store!NoCall /\ CallOf(t)' = CallOf(t)
  BY CallIs DEF CallsInv, CallTypes, AllIdle, Asks, CallOf
<1>2. Contents' = [s \in {} |-> s]
  BY DEF Contents, Filled
<1>3. Calls' = Calls /\ \A t \in Threads : Calls[t] = Store!NoCall
  BY <1>1 DEF Calls
<1> HIDE DEF Contents
<1>4. Store!Close
  BY <1>2, <1>3, ContentsAreNext DEF Store!Close, Calls, ContentsSame
<1>5. QED
  BY <1>4 DEF StoreStep, Store!Next

(* A call goes on, and what it was asked and has answered stays. *)
SameCall(t) ==
  /\ frame'[t].op = frame[t].op /\ frame'[t].slot = frame[t].slot
  /\ frame'[t].value = frame[t].value /\ frame'[t].done = frame[t].done

LEMMA SameCalls ==
  ASSUME CallsInv, NEW t \in Threads, Others(t), SameCall(t), "destroyed" \notin {pc[t], pc'[t]},
         \/ presence' = presence
         \/ Leaver(t) /\ presence' = presence \ {Slot(t)}
  PROVE  Filled' = Filled /\ \A u \in Threads : CallOf(u)' = CallOf(u)
<1>1. \A u \in Threads : /\ Op(u)' = Op(u) /\ Slot(u)' = Slot(u)
                         /\ frame'[u].done = frame[u].done /\ frame'[u].value = frame[u].value
  BY DEF Others, SameCall, Op, Slot
<1>2. Leaving' = Leaving
  BY <1>1 DEF Leaving, Op
<1>3. Leaver(t) => Slot(t) \in Leaving
  BY DEF Leaver, Leaving, Op
<1>4. ~Destroyed /\ ~Destroyed'
  BY DEF CallsInv, Destroyed, Others
<1>5. ASSUME NEW u \in Threads PROVE CallOf(u)' = CallOf(u)
  BY <1>1 DEF CallOf, Op, Slot
<1>6. QED
  BY <1>2, <1>3, <1>4, <1>5 DEF Filled

(* The steps of an add, or a removal, that nobody sees. *)
LEMMA SparseHidden ==
  ASSUME SparseInv, policy = "sparse", policy' = "sparse", NEW t \in Threads,
         \/ Sparse!findPage(t) \/ Sparse!installPage(t) \/ Sparse!allocate(t)
         \/ Sparse!construct(t) \/ Sparse!storeEntry(t) \/ Sparse!giveIndex(t)
         \/ Sparse!eraseEntry(t) \/ Sparse!clearPresence(t)
         \/ /\ Sparse!lookup(t) /\ Slot(t) \in presence
            /\ UNCHANGED <<presence, entries, objects>>
  PROVE  StoreStep
<1>1. CallsInv /\ CallTypes /\ SparseThread(t) /\ frame[t] \in FrameType /\ SparseTypes
  BY DEF SparseInv, CallsInv, CallTypes, FrameType
<1>2. ASSUME Others(t), SameCall(t), "destroyed" \notin {pc[t], pc'[t]},
             \/ presence' = presence
             \/ Leaver(t) /\ presence' = presence \ {Slot(t)},
             \A s \in Counted : /\ entries'[s] = entries[s]
                                /\ objects'[entries[s]] = objects[entries[s]]
      PROVE  StoreStep
  <2>1. \A s \in Filled : Held(s)' = Held(s)
    BY <1>2 DEF Held, Filled, Counted
  <2>2. QED
    BY <1>1, <1>2, <2>1, SameCalls, StoreStutters
<1>3. CASE \/ Sparse!findPage(t) \/ Sparse!installPage(t) \/ Sparse!giveIndex(t)
           \/ /\ Sparse!lookup(t) /\ Slot(t) \in presence
              /\ UNCHANGED <<presence, entries, objects>>
  <2>1. /\ \E l \in {"test", "install", "erase", "read"} : pc' = [pc EXCEPT ![t] = l]
        /\ pc[t] # "destroyed" /\ UNCHANGED <<presence, entries, objects, frame>>
    BY <1>3 DEF Sparse!findPage, Sparse!installPage, Sparse!giveIndex, Sparse!lookup,
                Sparse!Doing, Sparse!Goto, Sparse!Slot, Slot
  <2>2. QED
    BY <1>1, <1>2, <2>1 DEF Others, CallTypes, SameCall
<1>4. CASE Sparse!allocate(t)
  <2>1. /\ pc' = [pc EXCEPT ![t] = "construct"] /\ pc[t] = "test"
        /\ UNCHANGED <<presence, entries, objects>>
        /\ \E i : frame' = [frame EXCEPT ![t].index = i]
    BY <1>4 DEF Sparse!allocate, Sparse!Doing, Sparse!Goto
  <2>2. Others(t) /\ SameCall(t)
    BY <1>1, <2>1 DEF Others, CallTypes, SameCall, FrameType
  <2>3. QED
    BY <1>1, <1>2, <2>1, <2>2 DEF CallTypes
<1>5. CASE Sparse!construct(t)
  <2>1. /\ Op(t) = "add" /\ pc[t] = "construct"
        /\ objects' = [objects EXCEPT ![frame[t].index] = frame[t].value]
        /\ pc' = [pc EXCEPT ![t] = "store"] /\ UNCHANGED <<presence, entries, frame>>
    BY <1>5 DEF Sparse!construct, Sparse!Doing, Sparse!Goto, Sparse!Index, Op
  <2>2. /\ t \in Holding
        /\ \A s \in Counted : entries[s] # frame[t].index /\ entries[s] \in 0 .. MaxIndices - 1
    BY <1>1, <2>1, IndicesTaken DEF SparseInv, IndicesShared, Holding
  <2>3. \A s \in Counted : objects'[entries[s]] = objects[entries[s]]
    BY <1>1, <2>1, <2>2 DEF SparseTypes
  <2>4. QED
    BY <1>1, <1>2, <2>1, <2>3 DEF Others, CallTypes, SameCall
<1>6. CASE Sparse!storeEntry(t) \/ Sparse!eraseEntry(t)
  <2>1. /\ pc[t] \in {"store", "erase"} /\ Op(t) = IF pc[t] = "store" THEN "add" ELSE "remove"
        /\ \E i : entries' = [entries EXCEPT ![Slot(t)] = i]
        /\ \E l \in {"set", "clear"} : pc' = [pc EXCEPT ![t] = l]
        /\ UNCHANGED <<presence, objects, frame>>
    BY <1>6 DEF Sparse!storeEntry, Sparse!eraseEntry, Sparse!Doing, Sparse!Goto, Sparse!Slot,
                Slot, Op
  <2>2. Slot(t) \notin Counted
    BY <1>1, <2>1 DEF SparseThread, Counted, Leaving, Op
  <2>3. \A s \in Counted : entries'[s] = entries[s]
    BY <1>1, <2>1, <2>2 DEF SparseTypes, Counted, CallTypes
  <2>4. QED
    BY <1>1, <1>2, <2>1, <2>3 DEF Others, CallTypes, SameCall
<1>7. CASE Sparse!clearPresence(t)
  <2>1. /\ pc[t] = "clear" /\ Op(t) = "remove" /\ presence' = presence \ {Slot(t)}
        /\ pc' = [pc EXCEPT ![t] = "return"] /\ UNCHANGED <<entries, objects, frame>>
    BY <1>7 DEF Sparse!clearPresence, Sparse!Doing, Sparse!Goto, Sparse!Slot, Slot, Op
  <2>2. Leaver(t)
    BY <1>1, <2>1 DEF SparseThread, Leaver
  <2>3. QED
    BY <1>1, <1>2, <2>1, <2>2 DEF Others, CallTypes, SameCall
<1>8. QED
  BY <1>3, <1>4, <1>5, <1>6, <1>7

(* A call starts. *)
LEMMA StoreAsks ==
  ASSUME CallsInv, NEW t \in Threads, NEW s \in Slots, NEW v \in Values, NEW f, NEW op, NEW l,
         f.op = op, f.slot = s, f.value = v, f.done = FALSE, l # "destroyed",
         pc[t] = "idle", frame' = [frame EXCEPT ![t] = f], pc' = [pc EXCEPT ![t] = l],
         UNCHANGED <<presence, objects, policy>>,
         policy = "sparse" => UNCHANGED entries,
         policy # "sparse" => UNCHANGED storesData,
         \/ op = "add" /\ MayAdd(s)
         \/ op = "get" /\ MayGet(s)
         \/ op = "remove" /\ MayRemove(s)
  PROVE  StoreStep
<1>1. Others(t) /\ frame'[t] = f /\ pc'[t] # "destroyed"
  BY DEF Others, CallsInv, CallTypes
<1>2. \A r \in Filled : Held(r)' = Held(r)
  BY DEF Held
<1>3. QED
  BY <1>1, <1>2, StoreCalls

LEMMA SparseAsks ==
  ASSUME SparseInv, policy = "sparse", policy' = "sparse", NEW t \in Threads, NEW s \in Slots,
         \/ \E v \in Values : Sparse!addComponent(t, s, v)
         \/ Sparse!removeComponent(t, s)
         \/ Sparse!getComponent(t, s) /\ UNCHANGED <<entries, presence, objects>>
  PROVE  StoreStep
<1>1. CallsInv
  BY DEF SparseInv
<1>2. CASE \E v \in Values : Sparse!addComponent(t, s, v)
  <2>1. PICK v \in Values : Sparse!addComponent(t, s, v)
    BY <1>2
  <2> DEFINE f == Frame("add", s, v)
  <2>2. f.op = "add" /\ f.slot = s /\ f.value = v /\ f.done = FALSE
    BY DEF Frame
  <2>3. Sparse!Frame("add", s, v) = f
    BY DEF Frame, Sparse!Frame
  <2> HIDE DEF f
  <2>4. PICK l \in {"page", "table", "test"} :
        /\ MayAdd(s) /\ pc[t] = "idle" /\ frame' = [frame EXCEPT ![t] = f]
        /\ pc' = [pc EXCEPT ![t] = l]
        /\ UNCHANGED <<entries, presence, objects>>
    BY <2>1, <2>3 DEF Sparse!addComponent, Sparse!MayAdd, Sparse!CallsOn, Sparse!Slot,
          MayAdd, CallsOn, Slot, Sparse!Enter, Sparse!Goto
  <2>5. QED
    BY <1>1, <2>2, <2>4, StoreAsks
<1>3. CASE Sparse!getComponent(t, s) /\ UNCHANGED <<entries, presence, objects>>
  <2> DEFINE f == Frame("get", s, Tag)
  <2>1. f.op = "get" /\ f.slot = s /\ f.value = Tag /\ f.done = FALSE
    BY DEF Frame
  <2>2. Sparse!Frame("get", s, Sparse!Tag) = f
    BY DEF Frame, Sparse!Frame, Tag, Sparse!Tag
  <2> HIDE DEF f
  <2>3. /\ MayGet(s) /\ pc[t] = "idle" /\ frame' = [frame EXCEPT ![t] = f]
        /\ pc' = [pc EXCEPT ![t] = "look"]
    BY <1>3, <2>2 DEF Sparse!getComponent, Sparse!MayGet, Sparse!CallsOn, Sparse!Slot,
          MayGet, CallsOn, Slot, Sparse!Enter, Sparse!Goto
  <2>4. QED
    BY <1>1, <1>3, <2>1, <2>3, TagIs, StoreAsks
<1>4. CASE Sparse!removeComponent(t, s)
  <2> DEFINE f == [Frame("remove", s, Tag) EXCEPT !.index = entries[s]]
  <2>1. f.op = "remove" /\ f.slot = s /\ f.value = Tag /\ f.done = FALSE
    BY DEF Frame
  <2>2. [Sparse!Frame("remove", s, Sparse!Tag) EXCEPT !.index = entries[s]] = f
    BY DEF Frame, Sparse!Frame, Tag, Sparse!Tag
  <2> HIDE DEF f
  <2>3. PICK l \in {"destroy", "clear"} :
        /\ MayRemove(s) /\ pc[t] = "idle" /\ frame' = [frame EXCEPT ![t] = f]
        /\ pc' = [pc EXCEPT ![t] = l]
        /\ UNCHANGED <<entries, presence, objects>>
    BY <1>4, <2>2 DEF Sparse!removeComponent, Sparse!MayRemove, Sparse!CallsOn, Sparse!Slot,
          MayRemove, CallsOn, Slot, Sparse!Enter, Sparse!Goto
  <2>4. QED
    BY <1>1, <2>1, <2>3, TagIs, StoreAsks
<1>5. QED
  BY <1>2, <1>3, <1>4

LEMMA ColumnAsks ==
  ASSUME ColumnInv, policy = "column", policy' = "column", NEW t \in Threads, NEW s \in Slots,
         \/ \E v \in Values : Column!addComponent(t, s, v)
         \/ Column!removeComponent(t, s)
         \/ Column!getComponent(t, s) /\ UNCHANGED <<storesData, presence, objects>>
  PROVE  StoreStep
<1>1. CallsInv
  BY DEF ColumnInv
<1>2. CASE \E v \in Values : Column!addComponent(t, s, v)
  <2>1. PICK v \in Values : Column!addComponent(t, s, v)
    BY <1>2
  <2> DEFINE f == Frame("add", s, v)
  <2>2. f.op = "add" /\ f.slot = s /\ f.value = v /\ f.done = FALSE
    BY DEF Frame
  <2>3. Column!Frame("add", s, v) = f
    BY DEF Frame, Column!Frame
  <2> HIDE DEF f
  <2>4. PICK l \in {"page", "table", "test"} :
        /\ MayAdd(s) /\ pc[t] = "idle" /\ frame' = [frame EXCEPT ![t] = f]
        /\ pc' = [pc EXCEPT ![t] = l]
        /\ UNCHANGED <<storesData, presence, objects>>
    BY <2>1, <2>3 DEF Column!addComponent, Column!MayAdd, Column!CallsOn, Column!Slot,
          MayAdd, CallsOn, Slot, Column!Enter, Column!Goto
  <2>5. QED
    BY <1>1, <2>2, <2>4, StoreAsks
<1>3. CASE Column!getComponent(t, s) /\ UNCHANGED <<storesData, presence, objects>>
  <2> DEFINE f == Frame("get", s, Tag)
  <2>1. f.op = "get" /\ f.slot = s /\ f.value = Tag /\ f.done = FALSE
    BY DEF Frame
  <2>2. Column!Frame("get", s, Column!Tag) = f
    BY DEF Frame, Column!Frame, Tag, Column!Tag
  <2> HIDE DEF f
  <2>3. /\ MayGet(s) /\ pc[t] = "idle" /\ frame' = [frame EXCEPT ![t] = f]
        /\ pc' = [pc EXCEPT ![t] = "look"]
    BY <1>3, <2>2 DEF Column!getComponent, Column!MayGet, Column!CallsOn, Column!Slot,
          MayGet, CallsOn, Slot, Column!Enter, Column!Goto
  <2>4. QED
    BY <1>1, <1>3, <2>1, <2>3, TagIs, StoreAsks
<1>4. CASE Column!removeComponent(t, s)
  <2> DEFINE f == Frame("remove", s, Tag)
  <2>1. f.op = "remove" /\ f.slot = s /\ f.value = Tag /\ f.done = FALSE
    BY DEF Frame
  <2>2. Column!Frame("remove", s, Column!Tag) = f
    BY DEF Frame, Column!Frame, Tag, Column!Tag
  <2> HIDE DEF f
  <2>3. PICK l \in {"destroy", "clear"} :
        /\ MayRemove(s) /\ pc[t] = "idle" /\ frame' = [frame EXCEPT ![t] = f]
        /\ pc' = [pc EXCEPT ![t] = l]
        /\ UNCHANGED <<storesData, presence, objects>>
    BY <1>4, <2>2 DEF Column!removeComponent, Column!MayRemove, Column!CallsOn, Column!Slot,
          MayRemove, CallsOn, Slot, Column!Enter, Column!Goto
  <2>4. QED
    BY <1>1, <2>1, <2>3, TagIs, StoreAsks
<1>5. QED
  BY <1>2, <1>3, <1>4

(* Where an add takes effect, and a removal. *)
LEMMA FilledNext ==
  ASSUME CallsInv, NEW t \in Threads, Others(t), Op(t)' = Op(t), Slot(t)' = Slot(t),
         "destroyed" \notin {pc[t], pc'[t]}
  PROVE  /\ ~Destroyed
         /\ (/\ Op(t) = "add" /\ presence' = presence \cup {Slot(t)})
              => Filled' = Filled \cup {Slot(t)}
         /\ (/\ Op(t) = "remove" /\ frame[t].done = FALSE /\ frame'[t].done = TRUE
             /\ \/ presence' = presence
                \/ presence' = presence \ {Slot(t)})
              => Filled' = Filled \ {Slot(t)}
         /\ (Op(t) = "get" /\ presence' = presence) => Filled' = Filled
<1>1. \A u \in Threads \ {t} :
        frame'[u] = frame[u] /\ Op(u)' = Op(u) /\ Slot(u)' = Slot(u)
  BY DEF Others, Op, Slot
<1>2. ~Destroyed /\ ~Destroyed'
  BY DEF CallsInv, Destroyed, Others
<1>3. Op(t) # "remove" => Leaving' = Leaving
  BY <1>1 DEF Leaving, Op
<1>4. Op(t) = "remove" /\ frame[t].done = FALSE /\ frame'[t].done = TRUE
        => Leaving' = Leaving \cup {Slot(t)}
  BY <1>1 DEF Leaving, Op
<1>5. Op(t) = "add" => Slot(t) \notin Leaving
  BY DEF Leaving, CallsInv, CallsApart, Op
<1>6. QED
  BY <1>2, <1>3, <1>4, <1>5 DEF Filled

LEMMA SparsePuts ==
  ASSUME SparseInv, policy = "sparse", policy' = "sparse", NEW t \in Threads,
         Sparse!overwrite(t) \/ Sparse!setPresence(t)
  PROVE  StoreStep
<1>1. /\ CallsInv /\ CallTypes /\ SparseThread(t) /\ frame[t] \in FrameType /\ SparseTypes
      /\ IndicesShared
  BY DEF SparseInv, CallsInv, CallTypes, FrameType
<1> DEFINE g == [frame[t] EXCEPT !.done = TRUE]
<1>0. PICK s, v : s = Slot(t) /\ v = frame[t].value
  OBVIOUS
<1>2. g.op = Op(t) /\ g.slot = s /\ g.value = v /\ g.done = TRUE
  BY <1>0, <1>1, FrameSet DEF Op, Slot
<1>3. /\ Op(t) = "add" /\ pc[t] \in {"test", "set"}
      /\ frame' = [frame EXCEPT ![t] = g] /\ pc' = [pc EXCEPT ![t] = "return"]
      /\ pc[t] = "test" => /\ s \in presence /\ UNCHANGED <<entries, presence>>
                           /\ objects' = [objects EXCEPT ![entries[s]] = v]
      /\ pc[t] = "set" => presence' = presence \cup {s} /\ UNCHANGED <<entries, objects>>
  BY <1>0, <1>1 DEF Sparse!overwrite, Sparse!setPresence, Sparse!Doing, Sparse!Effect,
     Sparse!Goto, Sparse!Slot, Sparse!Entry, Slot, Op, CallTypes
<1> HIDE DEF g
<1>4. /\ Others(t) /\ frame'[t] = g /\ pc'[t] = "return" /\ Op(t)' = Op(t) /\ Slot(t)' = Slot(t)
  BY <1>0, <1>1, <1>2, <1>3 DEF Others, CallTypes, Op, Slot
<1>5. s \in Slots /\ frame[t].done = FALSE
  BY <1>0, <1>1, <1>3 DEF CallTypes, SparseThread
<1>6. Filled' = Filled \cup {s} /\ ~Destroyed
  <2>1. presence' = presence \cup {s}
    BY <1>3
  <2>2. "destroyed" \notin {pc[t], pc'[t]}
    BY <1>3, <1>4
  <2>3. QED
    BY <1>0, <1>1, <1>3, <1>4, <2>1, <2>2, FilledNext
<1>7. \A r \in Filled' : Held(r)' = IF r = s THEN v ELSE Held(r)
  <2>1. CASE pc[t] = "test"
    <3>1. s \in Counted
      BY <1>0, <1>1, <1>3, <2>1, PresentCounted
    <3>2. \A r \in Filled' : r \in Counted /\ (r # s => entries[r] # entries[s])
      BY <1>1, <1>6, <3>1 DEF IndicesShared, Filled, Counted
    <3>3. \A r \in Filled' : entries[r] \in 0 .. MaxIndices - 1
      BY <1>1, <3>2, IndicesTaken
    <3>4. \A r \in Filled' : objects'[entries[r]] = IF r = s THEN v ELSE objects[entries[r]]
      BY <1>1, <1>3, <2>1, <3>2, <3>3 DEF SparseTypes
    <3>5. QED
      BY <1>3, <2>1, <3>4 DEF Held
  <2>2. CASE pc[t] = "set"
    <3>1. objects[entries[s]] = v
      BY <1>0, <1>1, <1>3, <2>2 DEF SparseThread
    <3>2. QED
      BY <1>3, <2>2, <3>1 DEF Held
  <2>3. QED
    BY <1>3, <2>1, <2>2
<1>8. QED
  BY <1>0, <1>1, <1>2, <1>3, <1>4, <1>5, <1>6, <1>7, StorePuts

LEMMA SparseRemoves ==
  ASSUME SparseInv, policy = "sparse", policy' = "sparse", NEW t \in Threads,
         Sparse!destroyObject(t)
  PROVE  StoreStep
<1>1. /\ CallsInv /\ CallTypes /\ SparseThread(t) /\ frame[t] \in FrameType /\ SparseTypes
      /\ IndicesShared
  BY DEF SparseInv, CallsInv, CallTypes, FrameType
<1> DEFINE g == [frame[t] EXCEPT !.done = TRUE]
<1>2. g.op = Op(t) /\ g.slot = Slot(t) /\ g.value = frame[t].value /\ g.done = TRUE
  BY <1>1, FrameSet DEF Op, Slot
<1>3. /\ Op(t) = "remove" /\ pc[t] = "destroy"
      /\ frame' = [frame EXCEPT ![t] = g] /\ pc' = [pc EXCEPT ![t] = "give"]
      /\ objects' = [objects EXCEPT ![frame[t].index] = Raw] /\ UNCHANGED <<presence, entries>>
  BY <1>1 DEF Sparse!destroyObject, Sparse!Doing, Sparse!Effect, Sparse!Index,
     Sparse!Goto, Op, CallTypes
<1> HIDE DEF g
<1>4. /\ Others(t) /\ frame'[t] = g /\ pc'[t] = "give" /\ Op(t)' = Op(t) /\ Slot(t)' = Slot(t)
  BY <1>1, <1>2, <1>3 DEF Others, CallTypes, Op, Slot
<1>5. frame[t].done = FALSE /\ frame[t].index = entries[Slot(t)] /\ Slot(t) \in presence
  BY <1>1, <1>3 DEF CallTypes, SparseThread
<1>6. Filled' = Filled \ {Slot(t)} /\ ~Destroyed
  BY <1>1, <1>2, <1>3, <1>4, <1>5, FilledNext
<1>7. Slot(t) \in Counted
  BY <1>1, <1>3, <1>5 DEF Counted, Leaving, CallsInv, CallsApart, Op
<1>8. \A r \in Filled' : Held(r)' = Held(r)
  <2>1. \A r \in Filled' : r \in Counted /\ entries[r] # entries[Slot(t)]
    BY <1>1, <1>6, <1>7 DEF IndicesShared, Filled, Counted
  <2>2. \A r \in Filled' : entries[r] \in 0 .. MaxIndices - 1
    BY <1>1, <2>1, IndicesTaken
  <2>3. QED
    BY <1>1, <1>3, <1>5, <2>1, <2>2 DEF Held, SparseTypes
<1>9. QED
  BY <1>1, <1>2, <1>3, <1>4, <1>5, <1>6, <1>8, StoreRemoves

LEMMA SparseGets ==
  ASSUME SparseInv, policy = "sparse", policy' = "sparse", NEW t \in Threads,
         UNCHANGED <<presence, entries, objects>>,
         \/ Sparse!lookup(t) /\ Slot(t) \notin presence
         \/ Sparse!readObject(t)
  PROVE  StoreStep
<1>1. CallsInv /\ CallTypes /\ SparseThread(t) /\ frame[t] \in FrameType
  BY DEF SparseInv, CallsInv, CallTypes, FrameType
<1>2. PICK v :
        /\ Op(t) = "get" /\ pc[t] \in {"look", "read"}
        /\ frame' = [frame EXCEPT ![t].value = v, ![t].done = TRUE]
        /\ pc' = [pc EXCEPT ![t] = "return"]
        /\ pc[t] = "read" => v = objects[entries[Slot(t)]]
        /\ pc[t] = "look" => v = Nothing /\ Slot(t) \notin presence
  BY DEF Sparse!lookup, Sparse!readObject, Sparse!ReadAs, Sparse!Doing, Sparse!Goto, Sparse!Slot,
         Sparse!Entry, Slot, Op
<1> DEFINE g == [frame[t] EXCEPT !.value = v, !.done = TRUE]
<1>3. g.op = Op(t) /\ g.slot = Slot(t) /\ g.value = v /\ g.done = TRUE
  BY <1>1 DEF FrameType, Op, Slot
<1>4. Others(t) /\ frame'[t] = g /\ pc'[t] = "return"
  BY <1>1, <1>2 DEF Others, CallTypes
<1> HIDE DEF g
<1>5. Op(t)' = Op(t) /\ Slot(t)' = Slot(t)
  BY <1>3, <1>4 DEF Op, Slot
<1>6. frame[t].done = FALSE /\ (pc[t] = "read" => Slot(t) \in presence)
  BY <1>1, <1>2 DEF CallTypes, SparseThread
<1>7. Filled' = Filled /\ ~Destroyed
  BY <1>1, <1>2, <1>4, <1>5, FilledNext
<1>8. Slot(t) \in presence => Slot(t) \in Filled
  BY <1>1, <1>2, <1>7, PresentCounted DEF Filled, Counted
<1>9. /\ Slot(t) \in Filled => v = Held(Slot(t))
      /\ Slot(t) \notin Filled => v = Nothing
  BY <1>2, <1>6, <1>8 DEF Held, Filled
<1>10. \A s \in Filled : Held(s)' = Held(s)
  BY DEF Held
<1>11. QED
  BY <1>1, <1>2, <1>3, <1>4, <1>5, <1>6, <1>7, <1>9, <1>10, StoreGets

(* A call returns, or its constructor throws. *)
LEMMA ReturnsFilled ==
  ASSUME CallsInv, NEW t \in Threads, Others(t), Op(t)' = "none", pc[t] # "destroyed",
         pc'[t] # "destroyed", UNCHANGED presence, Leaver(t) => Slot(t) \notin presence
  PROVE  Filled' = Filled
<1>1. \A u \in Threads \ {t} :
        frame'[u] = frame[u] /\ Op(u)' = Op(u) /\ Slot(u)' = Slot(u)
  BY DEF Others, Op, Slot
<1>2. ~Destroyed /\ ~Destroyed'
  BY DEF CallsInv, Destroyed, Others
<1>3. presence \ Leaving' = presence \ Leaving
  BY <1>1 DEF Leaving, Leaver, Op
<1>4. QED
  BY <1>2, <1>3 DEF Filled

LEMMA SparseLeaves ==
  ASSUME SparseInv, policy = "sparse", policy' = "sparse", NEW t \in Threads,
         \/ Sparse!return(t) /\ UNCHANGED <<pages, entries, taken, size>>
         \/ Sparse!constructorThrows(t)
  PROVE  StoreStep
<1>1. CallsInv /\ CallTypes /\ SparseThread(t)
  BY DEF SparseInv, CallsInv
<1>2. /\ \/ pc[t] = "return"
         \/ Op(t) = "add" /\ pc[t] = "construct"
      /\ UNCHANGED <<entries, presence, objects>>
      /\ frame' = [frame EXCEPT ![t] = NoFrame(Tag)] /\ pc' = [pc EXCEPT ![t] = "idle"]
  BY DEF Sparse!return, Sparse!constructorThrows, Sparse!Doing, Sparse!Leave, Sparse!Goto,
         Sparse!NoFrame, Sparse!Frame, Sparse!Tag, NoFrame, Frame, Tag, Op
<1>3. Others(t) /\ pc'[t] = "idle" /\ Op(t)' = "none"
  BY <1>1, <1>2, NoFrameIs DEF Others, CallTypes, Op
<1>4. /\ Asks(t) => frame[t].done \/ Op(t) = "add"
      /\ Leaver(t) => Slot(t) \notin presence
  BY <1>1, <1>2 DEF SparseThread, Asks, Leaver
<1>5. Filled' = Filled
  BY <1>1, <1>2, <1>3, <1>4, ReturnsFilled
<1>6. \A s \in Filled : Held(s)' = Held(s)
  BY <1>2 DEF Held
<1>7. QED
  BY <1>1, <1>3, <1>4, <1>5, <1>6, StoreReturns

LEMMA SparseImplements ==
  ASSUME SparseInv, policy = "sparse", policy' = "sparse", Sparse!SparseNext
  PROVE  StoreStep
<1>1. CASE Sparse!destroyStorage
  <2>1. AllIdle /\ Destroyed' /\ UNCHANGED frame
    BY <1>1, StorageAssumptions DEF Sparse!destroyStorage, Sparse!AllIdle, AllIdle, Destroyed
  <2>2. QED
    BY <2>1, StoreCloses DEF SparseInv
<1>2. ASSUME NEW t \in Threads, NEW s \in Slots,
             \/ \E v \in Values : Sparse!addComponent(t, s, v)
             \/ Sparse!removeComponent(t, s)
             \/ Sparse!getComponent(t, s) /\ UNCHANGED <<entries, presence, objects>>
      PROVE  StoreStep
  BY <1>2, SparseAsks
<1>3. ASSUME NEW t \in Threads,
             \/ Sparse!findPage(t) \/ Sparse!installPage(t) \/ Sparse!overwrite(t)
             \/ Sparse!allocate(t) \/ Sparse!construct(t) \/ Sparse!constructorThrows(t)
             \/ Sparse!storeEntry(t) \/ Sparse!setPresence(t) \/ Sparse!destroyObject(t)
             \/ Sparse!giveIndex(t) \/ Sparse!eraseEntry(t) \/ Sparse!clearPresence(t)
      PROVE  StoreStep
  BY <1>3, SparseHidden, SparsePuts, SparseRemoves, SparseLeaves
<1>4. ASSUME NEW t \in Threads,
             \/ Sparse!lookup(t) /\ UNCHANGED <<presence, entries, objects>>
             \/ Sparse!readObject(t)
             \/ Sparse!return(t) /\ UNCHANGED <<pages, entries, taken, size>>
      PROVE  StoreStep
  <2>1. Sparse!readObject(t) => UNCHANGED <<presence, entries, objects>>
    BY DEF Sparse!readObject
  <2>2. QED
    BY <1>4, <2>1, SparseHidden, SparseGets, SparseLeaves
<1>5. QED
  BY <1>1, <1>2, <1>3, <1>4 DEF Sparse!SparseNext, Sparse!poolState

LEMMA ColumnReserves ==
  ASSUME ColumnInv, policy = "column", policy' = "column", NEW t \in Threads,
         NEW n \in Reservations, Column!reserve(t, n)
  PROVE  StoreStep
<1>1. CallsInv /\ CallTypes
  BY DEF ColumnInv, CallsInv
<1> DEFINE f == [NoFrame(Tag) EXCEPT !.op = "reserve",
                   !.target = (n + BlockSize - 1) \div BlockSize]
<1>2. /\ f.op = "reserve" /\ f.done = FALSE
      /\ [Column!NoFrame(Column!Tag) EXCEPT !.op = "reserve",
            !.target = (n + BlockSize - 1) \div BlockSize] = f
  BY DEF NoFrame, Frame, Column!NoFrame, Column!Frame, Tag, Column!Tag
<1> HIDE DEF f
<1>3. /\ pc[t] = "idle" /\ frame' = [frame EXCEPT ![t] = f] /\ pc' = [pc EXCEPT ![t] = "table"]
      /\ UNCHANGED <<storesData, presence, objects>>
  BY <1>2 DEF Column!reserve, Column!Enter, Column!Goto
<1>4. Others(t) /\ frame'[t] = f /\ pc'[t] = "table" /\ Op(t) = "none"
  BY <1>1, <1>3 DEF Others, CallTypes
<1>5. \A u \in Threads : CallOf(u)' = CallOf(u)
  <2>1. CallOf(t) = [op |-> "none"] /\ CallOf(t)' = [op |-> "none"]
    BY <1>2, <1>4 DEF CallOf, Op
  <2>2. QED
    BY <1>4, <2>1, CallsNext
<1>6. Leaving' = Leaving
  <2>1. \A u \in Threads : /\ Leaver(u)' <=> Leaver(u)
                           /\ Leaver(u) => Slot(u)' = Slot(u)
    BY <1>2, <1>4 DEF Leaver, Others, Slot, Op
  <2>2. QED
    BY <2>1 DEF Leaving, Leaver, Op
<1>7. Filled' = Filled
  BY <1>1, <1>3, <1>4, <1>6 DEF Filled, CallsInv, Destroyed, Others
<1>8. \A s \in Filled : Held(s)' = Held(s)
  BY <1>3 DEF Held
<1>9. QED
  BY <1>5, <1>7, <1>8, StoreStutters

LEMMA ColumnHidden ==
  ASSUME ColumnInv, policy = "column", policy' = "column", NEW t \in Threads,
         \/ Column!findTable(t) \/ Column!installTable(t)
         \/ Column!findBlock(t) \/ Column!installBlock(t)
         \/ Column!absent(t) \/ Column!construct(t) \/ Column!countBlock(t) \/ Column!count(t)
         \/ Column!clearPresence(t) /\ storesData
         \/ Column!uncountBlock(t) \/ Column!uncount(t)
         \/ /\ Column!lookup(t) /\ Slot(t) \in presence
            /\ UNCHANGED <<storesData, presence, objects>>
  PROVE  StoreStep
<1>1. CallsInv /\ CallTypes /\ ColumnThread(t) /\ frame[t] \in FrameType /\ ColumnTypes
  BY DEF ColumnInv, CallsInv, CallTypes, FrameType
<1>2. ASSUME Others(t), SameCall(t), "destroyed" \notin {pc[t], pc'[t]}, UNCHANGED storesData,
             \/ presence' = presence
             \/ Leaver(t) /\ presence' = presence \ {Slot(t)},
             \A s \in presence : objects'[s] = objects[s]
      PROVE  StoreStep
  <2>1. \A s \in Filled : Held(s)' = Held(s)
    BY <1>2 DEF Held, Filled
  <2>2. QED
    BY <1>1, <1>2, <2>1, SameCalls, StoreStutters
<1>3. CASE \/ Column!findTable(t) \/ Column!installTable(t)
           \/ Column!findBlock(t) \/ Column!installBlock(t)
  BY <1>2, <1>3, TableSteps, BlockSteps DEF MemoryStep, SameCall, Op, Slot
<1>4. CASE \/ Column!absent(t) \/ Column!countBlock(t) \/ Column!count(t)
           \/ Column!uncountBlock(t) \/ Column!uncount(t)
           \/ /\ Column!lookup(t) /\ Slot(t) \in presence
              /\ UNCHANGED <<storesData, presence, objects>>
  <2>1. /\ \E l \in {"construct", "table", "count", "uncount", "return", "read"} :
             pc' = [pc EXCEPT ![t] = l]
        /\ pc[t] # "destroyed" /\ UNCHANGED <<storesData, presence, objects, frame>>
    BY <1>4 DEF Column!absent, Column!countBlock, Column!count, Column!uncountBlock,
                Column!uncount, Column!lookup, Column!Doing, Column!Goto, Column!Slot, Slot
  <2>2. QED
    BY <1>1, <1>2, <2>1 DEF Others, CallTypes, SameCall
<1>5. CASE Column!construct(t)
  <2>1. /\ Op(t) = "add" /\ pc[t] = "construct"
        /\ objects' = [objects EXCEPT ![Slot(t)] = frame[t].value]
        /\ pc' = [pc EXCEPT ![t] = "set"] /\ UNCHANGED <<storesData, presence, frame>>
    BY <1>5 DEF Column!construct, Column!Doing, Column!Goto, Column!Slot, Slot, Op
  <2>2. Slot(t) \notin presence
    BY <1>1, <2>1 DEF ColumnThread
  <2>3. \A s \in presence : objects'[s] = objects[s]
    BY <1>1, <2>1, <2>2 DEF ColumnTypes, CallTypes
  <2>4. QED
    BY <1>1, <1>2, <2>1, <2>3 DEF Others, CallTypes, SameCall
<1>6. CASE Column!clearPresence(t) /\ storesData
  <2> DEFINE g == [frame[t] EXCEPT !.done = TRUE]
  <2>1. g.op = Op(t) /\ g.slot = Slot(t) /\ g.value = frame[t].value /\ g.done = TRUE
    BY <1>1, FrameSet DEF Op, Slot
  <2>2. /\ pc[t] = "clear" /\ Op(t) = "remove" /\ presence' = presence \ {Slot(t)}
        /\ frame' = [frame EXCEPT ![t] = g]
        /\ pc' = [pc EXCEPT ![t] = "uncountBlock"] /\ UNCHANGED <<storesData, objects>>
    BY <1>1, <1>6 DEF Column!clearPresence, Column!Doing, Column!Goto, Column!Effect,
       Column!Slot, Slot, Op, CallTypes
  <2> HIDE DEF g
  <2>3. frame[t].done = TRUE
    BY <1>1, <1>6, <2>2 DEF ColumnThread, CallTypes
  <2>4. Others(t) /\ SameCall(t) /\ pc'[t] = "uncountBlock"
    BY <1>1, <2>1, <2>2, <2>3 DEF Others, CallTypes, SameCall, Op, Slot
  <2>5. QED
    BY <1>2, <2>2, <2>3, <2>4 DEF Leaver
<1>7. QED
  BY <1>3, <1>4, <1>5, <1>6

LEMMA ColumnPuts ==
  ASSUME ColumnInv, policy = "column", policy' = "column", NEW t \in Threads,
         Column!overwrite(t) \/ Column!setPresence(t)
  PROVE  StoreStep
<1>1. CallsInv /\ CallTypes /\ ColumnThread(t) /\ frame[t] \in FrameType /\ ColumnTypes
  BY DEF ColumnInv, CallsInv, CallTypes, FrameType
<1> DEFINE g == [frame[t] EXCEPT !.done = TRUE]
<1>0. PICK s, v : s = Slot(t) /\ v = frame[t].value
  OBVIOUS
<1>2. g.op = Op(t) /\ g.slot = s /\ g.value = v /\ g.done = TRUE
  BY <1>0, <1>1, FrameSet DEF Op, Slot
<1>3. /\ Op(t) = "add" /\ pc[t] \in {"test", "set"}
      /\ frame' = [frame EXCEPT ![t] = g]
      /\ \E l \in {"return", "countBlock"} : pc' = [pc EXCEPT ![t] = l]
      /\ UNCHANGED storesData
      /\ pc[t] = "test" =>
           /\ s \in presence /\ UNCHANGED presence
           /\ objects' = IF storesData THEN [objects EXCEPT ![s] = v] ELSE objects
      /\ pc[t] = "set" => presence' = presence \cup {s} /\ UNCHANGED objects
  BY <1>0, <1>1 DEF Column!overwrite, Column!setPresence, Column!Doing, Column!Effect,
     Column!Goto, Column!Slot, Slot, Op, CallTypes
<1> HIDE DEF g
<1>4. /\ Others(t) /\ frame'[t] = g /\ pc'[t] \in {"return", "countBlock"}
      /\ Op(t)' = Op(t) /\ Slot(t)' = Slot(t)
  BY <1>0, <1>1, <1>2, <1>3 DEF Others, CallTypes, Op, Slot
<1>5. s \in Slots /\ frame[t].done = FALSE /\ (storesData \/ v = Tag)
  BY <1>0, <1>1, <1>3 DEF CallTypes, ColumnThread
<1>6. Filled' = Filled \cup {s} /\ ~Destroyed
  <2>1. presence' = presence \cup {s}
    BY <1>3
  <2>2. "destroyed" \notin {pc[t], pc'[t]}
    BY <1>3, <1>4
  <2>3. QED
    BY <1>0, <1>1, <1>3, <1>4, <2>1, <2>2, FilledNext
<1>7. \A r \in Filled' : Held(r)' = IF r = s THEN v ELSE Held(r)
  <2>1. CASE storesData
    <3>1. pc[t] = "set" => objects[s] = v
      BY <1>0, <1>1, <1>3, <2>1 DEF ColumnThread
    <3>2. \A r \in Filled' : r \in Slots
      BY <1>1, <1>5, <1>6 DEF Filled, CallTypes
    <3>3. \A r \in Filled' : objects'[r] = IF r = s THEN v ELSE objects[r]
      BY <1>1, <1>3, <2>1, <3>1, <3>2 DEF ColumnTypes
    <3>4. QED
      BY <1>3, <2>1, <3>3 DEF Held
  <2>2. CASE ~storesData
    BY <1>3, <1>5, <2>2 DEF Held
  <2>3. QED
    BY <2>1, <2>2
<1>8. QED
  BY <1>0, <1>1, <1>2, <1>3, <1>4, <1>5, <1>6, <1>7, StorePuts

LEMMA ColumnRemoves ==
  ASSUME ColumnInv, policy = "column", policy' = "column", NEW t \in Threads,
         \/ Column!destroyObject(t)
         \/ Column!clearPresence(t) /\ ~storesData
  PROVE  StoreStep
<1>1. CallsInv /\ CallTypes /\ ColumnThread(t) /\ frame[t] \in FrameType /\ ColumnTypes
  BY DEF ColumnInv, CallsInv, CallTypes, FrameType
<1> DEFINE g == [frame[t] EXCEPT !.done = TRUE]
<1>2. g.op = Op(t) /\ g.slot = Slot(t) /\ g.value = frame[t].value /\ g.done = TRUE
  BY <1>1, FrameSet DEF Op, Slot
<1>3. /\ Op(t) = "remove" /\ pc[t] \in {"destroy", "clear"} /\ UNCHANGED storesData
      /\ frame' = [frame EXCEPT ![t] = g]
      /\ \E l \in {"clear", "uncountBlock"} : pc' = [pc EXCEPT ![t] = l]
      /\ pc[t] = "destroy" => objects' = [objects EXCEPT ![Slot(t)] = Raw] /\ UNCHANGED presence
      /\ pc[t] = "clear" =>
           ~storesData /\ presence' = presence \ {Slot(t)} /\ UNCHANGED objects
  BY <1>1 DEF Column!destroyObject, Column!clearPresence, Column!Doing, Column!Effect,
     Column!Goto, Column!Slot, Slot, Op, CallTypes
<1> HIDE DEF g
<1>4. /\ Others(t) /\ frame'[t] = g /\ pc'[t] \in {"clear", "uncountBlock"}
      /\ Op(t)' = Op(t) /\ Slot(t)' = Slot(t)
  BY <1>1, <1>2, <1>3 DEF Others, CallTypes, Op, Slot
<1>5. frame[t].done = FALSE
  BY <1>1, <1>3 DEF CallTypes, ColumnThread
<1>6. Filled' = Filled \ {Slot(t)}
  BY <1>1, <1>2, <1>3, <1>4, <1>5, FilledNext
<1>7. \A r \in Filled' : Held(r)' = Held(r)
  <2>1. \A r \in Filled' : r \in Slots /\ r # Slot(t)
    BY <1>1, <1>6 DEF Filled, CallTypes
  <2>2. \A r \in Filled' : objects'[r] = objects[r]
    BY <1>1, <1>3, <2>1 DEF ColumnTypes
  <2>3. QED
    BY <1>3, <2>2 DEF Held
<1>8. QED
  BY <1>1, <1>2, <1>3, <1>4, <1>5, <1>6, <1>7, StoreRemoves

LEMMA ColumnGets ==
  ASSUME ColumnInv, policy = "column", policy' = "column", NEW t \in Threads,
         UNCHANGED <<storesData, presence, objects>>,
         \/ Column!lookup(t) /\ Slot(t) \notin presence
         \/ Column!readObject(t)
  PROVE  StoreStep
<1>1. CallsInv /\ CallTypes /\ ColumnThread(t) /\ frame[t] \in FrameType
  BY DEF ColumnInv, CallsInv, CallTypes, FrameType
<1>0. PICK v : v = IF pc[t] = "look" THEN Nothing
                   ELSE IF storesData THEN objects[Slot(t)] ELSE Tag
  OBVIOUS
<1>2. /\ Op(t) = "get" /\ pc[t] \in {"look", "read"}
      /\ frame' = [frame EXCEPT ![t].value = v, ![t].done = TRUE]
      /\ pc' = [pc EXCEPT ![t] = "return"]
      /\ pc[t] = "look" => Slot(t) \notin presence
  BY <1>0 DEF Column!lookup, Column!readObject, Column!ReadAs, Column!Doing, Column!Goto, Column!Slot,
         Column!Tag, Tag, Slot, Op
<1> DEFINE g == [frame[t] EXCEPT !.value = v, !.done = TRUE]
<1>3. g.op = Op(t) /\ g.slot = Slot(t) /\ g.value = v /\ g.done = TRUE
  BY <1>1 DEF FrameType, Op, Slot
<1>4. Others(t) /\ frame'[t] = g /\ pc'[t] = "return"
  BY <1>1, <1>2 DEF Others, CallTypes
<1> HIDE DEF g
<1>5. Op(t)' = Op(t) /\ Slot(t)' = Slot(t)
  BY <1>3, <1>4 DEF Op, Slot
<1>6. frame[t].done = FALSE /\ (pc[t] = "read" => Slot(t) \in presence)
  BY <1>1, <1>2 DEF CallTypes, ColumnThread
<1>7. Filled' = Filled /\ ~Destroyed
  BY <1>1, <1>2, <1>4, <1>5, FilledNext
<1>8. Slot(t) \in presence => Slot(t) \in Filled
  BY <1>1, <1>2, <1>7, PresentCounted DEF Filled, Counted
<1>9. /\ Slot(t) \in Filled => v = Held(Slot(t))
      /\ Slot(t) \notin Filled => v = Nothing
  BY <1>0, <1>2, <1>6, <1>8 DEF Held, Filled
<1>10. \A s \in Filled : Held(s)' = Held(s)
  BY DEF Held
<1>11. QED
  BY <1>1, <1>2, <1>3, <1>4, <1>5, <1>6, <1>7, <1>9, <1>10, StoreGets

LEMMA ColumnLeaves ==
  ASSUME ColumnInv, policy = "column", policy' = "column", NEW t \in Threads,
         \/ Column!return(t) /\ UNCHANGED storesData
         \/ Column!constructorThrows(t)
  PROVE  StoreStep
<1>1. CallsInv /\ CallTypes /\ ColumnThread(t)
  BY DEF ColumnInv, CallsInv
<1>2. /\ \/ pc[t] = "return"
         \/ Op(t) = "add" /\ pc[t] = "construct"
      /\ UNCHANGED <<storesData, presence, objects>>
      /\ frame' = [frame EXCEPT ![t] = NoFrame(Tag)] /\ pc' = [pc EXCEPT ![t] = "idle"]
  BY DEF Column!return, Column!constructorThrows, Column!Doing, Column!Leave, Column!Goto,
         Column!NoFrame, Column!Frame, Column!Tag, NoFrame, Frame, Tag, Op
<1>3. Others(t) /\ pc'[t] = "idle" /\ Op(t)' = "none"
  BY <1>1, <1>2, NoFrameIs DEF Others, CallTypes, Op
<1>4. /\ Asks(t) => frame[t].done \/ Op(t) = "add"
      /\ Leaver(t) => Slot(t) \notin presence
  BY <1>1, <1>2 DEF ColumnThread, Asks, Leaver
<1>5. Filled' = Filled
  BY <1>1, <1>2, <1>3, <1>4, ReturnsFilled
<1>6. \A s \in Filled : Held(s)' = Held(s)
  BY <1>2 DEF Held
<1>7. QED
  BY <1>1, <1>3, <1>4, <1>5, <1>6, StoreReturns

LEMMA ColumnImplements ==
  ASSUME ColumnInv, policy = "column", policy' = "column", Column!ColumnNext
  PROVE  StoreStep
<1>1. CASE Column!destroyStorage
  <2>1. AllIdle /\ Destroyed' /\ UNCHANGED frame
    BY <1>1, StorageAssumptions DEF Column!destroyStorage, Column!AllIdle, AllIdle, Destroyed
  <2>2. QED
    BY <2>1, StoreCloses DEF ColumnInv
<1>2. ASSUME NEW t \in Threads, NEW s \in Slots,
             \/ \E v \in Values : Column!addComponent(t, s, v)
             \/ Column!removeComponent(t, s)
             \/ Column!getComponent(t, s) /\ UNCHANGED <<storesData, presence, objects>>
      PROVE  StoreStep
  BY <1>2, ColumnAsks
<1>3. ASSUME NEW t \in Threads,
             \/ \E n \in Reservations : Column!reserve(t, n)
             \/ Column!findTable(t) \/ Column!installTable(t)
             \/ Column!findBlock(t) \/ Column!installBlock(t)
             \/ Column!overwrite(t) \/ Column!absent(t) \/ Column!construct(t)
             \/ Column!constructorThrows(t) \/ Column!setPresence(t)
             \/ Column!countBlock(t) \/ Column!count(t)
             \/ Column!destroyObject(t) \/ Column!clearPresence(t)
             \/ Column!uncountBlock(t) \/ Column!uncount(t)
      PROVE  StoreStep
  BY <1>3, ColumnReserves, ColumnHidden, ColumnPuts, ColumnRemoves, ColumnLeaves
<1>4. ASSUME NEW t \in Threads,
             \/ Column!lookup(t) /\ UNCHANGED <<storesData, presence, objects>>
             \/ Column!readObject(t)
             \/ Column!return(t) /\ UNCHANGED storesData
      PROVE  StoreStep
  <2>1. Column!readObject(t) => UNCHANGED <<storesData, presence, objects>>
    BY DEF Column!readObject
  <2>2. QED
    BY <1>4, <2>1, ColumnHidden, ColumnGets, ColumnLeaves
<1>5. QED
  BY <1>1, <1>2, <1>3, <1>4 DEF Column!ColumnNext, Column!memory, Column!counts

LEMMA StoreInitially == StorageInit => Store!Init
<1> SUFFICES ASSUME StorageInit PROVE Store!Init
  OBVIOUS
<1>1. /\ presence = {} /\ pc = [t \in Threads |-> "idle"]
      /\ frame = [t \in Threads |-> NoFrame(Tag)]
  BY DEF StorageInit, Sparse!SparseInit, Column!ColumnInit, Sparse!CallsInit, Column!CallsInit,
         Sparse!NoFrame, Column!NoFrame, Sparse!Frame, Column!Frame, Sparse!Tag, Column!Tag,
         NoFrame, Frame, Tag
<1>2. Contents = [s \in {} |-> s]
  BY <1>1 DEF Contents, Filled
<1>3. \A t \in Threads : CallOf(t) = Store!NoCall
  BY <1>1, NoFrameIs DEF CallOf, Store!NoCall
<1> HIDE DEF Contents
<1>4. QED
  BY <1>2, <1>3, ContentsAre DEF Store!Init, ContentsSame

(* Either storage is the partial function of ComponentStore                   *)
(* (SparseComponentStorage, ComponentColumn): each call takes effect at one    *)
(* instant, and every other step is invisible to the calls of other threads.   *)
THEOREM StoreImplemented == StorageSpec => ImplementsStore
<1>1. StorageInv /\ [StorageNext]_storageVars => [Store!Next]_(Store!storeVars)
  <2> SUFFICES ASSUME StorageInv, [StorageNext]_storageVars PROVE StoreStep
    BY DEF StoreStep
  <2>1. CASE UNCHANGED storageVars
    <3>1. UNCHANGED <<policy, entries, storesData, presence, objects, pc, frame>>
      BY <2>1 DEF storageVars, sparseOnly, columnOnly
    <3>2. Filled' = Filled
      BY <3>1 DEF Filled, Destroyed, Leaving, Slot
    <3>3. \A s \in Filled : Held(s)' = Held(s)
      BY <3>1 DEF Held
    <3>4. \A t \in Threads : CallOf(t)' = CallOf(t)
      BY <3>1 DEF CallOf
    <3>5. QED
      BY <3>2, <3>3, <3>4, StoreStutters
  <2>2. CASE policy = "sparse" /\ StorageNext
    BY <2>2, SparseImplements DEF StorageInv, StorageNext
  <2>3. CASE policy = "column" /\ StorageNext
    BY <2>3, ColumnImplements DEF StorageInv, StorageNext
  <2>4. QED
    BY <2>1, <2>2, <2>3 DEF StorageInv
<1>2. QED
  BY <1>1, StoreInitially, StorageInvariant, PTL DEF StorageSpec, ImplementsStore, Store!Spec
=============================================================================
