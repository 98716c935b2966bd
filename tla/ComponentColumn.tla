--------------------------- MODULE ComponentColumn ---------------------------
(***************************************************************************)
(* Components/ComponentColumn.hpp: objects in place, at their entity's slot,*)
(* in blocks that are allocated when first needed and never move.  Types    *)
(* without data (tags) have presence bits and counts only.                   *)
(***************************************************************************)
EXTENDS StorageCalls

CONSTANTS
  BlockSize,    \* slots in a block
  Reservations  \* the arguments of reserve

VARIABLES
  storesData,  \* STORES_DATA of the component type
  tables,      \* _blocks: the block tables that exist
  blocks,      \* the blocks that exist
  blockLive,   \* liveCount of each block
  liveCount    \* _liveCount

columnVars == <<storesData, tables, blocks, blockLive, liveCount, presence, objects, pc, frame>>
counts == <<blockLive, liveCount>>
memory == <<tables, blocks>>

(* std::bit_width. *)
TableOf(block) == CHOOSE w \in 0 .. block : block < 2 ^ w /\ (w = 0 \/ 2 ^ (w - 1) <= block)
BlockOf(slot) == slot \div BlockSize
Blocks == {BlockOf(s) : s \in Slots}

(* The block a call is at: that of its slot, or the one reserve has come to. *)
Block(t) == IF frame[t].op = "reserve" THEN frame[t].index ELSE BlockOf(Slot(t))

ColumnInit ==
  /\ CallsInit
  /\ storesData \in BOOLEAN
  /\ tables = {}
  /\ blocks = {}
  /\ blockLive = [b \in Blocks |-> 0]
  /\ liveCount = 0
  /\ objects = [s \in Slots |-> Raw]

(* Tags are all alike. *)
addComponent(t, s, v) ==
  /\ MayAdd(s)
  /\ storesData \/ v = Tag
  /\ Enter(t, Frame("add", s, v), IF storesData THEN "table" ELSE "test")
  /\ UNCHANGED <<storesData, memory, counts, presence, objects>>

-----------------------------------------------------------------------------
(* ensureBlockEntry and ensureBlock, for add and reserve. *)

(* reserve goes on to the next block, for tags to the first of the next table. *)
NextBlock(b) == IF storesData THEN b + 1 ELSE IF b = 0 THEN 1 ELSE 2 * b

NextToReserve(t) ==
  IF NextBlock(Block(t)) < frame[t].target
  THEN frame' = [frame EXCEPT ![t].index = NextBlock(@)] /\ Goto(t, "table")
  ELSE Goto(t, "return") /\ UNCHANGED frame

(* For objects the block comes next; markPresent of a tag has its table. *)
AfterTable(t) ==
  IF storesData THEN Goto(t, "block") /\ UNCHANGED frame
  ELSE IF frame[t].op = "reserve" THEN NextToReserve(t)
  ELSE Goto(t, "set") /\ UNCHANGED frame

AfterBlock(t) ==
  IF frame[t].op = "reserve" THEN NextToReserve(t) ELSE Goto(t, "test") /\ UNCHANGED frame

findTable(t) ==
  /\ pc[t] = "table"
  /\ IF TableOf(Block(t)) \in tables
     THEN AfterTable(t)
     ELSE Goto(t, "installTable") /\ UNCHANGED frame
  /\ UNCHANGED <<storesData, memory, counts, presence, objects>>

(* Mutant: the new table is stored over one another thread installed. *)
storeTable(t) ==
  LET lost == {b \in Blocks : TableOf(b) = TableOf(Block(t))} IN
    /\ pc[t] = "installTable"
    /\ tables' = tables \cup {TableOf(Block(t))}
    /\ blocks' = blocks \ lost
    /\ blockLive' = [b \in Blocks |-> IF b \in lost THEN 0 ELSE blockLive[b]]
    /\ AfterTable(t)
    /\ UNCHANGED <<storesData, liveCount, presence, objects>>

installTable(t) ==
  /\ pc[t] = "installTable"
  /\ tables' = tables \cup {TableOf(Block(t))}
  /\ AfterTable(t)
  /\ UNCHANGED <<storesData, blocks, counts, presence, objects>>

findBlock(t) ==
  /\ pc[t] = "block"
  /\ IF Block(t) \in blocks
     THEN AfterBlock(t)
     ELSE Goto(t, "installBlock") /\ UNCHANGED frame
  /\ UNCHANGED <<storesData, memory, counts, presence, objects>>

installBlock(t) ==
  /\ pc[t] = "installBlock"
  /\ blocks' = blocks \cup {Block(t)}
  /\ AfterBlock(t)
  /\ UNCHANGED <<storesData, tables, counts, presence, objects>>

(* Presence bits are reserved too, which sets none. *)
reserve(t, slotCapacity) ==
  /\ slotCapacity > 0
  /\ Enter(t, [NoFrame(Tag) EXCEPT !.op = "reserve",
                 !.target = (slotCapacity + BlockSize - 1) \div BlockSize], "table")
  /\ UNCHANGED <<storesData, memory, counts, presence, objects>>

-----------------------------------------------------------------------------
(* addComponent, once the block exists. *)

overwrite(t) ==
  /\ Doing(t, "add", "test")
  /\ Slot(t) \in presence
  /\ objects' = IF storesData THEN [objects EXCEPT ![Slot(t)] = frame[t].value] ELSE objects
  /\ Effect(t, "return")
  /\ UNCHANGED <<storesData, memory, counts, presence>>

absent(t) ==
  /\ Doing(t, "add", "test")
  /\ Slot(t) \notin presence
  /\ Goto(t, IF storesData THEN "construct" ELSE "table")
  /\ UNCHANGED <<storesData, memory, counts, presence, objects, frame>>

(* The table is there: markPresent finds it again. *)
construct(t) ==
  /\ Doing(t, "add", "construct")
  /\ objects' = [objects EXCEPT ![Slot(t)] = frame[t].value]
  /\ Goto(t, "set")
  /\ UNCHANGED <<storesData, memory, counts, presence, frame>>

constructorThrows(t) ==
  /\ Doing(t, "add", "construct")
  /\ Leave(t)
  /\ UNCHANGED <<storesData, memory, counts, presence, objects>>

setPresence(t) ==
  /\ Doing(t, "add", "set")
  /\ presence' = presence \cup {Slot(t)}
  /\ Effect(t, "countBlock")
  /\ UNCHANGED <<storesData, memory, counts, objects>>

countBlock(t) ==
  /\ pc[t] = "countBlock"
  /\ blockLive' = [blockLive EXCEPT ![Block(t)] = @ + 1]
  /\ Goto(t, "count")
  /\ UNCHANGED <<storesData, memory, liveCount, presence, objects, frame>>

count(t) ==
  /\ pc[t] = "count"
  /\ liveCount' = liveCount + 1
  /\ Goto(t, "return")
  /\ UNCHANGED <<storesData, memory, blockLive, presence, objects, frame>>

-----------------------------------------------------------------------------
readObject(t) ==
  /\ ReadAs(t, IF storesData THEN objects[Slot(t)] ELSE Tag)
  /\ UNCHANGED <<storesData, memory, counts, presence, objects>>

removeComponent(t, s) ==
  /\ MayRemove(s)
  /\ Enter(t, Frame("remove", s, Tag), IF storesData THEN "destroy" ELSE "clear")
  /\ UNCHANGED <<storesData, memory, counts, presence, objects>>

destroyObject(t) ==
  /\ Doing(t, "remove", "destroy")
  /\ objects' = [objects EXCEPT ![Slot(t)] = Raw]
  /\ Effect(t, "clear")
  /\ UNCHANGED <<storesData, memory, counts, presence>>

clearPresence(t) ==
  /\ Doing(t, "remove", "clear")
  /\ presence' = presence \ {Slot(t)}
  /\ Effect(t, "uncountBlock")
  /\ UNCHANGED <<storesData, memory, counts, objects>>

uncountBlock(t) ==
  /\ pc[t] = "uncountBlock"
  /\ blockLive' = [blockLive EXCEPT ![Block(t)] = @ - 1]
  /\ Goto(t, "uncount")
  /\ UNCHANGED <<storesData, memory, liveCount, presence, objects, frame>>

uncount(t) ==
  /\ pc[t] = "uncount"
  /\ liveCount' = liveCount - 1
  /\ Goto(t, "return")
  /\ UNCHANGED <<storesData, memory, blockLive, presence, objects, frame>>

(* ~ComponentColumn. *)
destroyStorage ==
  /\ AllIdle
  /\ objects' = [s \in Slots |-> IF s \in presence THEN Raw ELSE objects[s]]
  /\ pc' = [t \in Threads |-> "destroyed"]
  /\ UNCHANGED <<storesData, memory, counts, presence, frame>>

ColumnNext ==
  \/ destroyStorage
  \/ \E t \in Threads :
       \/ \E s \in Slots :
            \/ \E v \in Values : addComponent(t, s, v)
            \/ removeComponent(t, s)
            \/ getComponent(t, s) /\ UNCHANGED <<storesData, memory, counts, presence, objects>>
       \/ \E n \in Reservations : reserve(t, n)
       \/ findTable(t) \/ installTable(t) \/ findBlock(t) \/ installBlock(t)
       \/ overwrite(t) \/ absent(t) \/ construct(t) \/ constructorThrows(t)
       \/ setPresence(t) \/ countBlock(t) \/ count(t) \/ readObject(t)
       \/ destroyObject(t) \/ clearPresence(t) \/ uncountBlock(t) \/ uncount(t)
       \/ lookup(t) /\ UNCHANGED <<storesData, memory, counts, presence, objects>>
       \/ return(t) /\ UNCHANGED <<storesData, memory, counts>>

ColumnSpec == ColumnInit /\ [][ColumnNext]_columnVars

-----------------------------------------------------------------------------
ColumnContents == [s \in Filled |-> IF storesData THEN objects[s] ELSE Tag]

(* An object lives exactly in the slots that are present and in those a     *)
(* thread is about to make present, in a block that exists.                  *)
ColumnObjectsOwned ==
  \A s \in Slots :
    LET publishing == \E t \in Threads : Doing(t, "add", "set") /\ Slot(t) = s IN
      /\ objects[s] # Raw <=> storesData /\ (s \in Filled \/ publishing)
      /\ s \in presence => TableOf(BlockOf(s)) \in tables
      /\ objects[s] # Raw => BlockOf(s) \in blocks

Between(labels, b) == Cardinality({t \in Threads : pc[t] \in labels /\ Block(t) \in b})

(* The counts follow the bits, each in a step of its own: once no call is   *)
(* under way size() and every block's count are exact, and no count ever     *)
(* wraps below zero.                                                          *)
ColumnCountsSettle ==
  /\ liveCount >= 0
  /\ Cardinality(presence) = liveCount + Between({"countBlock", "count"}, Blocks)
                                       - Between({"uncountBlock", "uncount"}, Blocks)
  /\ \A b \in Blocks :
       /\ blockLive[b] >= 0
       /\ Cardinality({s \in presence : BlockOf(s) = b}) =
            blockLive[b] + Between({"countBlock"}, {b}) - Between({"uncountBlock"}, {b})
=============================================================================
