----------------------------- MODULE StablePool -----------------------------
(***************************************************************************)
(* Components/StablePool.hpp: a growing array of slots with a lock-free     *)
(* free list.  Any number of threads allocate and deallocate at once; every *)
(* atomic operation of the code is one step, and compare_exchange_weak may  *)
(* fail for no reason.                                                       *)
(***************************************************************************)
EXTENDS Integers, SequencesExt

CONSTANTS
  Threads,
  IndexLimit,  \* INVALID_INDEX: 2^32 - 1 in the code
  BlockSize,   \* slots in a block
  MaxTag       \* bound: changes of the free list's head

ASSUME PoolAssumptions ==
  /\ IndexLimit \in Nat
  /\ BlockSize \in Nat \ {0}
  /\ MaxTag \in Nat

VARIABLES
  freeHead,    \* _freeIndices: the tag and index packed in one 64-bit word
  nextFree,    \* nextFree of each slot
  capacity,    \* _capacity
  liveCount,   \* _liveCount
  freeCount,   \* _freeCount
  blocks,      \* the blocks that exist
  blockCount,  \* _blockCount
  pc,          \* what each thread does next
  head,        \* each thread's copy of the free list's head
  index,       \* the index each thread works on
  live,        \* history: indices of constructed objects
  freeList,    \* history: the indices on the free list, the first on top
  aborted      \* std::abort was called

counters == <<liveCount, freeCount>>
shared == <<freeHead, nextFree, capacity, blocks, blockCount>>
vars == <<freeHead, nextFree, capacity, liveCount, freeCount, blocks, blockCount,
          pc, head, index, live, freeList, aborted>>

Index == 0 .. IndexLimit - 1
NoIndex == IndexLimit
Word == [tag : 0 .. MaxTag, index : Index \cup {NoIndex}]
EmptyWord == [tag |-> 0, index |-> NoIndex]
BlockOf(i) == i \div BlockSize

PoolInit ==
  /\ freeHead = EmptyWord
  /\ nextFree = [i \in Index |-> 0]
  /\ capacity = 0
  /\ liveCount = 0
  /\ freeCount = 0
  /\ blocks = {}
  /\ blockCount = 0
  /\ pc = [t \in Threads |-> "idle"]
  /\ head = [t \in Threads |-> EmptyWord]
  /\ index = [t \in Threads |-> NoIndex]
  /\ live = {}
  /\ freeList = <<>>
  /\ aborted = FALSE

At(t, label) == pc[t] = label /\ ~aborted
Goto(t, label) == pc' = [pc EXCEPT ![t] = label]

(* The call returns and its local variables go. *)
Return(t) ==
  /\ Goto(t, "idle")
  /\ head' = [head EXCEPT ![t] = EmptyWord]
  /\ index' = [index EXCEPT ![t] = NoIndex]

(* Mutant: the tag is not advanced. *)
SameTag(tag) == tag
(* FREE_TAG_INCREMENT. *)
NextTag(tag) == tag + 1

-----------------------------------------------------------------------------
(* allocate: pop the free list ... *)

(* A load of the head, by the first load or by a failed exchange. *)
LoadHead(t, label) ==
  /\ head' = [head EXCEPT ![t] = freeHead]
  /\ Goto(t, label)

PopOrGrow == IF freeHead.index = NoIndex THEN "grow" ELSE "pop next"

allocate(t) ==
  /\ At(t, "idle")
  /\ LoadHead(t, PopOrGrow)
  /\ UNCHANGED <<shared, counters, index, live, freeList, aborted>>

(* The successor is read from a slot another thread may have taken since. *)
popReadNext(t) ==
  /\ At(t, "pop next")
  /\ index' = [index EXCEPT ![t] = nextFree[head[t].index]]
  /\ Goto(t, "pop exchange")
  /\ UNCHANGED <<shared, counters, head, live, freeList, aborted>>

popExchange(t) ==
  /\ At(t, "pop exchange")
  /\ freeHead = head[t]
  /\ freeHead.tag < MaxTag
  /\ freeHead' = [tag |-> NextTag(freeHead.tag), index |-> index[t]]
  /\ index' = [index EXCEPT ![t] = head[t].index]
  /\ head' = [head EXCEPT ![t] = EmptyWord]
  /\ freeList' = Tail(freeList)
  /\ Goto(t, "pop count")
  /\ UNCHANGED <<nextFree, capacity, blocks, blockCount, counters, live, aborted>>

popExchangeFails(t) ==
  /\ At(t, "pop exchange")
  /\ LoadHead(t, PopOrGrow)
  /\ UNCHANGED <<shared, counters, index, live, freeList, aborted>>

(* Mutant: a popped slot stays counted as free. *)
popUncounted(t) ==
  /\ At(t, "pop count")
  /\ Goto(t, "construct")
  /\ UNCHANGED <<shared, counters, head, index, live, freeList, aborted>>

popCount(t) ==
  /\ At(t, "pop count")
  /\ freeCount' = freeCount - 1
  /\ Goto(t, "construct")
  /\ UNCHANGED <<shared, liveCount, head, index, live, freeList, aborted>>

-----------------------------------------------------------------------------
(* ... or claim the next index, once its block exists. *)

growLoad(t) ==
  /\ At(t, "grow")
  /\ index' = [index EXCEPT ![t] = capacity]
  /\ head' = [head EXCEPT ![t] = EmptyWord]
  /\ Goto(t, "grow block")
  /\ UNCHANGED <<shared, counters, live, freeList, aborted>>

capacityExceeded(t) ==
  /\ At(t, "grow block")
  /\ index[t] = NoIndex
  /\ aborted' = TRUE
  /\ UNCHANGED <<shared, counters, pc, head, index, live, freeList>>

(* The first thread to install a block wins; the others use its block. *)
ensureCapacity(t) ==
  /\ At(t, "grow block")
  /\ index[t] # NoIndex
  /\ blocks' = blocks \cup {BlockOf(index[t])}
  /\ Goto(t, "grow count")
  /\ UNCHANGED <<freeHead, nextFree, capacity, blockCount, counters, head, index,
                 live, freeList, aborted>>

(* Mutant: the count is set, not raised. *)
SetBlockCount(count, i) == BlockOf(i) + 1
RaisedBlockCount(count, i) == IF count <= BlockOf(i) THEN BlockOf(i) + 1 ELSE count

growBlockCount(t) ==
  /\ At(t, "grow count")
  /\ blockCount' = RaisedBlockCount(blockCount, index[t])
  /\ Goto(t, "grow exchange")
  /\ UNCHANGED <<freeHead, nextFree, capacity, blocks, counters, head, index,
                 live, freeList, aborted>>

(* Mutant: the index is claimed without comparing. *)
ClaimAnyway(t) == TRUE

CapacityUnchanged(t) == capacity = index[t]

growExchange(t) ==
  /\ At(t, "grow exchange")
  /\ CapacityUnchanged(t)
  /\ capacity' = index[t] + 1
  /\ Goto(t, "construct")
  /\ UNCHANGED <<freeHead, nextFree, blocks, blockCount, counters, head, index,
                 live, freeList, aborted>>

growExchangeFails(t) ==
  /\ At(t, "grow exchange")
  /\ index' = [index EXCEPT ![t] = capacity]
  /\ Goto(t, "grow block")
  /\ UNCHANGED <<shared, counters, head, live, freeList, aborted>>

-----------------------------------------------------------------------------
(* The object is constructed in the reserved slot, or its constructor       *)
(* throws and SlotReservation releases the index.                            *)
construct(t) ==
  /\ At(t, "construct")
  /\ Goto(t, "live count")
  /\ UNCHANGED <<shared, counters, head, index, live, freeList, aborted>>

(* Mutant: the reservation is dropped. *)
constructorLeaks(t) ==
  /\ At(t, "construct")
  /\ Return(t)
  /\ UNCHANGED <<shared, counters, live, freeList, aborted>>

constructorThrows(t) ==
  /\ At(t, "construct")
  /\ Goto(t, "release count")
  /\ UNCHANGED <<shared, counters, head, index, live, freeList, aborted>>

allocateReturns(t) ==
  /\ At(t, "live count")
  /\ liveCount' = liveCount + 1
  /\ live' = live \cup {index[t]}
  /\ Return(t)
  /\ UNCHANGED <<shared, freeCount, freeList, aborted>>

(* Whoever holds an index may deallocate it, on whatever thread. *)
deallocate(t, i) ==
  /\ At(t, "idle")
  /\ i \in live
  /\ live' = live \ {i}
  /\ liveCount' = liveCount - 1
  /\ index' = [index EXCEPT ![t] = i]
  /\ Goto(t, "release count")
  /\ UNCHANGED <<shared, freeCount, head, freeList, aborted>>

-----------------------------------------------------------------------------
(* releaseIndex: count first, then push. *)

releaseCount(t) ==
  /\ At(t, "release count")
  /\ freeCount' = freeCount + 1
  /\ Goto(t, "release")
  /\ UNCHANGED <<shared, liveCount, head, index, live, freeList, aborted>>

releaseLoad(t) ==
  /\ At(t, "release")
  /\ LoadHead(t, "release next")
  /\ UNCHANGED <<shared, counters, index, live, freeList, aborted>>

releaseStoreNext(t) ==
  /\ At(t, "release next")
  /\ nextFree' = [nextFree EXCEPT ![index[t]] = head[t].index]
  /\ Goto(t, "release exchange")
  /\ UNCHANGED <<freeHead, capacity, blocks, blockCount, counters, head, index,
                 live, freeList, aborted>>

releaseExchange(t) ==
  /\ At(t, "release exchange")
  /\ freeHead = head[t]
  /\ freeHead.tag < MaxTag
  /\ freeHead' = [tag |-> NextTag(freeHead.tag), index |-> index[t]]
  /\ freeList' = <<index[t]>> \o freeList
  /\ Return(t)
  /\ UNCHANGED <<nextFree, capacity, blocks, blockCount, counters, live, aborted>>

releaseExchangeFails(t) ==
  /\ At(t, "release exchange")
  /\ LoadHead(t, "release next")
  /\ UNCHANGED <<shared, counters, index, live, freeList, aborted>>

PoolNext ==
  \E t \in Threads :
    \/ allocate(t) \/ popReadNext(t) \/ popExchange(t) \/ popExchangeFails(t)
    \/ popCount(t)
    \/ growLoad(t) \/ capacityExceeded(t) \/ ensureCapacity(t) \/ growBlockCount(t)
    \/ growExchange(t) \/ growExchangeFails(t)
    \/ construct(t) \/ constructorThrows(t) \/ allocateReturns(t)
    \/ \E i \in Index : deallocate(t, i)
    \/ releaseCount(t) \/ releaseLoad(t) \/ releaseStoreNext(t)
    \/ releaseExchange(t) \/ releaseExchangeFails(t)

PoolSpec == PoolInit /\ [][PoolNext]_vars

-----------------------------------------------------------------------------
Labels == {"idle", "pop next", "pop exchange", "pop count", "grow", "grow block",
           "grow count", "grow exchange", "construct", "live count",
           "release count", "release", "release next", "release exchange"}

(* Where a thread has an index to itself. *)
Holding == {"pop count", "construct", "live count", "release count", "release",
            "release next", "release exchange"}

Held(t) == pc[t] \in Holding
ThreadsAt(labels) == {t \in Threads : pc[t] \in labels}

(* Types of the state. *)
PoolTypeOK ==
  /\ freeHead \in Word
  /\ nextFree \in [Index -> Index \cup {NoIndex}]
  /\ capacity \in 0 .. IndexLimit
  /\ liveCount \in Int
  /\ freeCount \in Int
  /\ blocks \subseteq {BlockOf(i) : i \in Index}
  /\ blockCount \in 0 .. IndexLimit
  /\ pc \in [Threads -> Labels]
  /\ head \in [Threads -> Word]
  /\ index \in [Threads -> Index \cup {NoIndex}]
  /\ live \subseteq Index
  /\ freeList \in Seq(Index)
  /\ aborted \in BOOLEAN

(* The words in memory spell the free list: its head is its first index and *)
(* each slot's nextFree the one after, whatever stale successors threads    *)
(* have read meanwhile (the tag is there for that).                          *)
FreeListLinked ==
  /\ freeHead.index = IF freeList = <<>> THEN NoIndex ELSE freeList[1]
  /\ \A i \in 1 .. Len(freeList) :
       nextFree[freeList[i]] =
         IF i = Len(freeList) THEN NoIndex ELSE freeList[i + 1]

(* Every index below the capacity has exactly one owner: a live object, one *)
(* thread between claiming and publishing it, or the free list, where it is *)
(* once.  No index is handed out twice and none is lost, not even when a    *)
(* constructor throws.                                                       *)
OneOwnerPerIndex ==
  \A i \in Index :
    Cardinality({t \in Threads : Held(t) /\ index[t] = i})
      + Cardinality({n \in 1 .. Len(freeList) : freeList[n] = i})
      + (IF i \in live THEN 1 ELSE 0)
      = IF i < capacity THEN 1 ELSE 0

(* "Count the slot before publishing it so a competing pop cannot underflow *)
(* the count" (releaseIndex): freeCount is the length of the free list and  *)
(* the pops and pushes in flight, so it never wraps below zero; with no call*)
(* in flight the two counters of StorageStatistics add up to the capacity.   *)
CountersInStep ==
  /\ freeCount = Len(freeList)
                   + Cardinality(ThreadsAt({"pop count", "release",
                                            "release next", "release exchange"}))
  /\ ThreadsAt(Labels \ {"idle"}) = {} => liveCount + freeCount = capacity

(* A slot somebody can reach is in a block that exists and is counted: no   *)
(* thread goes through a null block, blockCount never falls behind and       *)
(* INVALID_INDEX is never handed out as an index.                            *)
BlocksBackIndices ==
  /\ capacity <= IndexLimit
  /\ \A i \in 0 .. capacity - 1 : BlockOf(i) \in blocks /\ BlockOf(i) < blockCount
  /\ \A t \in Threads :
       pc[t] = "pop next" => BlockOf(head[t].index) \in blocks

(* Indices in use: all but the free list's. *)
Pool == INSTANCE IndexPool WITH
  taken <- (0 .. capacity - 1) \ ToSet(freeList),
  size <- capacity

(* However threads interleave, the pool hands out and takes back indices as *)
(* IndexPool does, each at the exchange that publishes it.                   *)
ImplementsIndexPool == Pool!Spec
=============================================================================
