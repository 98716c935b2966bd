--------------------------- MODULE StablePoolProofs ---------------------------
(***************************************************************************)
(* Theorems of StablePool, for any number of threads and any sizes.         *)
(***************************************************************************)
EXTENDS StablePool, SequenceTheorems, FiniteSetTheorems, TLAPS

(* The indices on the free list. *)
FreeIndices == {freeList[n] : n \in 1 .. Len(freeList)}

(* OneOwnerPerIndex without counting: the free list repeats no index, no    *)
(* two owners share one ...                                                   *)
FreeDistinct == \A m, n \in 1 .. Len(freeList) : freeList[m] = freeList[n] => m = n

OwnersDisjoint ==
  /\ \A t, u \in Threads : Held(t) /\ Held(u) /\ index[t] = index[u] => t = u
  /\ \A t \in Threads : Held(t) => index[t] \notin live /\ index[t] \notin FreeIndices
  /\ live \cap FreeIndices = {}

(* ... and the indices owned are those below the capacity. *)
OwnedByThread(i) == \E t \in Threads : Held(t) /\ index[t] = i

OwnersCover ==
  /\ \A t \in Threads : Held(t) => index[t] \in Index
  /\ \A i \in Index :
       i < capacity <=> i \in live \/ i \in FreeIndices \/ OwnedByThread(i)

(* What a thread knows of the free list: the tag of a head it read is not   *)
(* from the future; the head it means to pop is an index in use ...          *)
HeadsPast == \A t \in Threads : head[t].tag <= freeHead.tag

PoppedInUse ==
  \A t \in Threads : pc[t] \in {"pop next", "pop exchange"} =>
    head[t].index \in Index /\ head[t].index < capacity

(* ... while the head it read is in place, so is the successor it read ...   *)
SuccessorsCurrent ==
  \A t \in Threads : pc[t] = "pop exchange" /\ head[t] = freeHead =>
    index[t] = nextFree[head[t].index]

(* ... and the slot it means to push points at the head it read. *)
PushesLinked ==
  \A t \in Threads : pc[t] = "release exchange" => nextFree[index[t]] = head[t].index

(* What a thread that grows the pool has made sure of. *)
GrowthPrepared ==
  \A t \in Threads :
    /\ pc[t] \in {"grow block", "grow count", "grow exchange"} => index[t] <= capacity
    /\ pc[t] \in {"grow count", "grow exchange"} =>
         index[t] \in Index /\ BlockOf(index[t]) \in blocks
    /\ pc[t] = "grow exchange" => BlockOf(index[t]) < blockCount

BlocksReach ==
  \A i \in 0 .. capacity - 1 : BlockOf(i) \in blocks /\ BlockOf(i) < blockCount

(* liveCount follows the objects; freeCount runs ahead of the free list by  *)
(* the threads between a change of the one and of the other.                 *)
Leaving == {"pop count", "release", "release next", "release exchange"}

CountInv ==
  /\ liveCount = Cardinality(live)
  /\ IsFiniteSet(ThreadsAt(Leaving))
  /\ freeCount = Len(freeList) + Cardinality(ThreadsAt(Leaving))

PoolInv ==
  /\ PoolTypeOK
  /\ FreeListLinked
  /\ FreeDistinct
  /\ OwnersDisjoint
  /\ OwnersCover
  /\ HeadsPast
  /\ PoppedInUse
  /\ SuccessorsCurrent
  /\ PushesLinked
  /\ GrowthPrepared
  /\ BlocksReach

-----------------------------------------------------------------------------
(* Operators. *)

(* The block of an index is a natural number no larger. *)
LEMMA BlockBound ==
  ASSUME NEW i \in Nat PROVE BlockOf(i) \in Nat /\ BlockOf(i) <= i
BY PoolAssumptions DEF BlockOf

(* pop_front of a free list that is not empty. *)
LEMMA PopList ==
  ASSUME freeList \in Seq(Index), freeList # <<>>
  PROVE  /\ Len(freeList) \in Nat \ {0}
         /\ Tail(freeList) \in Seq(Index)
         /\ Len(Tail(freeList)) = Len(freeList) - 1
         /\ \A n \in 1 .. Len(freeList) - 1 : Tail(freeList)[n] = freeList[n + 1]
         /\ freeList[1] \in Index
         /\ Tail(freeList) = <<>> <=> Len(freeList) = 1
<1>1. Len(freeList) \in Nat \ {0}
  BY EmptySeq
<1>2. /\ Tail(freeList) \in Seq(Index)
      /\ Len(Tail(freeList)) = Len(freeList) - 1
      /\ \A n \in 1 .. Len(Tail(freeList)) : Tail(freeList)[n] = freeList[n + 1]
  BY HeadTailProperties
<1>3. freeList[1] \in Index
  BY <1>1, ElementOfSeq
<1>4. Tail(freeList) = <<>> <=> Len(freeList) = 1
  BY <1>1, <1>2, EmptySeq
<1>5. QED
  BY <1>1, <1>2, <1>3, <1>4

(* push_front. *)
LEMMA PushList ==
  ASSUME freeList \in Seq(Index), NEW i \in Index
  PROVE  /\ Len(freeList) \in Nat
         /\ <<i>> \o freeList \in Seq(Index)
         /\ Len(<<i>> \o freeList) = Len(freeList) + 1
         /\ (<<i>> \o freeList)[1] = i
         /\ \A n \in 1 .. Len(freeList) : (<<i>> \o freeList)[n + 1] = freeList[n]
         /\ <<i>> \o freeList # <<>>
<1>1. <<i>> \in Seq(Index) /\ Len(<<i>>) = 1 /\ <<i>>[1] = i
  OBVIOUS
<1>2. Len(freeList) \in Nat
  BY LenProperties
<1>3. /\ <<i>> \o freeList \in Seq(Index)
      /\ Len(<<i>> \o freeList) = 1 + Len(freeList)
      /\ \A n \in 1 .. 1 + Len(freeList) :
           (<<i>> \o freeList)[n] = IF n <= 1 THEN <<i>>[n] ELSE freeList[n - 1]
  BY <1>1, ConcatProperties
<1>4. QED
  BY <1>1, <1>2, <1>3, EmptySeq

(* Indices, tags and words. *)
LEMMA Bounds ==
  /\ IndexLimit \in Nat /\ MaxTag \in Nat
  /\ NoIndex = IndexLimit /\ NoIndex \notin Index
  /\ \A i \in Index : i \in Nat /\ i < IndexLimit
  /\ EmptyWord \in Word
BY PoolAssumptions DEF Index, NoIndex, Word, EmptyWord

LEMMA WordTag == ASSUME NEW w \in Word PROVE w.tag \in Nat
BY PoolAssumptions DEF Word

LEMMA Below == \A k, m, n \in Nat : k < m /\ m <= n => k < n
OBVIOUS

LEMMA NotAfter == \A m, n \in Nat : m <= n => m # n + 1
OBVIOUS

LEMMA NextWord ==
  ASSUME NEW w \in Word, w.tag < MaxTag, NEW i \in Index \cup {NoIndex}
  PROVE  [tag |-> NextTag(w.tag), index |-> i] \in Word
BY PoolAssumptions DEF Word, NextTag

-----------------------------------------------------------------------------
(* Types. *)

LEMMA InitTypes == PoolInit => PoolTypeOK
<1> SUFFICES ASSUME PoolInit PROVE PoolTypeOK
  OBVIOUS
<1>1. nextFree \in [Index -> Index \cup {NoIndex}]
  <2>1. 0 \in Index \/ Index = {}
    BY PoolAssumptions DEF Index
  <2>2. QED
    BY <2>1 DEF PoolInit
<1>2. freeList \in Seq(Index)
  BY EmptySeq DEF PoolInit
<1>3. capacity \in 0 .. IndexLimit /\ blockCount \in 0 .. IndexLimit
  BY Bounds DEF PoolInit
<1>4. /\ pc \in [Threads -> Labels] /\ head \in [Threads -> Word]
      /\ index \in [Threads -> Index \cup {NoIndex}] /\ freeHead \in Word
  BY Bounds DEF PoolInit, Labels
<1>5. liveCount \in Int /\ freeCount \in Int /\ live \subseteq Index
  BY DEF PoolInit
<1>6. aborted \in BOOLEAN
  BY DEF PoolInit
<1>7. blocks \subseteq {BlockOf(i) : i \in Index}
  BY DEF PoolInit
<1>8. QED
  BY <1>1, <1>2, <1>3, <1>4, <1>5, <1>7, <1>6 DEF PoolTypeOK

(* Steps on the free list ... *)
LEMMA PopTypes ==
  ASSUME PoolTypeOK, NEW t \in Threads,
         PoppedInUse, FreeListLinked,
         \/ allocate(t) \/ popReadNext(t) \/ popExchange(t) \/ popExchangeFails(t)
         \/ popCount(t)
  PROVE  PoolTypeOK'
<1> USE DEF PoolTypeOK, At, Goto, shared, counters
<1>1. CASE allocate(t)
  BY <1>1 DEF allocate, LoadHead, PopOrGrow, Labels
<1>2. CASE popReadNext(t)
  BY <1>2 DEF popReadNext, PoppedInUse, Labels, Word
<1>3. CASE popExchange(t)
  <2>1. freeHead'  \in Word
    BY <1>3, NextWord DEF popExchange
  <2>2. index' \in [Threads -> Index \cup {NoIndex}]
    BY <1>3 DEF popExchange, Word
  <2>3. head' \in [Threads -> Word] /\ pc' \in [Threads -> Labels]
    BY <1>3, Bounds DEF popExchange, Labels
  <2>4. freeList' \in Seq(Index)
    <3>1. freeHead.index # NoIndex
      BY <1>3, Bounds DEF popExchange, PoppedInUse
    <3>2. freeList # <<>>
      BY <3>1 DEF FreeListLinked
    <3>3. QED
      BY <1>3, <3>2, PopList DEF popExchange
  <2>5. QED
    BY <1>3, <2>1, <2>2, <2>3, <2>4 DEF popExchange
<1>4. CASE popExchangeFails(t)
  BY <1>4 DEF popExchangeFails, LoadHead, PopOrGrow, Labels
<1>5. CASE popCount(t)
  <2>1. freeCount' = freeCount - 1
    BY <1>5 DEF popCount
  <2>2. freeCount' \in Int
    BY <2>1
  <2>3. QED
    BY <1>5, <2>2 DEF popCount, Labels
<1>6. QED
  BY <1>1, <1>2, <1>3, <1>4, <1>5

(* ... on the capacity ... *)
LEMMA GrowTypes ==
  ASSUME PoolTypeOK, NEW t \in Threads, GrowthPrepared,
         \/ growLoad(t) \/ capacityExceeded(t) \/ ensureCapacity(t)
         \/ growBlockCount(t) \/ growExchange(t) \/ growExchangeFails(t)
  PROVE  PoolTypeOK'
<1> USE DEF PoolTypeOK, At, Goto, shared, counters
<1>1. CASE growLoad(t)
  <2>1. capacity \in Index \cup {NoIndex}
    BY Bounds DEF Index
  <2>2. QED
    BY <1>1, <2>1, Bounds DEF growLoad, Labels
<1>2. CASE capacityExceeded(t)
  BY <1>2 DEF capacityExceeded
<1>3. CASE ensureCapacity(t)
  <2>1. index[t] \in Index
    BY <1>3 DEF ensureCapacity
  <2>2. QED
    BY <1>3, <2>1 DEF ensureCapacity, Labels
<1>4. CASE growBlockCount(t)
  <2>1. index[t] \in Index
    BY <1>4 DEF growBlockCount, GrowthPrepared
  <2>2. index[t] \in Nat /\ index[t] < IndexLimit
    BY <2>1, Bounds
  <2>3. BlockOf(index[t]) \in Nat /\ BlockOf(index[t]) <= index[t]
    BY <2>2, BlockBound
  <2>4. blockCount' \in 0 .. IndexLimit
    <3>1. blockCount' = IF blockCount <= BlockOf(index[t]) THEN BlockOf(index[t]) + 1 ELSE blockCount
      BY <1>4 DEF growBlockCount, RaisedBlockCount
    <3>2. QED
      BY <3>1, <2>2, <2>3, Bounds
  <2>5. QED
    BY <1>4, <2>4 DEF growBlockCount, Labels
<1>5. CASE growExchange(t)
  <2>1. index[t] \in Index
    BY <1>5 DEF growExchange, GrowthPrepared
  <2>2. index[t] \in Nat /\ index[t] < IndexLimit
    BY <2>1, Bounds
  <2>3. capacity' \in 0 .. IndexLimit
    <3>1. capacity' = index[t] + 1
      BY <1>5 DEF growExchange
    <3>2. QED
      BY <3>1, <2>2, Bounds
  <2>4. QED
    BY <1>5, <2>3 DEF growExchange, Labels
<1>6. CASE growExchangeFails(t)
  <2>1. capacity \in Index \cup {NoIndex}
    BY Bounds DEF Index
  <2>2. QED
    BY <1>6, <2>1 DEF growExchangeFails, Labels
<1>7. QED
  BY <1>1, <1>2, <1>3, <1>4, <1>5, <1>6

(* ... and of constructing and releasing. *)
LEMMA HoldTypes ==
  ASSUME PoolTypeOK, NEW t \in Threads, OwnersCover,
         \/ construct(t) \/ constructorThrows(t) \/ allocateReturns(t)
         \/ \E i \in Index : deallocate(t, i)
         \/ releaseCount(t) \/ releaseLoad(t) \/ releaseStoreNext(t)
         \/ releaseExchange(t) \/ releaseExchangeFails(t)
  PROVE  PoolTypeOK'
<1> USE DEF PoolTypeOK, At, Goto, shared, counters
<1>1. CASE construct(t) \/ constructorThrows(t)
  BY <1>1 DEF construct, constructorThrows, Labels
<1>2. CASE allocateReturns(t)
  <2>1. index[t] \in Index
    BY <1>2 DEF allocateReturns, OwnersCover, Held, Holding
  <2>2. liveCount' = liveCount + 1
    BY <1>2 DEF allocateReturns
  <2>3. liveCount' \in Int
    BY <2>2
  <2>4. QED
    BY <1>2, <2>1, <2>3, Bounds DEF allocateReturns, Return, Labels
<1>3. CASE \E i \in Index : deallocate(t, i)
  <2>1. liveCount' = liveCount - 1
    BY <1>3 DEF deallocate
  <2>2. liveCount' \in Int
    BY <2>1
  <2>3. QED
    BY <1>3, <2>2 DEF deallocate, Labels
<1>4. CASE releaseCount(t)
  <2>1. freeCount' = freeCount + 1
    BY <1>4 DEF releaseCount
  <2>2. freeCount' \in Int
    BY <2>1
  <2>3. QED
    BY <1>4, <2>2 DEF releaseCount, Labels
<1>5. CASE releaseLoad(t) \/ releaseExchangeFails(t)
  BY <1>5 DEF releaseLoad, releaseExchangeFails, LoadHead, Labels
<1>6. CASE releaseStoreNext(t)
  BY <1>6 DEF releaseStoreNext, Word, Labels
<1>7. CASE releaseExchange(t)
  <2>1. index[t] \in Index
    BY <1>7 DEF releaseExchange, OwnersCover, Held, Holding
  <2>2. freeHead' \in Word
    BY <1>7, <2>1, NextWord DEF releaseExchange
  <2>3. freeList' \in Seq(Index)
    BY <1>7, <2>1, PushList DEF releaseExchange
  <2>4. QED
    BY <1>7, <2>2, <2>3, Bounds DEF releaseExchange, Return, Labels
<1>8. QED
  BY <1>1, <1>2, <1>3, <1>4, <1>5, <1>6, <1>7

PoolStep(t) ==
  \/ allocate(t) \/ popReadNext(t) \/ popExchange(t) \/ popExchangeFails(t)
  \/ popCount(t)
  \/ growLoad(t) \/ capacityExceeded(t) \/ ensureCapacity(t) \/ growBlockCount(t)
  \/ growExchange(t) \/ growExchangeFails(t)
  \/ construct(t) \/ constructorThrows(t) \/ allocateReturns(t)
  \/ \E i \in Index : deallocate(t, i)
  \/ releaseCount(t) \/ releaseLoad(t) \/ releaseStoreNext(t)
  \/ releaseExchange(t) \/ releaseExchangeFails(t)

LEMMA StepTypes ==
  ASSUME PoolInv, NEW t \in Threads, PoolStep(t) PROVE PoolTypeOK'
BY PopTypes, GrowTypes, HoldTypes DEF PoolInv, PoolStep

-----------------------------------------------------------------------------
(* What a step may change. *)

(* A step is one thread's: the locals of the others stay. *)
LEMMA OthersKeep ==
  ASSUME PoolTypeOK, NEW t \in Threads, PoolStep(t), NEW u \in Threads, u # t
  PROVE  pc'[u] = pc[u] /\ head'[u] = head[u] /\ index'[u] = index[u]
BY DEF PoolTypeOK, PoolStep, Goto, Return, LoadHead, allocate, popReadNext,
  popExchange, popExchangeFails, popCount, growLoad, capacityExceeded,
  ensureCapacity, growBlockCount, growExchange, growExchangeFails, construct,
  constructorThrows, allocateReturns, deallocate, releaseCount, releaseLoad,
  releaseStoreNext, releaseExchange, releaseExchangeFails

(* Two steps change the free list, one more the word in a slot. *)
LEMMA ListSteps ==
  ASSUME NEW t \in Threads, PoolStep(t)
  PROVE  \/ UNCHANGED <<freeHead, freeList, nextFree>>
         \/ popExchange(t) \/ releaseStoreNext(t) \/ releaseExchange(t)
BY DEF PoolStep, shared, allocate, popReadNext,
  popExchangeFails, popCount, growLoad, capacityExceeded,
  ensureCapacity, growBlockCount, growExchange, growExchangeFails, construct,
  constructorThrows, allocateReturns, deallocate, releaseCount, releaseLoad,
  releaseExchangeFails

(* Five steps move an index from one owner to another. *)
LEMMA OwnerSteps ==
  ASSUME PoolTypeOK, NEW t \in Threads, PoolStep(t)
  PROVE  \/ /\ UNCHANGED <<capacity, live, freeList>>
            /\ Held(t)' <=> Held(t)
            /\ Held(t) => index'[t] = index[t]
         \/ popExchange(t) \/ growExchange(t) \/ allocateReturns(t)
         \/ \E i \in Index : deallocate(t, i)
         \/ releaseExchange(t)
BY DEF PoolTypeOK, PoolStep, At, Goto, Return, LoadHead, PopOrGrow, Held, Holding, shared,
  allocate, popReadNext,
  popExchangeFails, popCount, growLoad, capacityExceeded,
  ensureCapacity, growBlockCount, growExchangeFails, construct,
  constructorThrows, releaseCount, releaseLoad,
  releaseStoreNext, releaseExchangeFails

(* The capacity and the blocks only grow. *)
LEMMA CapacitySteps ==
  ASSUME NEW t \in Threads, PoolStep(t)
  PROVE  \/ UNCHANGED <<capacity, blocks, blockCount>>
         \/ growExchange(t) \/ ensureCapacity(t) \/ growBlockCount(t)
BY DEF PoolStep, shared, allocate, popReadNext, popExchange,
  popExchangeFails, popCount, growLoad, capacityExceeded,
  growExchangeFails, construct,
  constructorThrows, allocateReturns, deallocate, releaseCount, releaseLoad,
  releaseStoreNext, releaseExchange, releaseExchangeFails

LEMMA Growth ==
  ASSUME PoolInv, NEW t \in Threads, PoolStep(t)
  PROVE  /\ capacity \in Nat /\ capacity' \in Nat /\ capacity <= capacity'
         /\ blocks \subseteq blocks'
         /\ blockCount \in Nat /\ blockCount' \in Nat /\ blockCount <= blockCount'
<1>1. capacity \in Nat /\ blockCount \in Nat
  BY Bounds DEF PoolInv, PoolTypeOK
<1>2. capacity' \in Nat /\ blockCount' \in Nat
  <2>1. PoolTypeOK'
    BY StepTypes
  <2>2. QED
    BY <2>1, Bounds DEF PoolTypeOK
<1>3. CASE growExchange(t)
  <2>1. capacity' = capacity + 1 /\ blocks' = blocks /\ blockCount' = blockCount
    BY <1>3 DEF growExchange, CapacityUnchanged
  <2>2. QED
    BY <1>1, <1>2, <2>1
<1>4. CASE ensureCapacity(t)
  <2>1. capacity' = capacity /\ blocks \subseteq blocks' /\ blockCount' = blockCount
    BY <1>4 DEF ensureCapacity
  <2>2. QED
    BY <1>1, <2>1
<1>5. CASE growBlockCount(t)
  <2>1. index[t] \in Nat
    BY <1>5, Bounds DEF growBlockCount, At, PoolInv, GrowthPrepared
  <2>2. BlockOf(index[t]) \in Nat
    BY <2>1, BlockBound
  <2>3. capacity' = capacity /\ blocks' = blocks
    BY <1>5 DEF growBlockCount
  <2>4. blockCount' = IF blockCount <= BlockOf(index[t])
                        THEN BlockOf(index[t]) + 1 ELSE blockCount
    BY <1>5 DEF growBlockCount, RaisedBlockCount
  <2>5. QED
    BY <1>1, <2>2, <2>3, <2>4
<1>6. CASE UNCHANGED <<capacity, blocks, blockCount>>
  BY <1>1, <1>6
<1>7. QED
  BY <1>3, <1>4, <1>5, <1>6, CapacitySteps

-----------------------------------------------------------------------------
(* The free list. *)

(* A head that is an index is the first on the free list. *)
LEMMA HeadIsFirst ==
  ASSUME PoolInv, freeHead.index # NoIndex
  PROVE  /\ freeList # <<>> /\ freeHead.index = freeList[1]
         /\ freeHead.index \in Index /\ freeHead.index \in FreeIndices
         /\ freeHead.index < capacity
<1>1. freeList # <<>> /\ freeHead.index = freeList[1]
  BY DEF PoolInv, FreeListLinked
<1>2. Len(freeList) \in Nat \ {0} /\ freeList[1] \in Index
  BY <1>1, PopList DEF PoolInv, PoolTypeOK
<1>3. freeList[1] \in FreeIndices
  BY <1>2 DEF FreeIndices
<1>4. freeList[1] < capacity
  BY <1>2, <1>3 DEF PoolInv, OwnersCover
<1>5. QED
  BY <1>1, <1>2, <1>3, <1>4

(* What a pop that finds its head in place knows. *)
LEMMA PopEffect ==
  ASSUME PoolInv, NEW t \in Threads, popExchange(t)
  PROVE  /\ head[t] = freeHead /\ freeHead.index # NoIndex
         /\ index[t] = nextFree[freeList[1]]
         /\ freeHead' = [tag |-> freeHead.tag + 1, index |-> index[t]]
         /\ freeList' = Tail(freeList)
         /\ nextFree' = nextFree
         /\ FreeIndices' = FreeIndices \ {freeList[1]}
         /\ FreeDistinct'
<1>1. /\ head[t] = freeHead /\ freeHead' = [tag |-> freeHead.tag + 1, index |-> index[t]]
      /\ freeList' = Tail(freeList) /\ nextFree' = nextFree
      /\ pc[t] = "pop exchange"
  BY DEF popExchange, At, NextTag
<1>2. freeHead.index # NoIndex
  BY <1>1, Bounds DEF PoolInv, PoppedInUse
<1>3. freeList # <<>> /\ freeHead.index = freeList[1]
  BY <1>2, HeadIsFirst
<1>4. index[t] = nextFree[freeList[1]]
  BY <1>1, <1>3 DEF PoolInv, SuccessorsCurrent
<1>5. /\ Len(freeList) \in Nat \ {0} /\ Len(freeList') = Len(freeList) - 1
      /\ \A n \in 1 .. Len(freeList) - 1 : freeList'[n] = freeList[n + 1]
  BY <1>1, <1>3, PopList DEF PoolInv, PoolTypeOK
<1>6. FreeDistinct
  BY DEF PoolInv
<1>7. FreeDistinct'
  <2>1. SUFFICES ASSUME NEW m \in 1 .. Len(freeList'), NEW n \in 1 .. Len(freeList'),
                        freeList'[m] = freeList'[n]
                 PROVE  m = n
    BY DEF FreeDistinct
  <2>2. m + 1 \in 1 .. Len(freeList) /\ n + 1 \in 1 .. Len(freeList)
    BY <1>5
  <2>3. freeList[m + 1] = freeList[n + 1]
    BY <1>5, <2>1
  <2>4. m + 1 = n + 1
    BY <1>6, <2>2, <2>3 DEF FreeDistinct
  <2>5. QED
    BY <1>5, <2>4
<1>8. FreeIndices' = FreeIndices \ {freeList[1]}
  <2>1. ASSUME NEW n \in 1 .. Len(freeList')
        PROVE  freeList'[n] \in FreeIndices /\ freeList'[n] # freeList[1]
    <3>1. n + 1 \in 1 .. Len(freeList) /\ n + 1 # 1 /\ freeList'[n] = freeList[n + 1]
      BY <1>5
    <3>2. QED
      BY <1>5, <1>6, <3>1 DEF FreeDistinct, FreeIndices
  <2>2. ASSUME NEW n \in 1 .. Len(freeList), freeList[n] # freeList[1]
        PROVE  freeList[n] \in FreeIndices'
    <3>1. n # 1 /\ n - 1 \in 1 .. Len(freeList') /\ freeList'[n - 1] = freeList[(n - 1) + 1]
      BY <1>5, <2>2
    <3>2. (n - 1) + 1 = n
      BY <1>5
    <3>3. QED
      BY <3>1, <3>2 DEF FreeIndices
  <2>3. QED
    BY <2>1, <2>2 DEF FreeIndices
<1>9. QED
  BY <1>1, <1>2, <1>4, <1>7, <1>8

(* What a push that finds its head in place knows. *)
LEMMA PushEffect ==
  ASSUME PoolInv, NEW t \in Threads, releaseExchange(t)
  PROVE  /\ head[t] = freeHead /\ Held(t)
         /\ nextFree[index[t]] = freeHead.index
         /\ freeHead' = [tag |-> freeHead.tag + 1, index |-> index[t]]
         /\ freeList' = <<index[t]>> \o freeList
         /\ nextFree' = nextFree
         /\ FreeIndices' = FreeIndices \cup {index[t]}
         /\ FreeDistinct'
<1>1. /\ head[t] = freeHead /\ freeHead' = [tag |-> freeHead.tag + 1, index |-> index[t]]
      /\ freeList' = <<index[t]>> \o freeList /\ nextFree' = nextFree
      /\ pc[t] = "release exchange"
  BY DEF releaseExchange, At, NextTag
<1>2. Held(t)
  BY <1>1 DEF Held, Holding
<1>3. nextFree[index[t]] = freeHead.index
  BY <1>1 DEF PoolInv, PushesLinked
<1>4. index[t] \in Index /\ index[t] \notin FreeIndices
  BY <1>2 DEF PoolInv, OwnersCover, OwnersDisjoint
<1>5. /\ Len(freeList) \in Nat /\ Len(freeList') = Len(freeList) + 1
      /\ freeList'[1] = index[t]
      /\ \A n \in 1 .. Len(freeList) : freeList'[n + 1] = freeList[n]
  BY <1>1, <1>4, PushList DEF PoolInv, PoolTypeOK
<1>6. ASSUME NEW n \in 1 .. Len(freeList'), n # 1
      PROVE  n - 1 \in 1 .. Len(freeList) /\ freeList'[n] = freeList[n - 1]
  <2>1. n - 1 \in 1 .. Len(freeList) /\ (n - 1) + 1 = n
    BY <1>5, <1>6
  <2>2. QED
    BY <1>5, <2>1
<1>7. FreeDistinct
  BY DEF PoolInv
<1>8. FreeDistinct'
  <2>1. SUFFICES ASSUME NEW m \in 1 .. Len(freeList'), NEW n \in 1 .. Len(freeList'),
                        freeList'[m] = freeList'[n]
                 PROVE  m = n
    BY DEF FreeDistinct
  <2>2. CASE m # 1 /\ n # 1
    <3>1. freeList[m - 1] = freeList[n - 1]
      BY <1>6, <2>1, <2>2
    <3>2. m - 1 = n - 1
      BY <1>6, <1>7, <2>2, <3>1 DEF FreeDistinct
    <3>3. QED
      BY <1>5, <3>2
  <2>3. CASE m = 1 /\ n # 1
    BY <1>4, <1>5, <1>6, <2>1, <2>3 DEF FreeIndices
  <2>4. CASE m # 1 /\ n = 1
    BY <1>4, <1>5, <1>6, <2>1, <2>4 DEF FreeIndices
  <2>5. QED
    BY <2>2, <2>3, <2>4
<1>9. FreeIndices' = FreeIndices \cup {index[t]}
  <2>1. ASSUME NEW n \in 1 .. Len(freeList')
        PROVE  freeList'[n] \in FreeIndices \cup {index[t]}
    BY <1>5, <1>6 DEF FreeIndices
  <2>2. ASSUME NEW n \in 1 .. Len(freeList) PROVE freeList[n] \in FreeIndices'
    <3>1. n + 1 \in 1 .. Len(freeList') /\ freeList'[n + 1] = freeList[n]
      BY <1>5
    <3>2. QED
      BY <3>1 DEF FreeIndices
  <2>3. index[t] \in FreeIndices'
    <3>1. 1 \in 1 .. Len(freeList')
      BY <1>5
    <3>2. QED
      BY <1>5, <3>1 DEF FreeIndices
  <2>4. QED
    BY <2>1, <2>2, <2>3 DEF FreeIndices
<1>10. QED
  BY <1>1, <1>2, <1>3, <1>8, <1>9

(* A slot whose thread means to push it is not on the free list: writing its *)
(* nextFree changes no link.                                                 *)
LEMMA StoreEffect ==
  ASSUME PoolInv, NEW t \in Threads, releaseStoreNext(t)
  PROVE  /\ Held(t) /\ index[t] \in Index /\ index[t] \notin FreeIndices
         /\ nextFree' = [nextFree EXCEPT ![index[t]] = head[t].index]
         /\ UNCHANGED <<freeHead, freeList>>
<1>1. Held(t)
  BY DEF releaseStoreNext, At, Held, Holding
<1>2. QED
  BY <1>1 DEF releaseStoreNext, PoolInv, OwnersCover, OwnersDisjoint

LEMMA NextLinked ==
  ASSUME PoolInv, NEW t \in Threads, PoolStep(t) PROVE FreeListLinked' /\ FreeDistinct'
<1> USE DEF PoolInv
<1>1. CASE UNCHANGED <<freeHead, freeList, nextFree>>
  BY <1>1 DEF FreeListLinked, FreeDistinct
<1>2. CASE popExchange(t)
  <2>1. freeList # <<>> /\ freeHead.index = freeList[1]
    BY <1>2, PopEffect, HeadIsFirst
  <2>2. /\ Len(freeList) \in Nat \ {0} /\ Len(freeList') = Len(freeList) - 1
        /\ \A n \in 1 .. Len(freeList) - 1 : freeList'[n] = freeList[n + 1]
        /\ freeList' = <<>> <=> Len(freeList) = 1
    BY <1>2, <2>1, PopEffect, PopList DEF PoolTypeOK
  <2>3. freeHead'.index = nextFree[freeList[1]]
    BY <1>2, PopEffect
  <2>4. freeHead'.index = IF freeList' = <<>> THEN NoIndex ELSE freeList'[1]
    <3>1. 1 \in 1 .. Len(freeList)
      BY <2>2
    <3>2. nextFree[freeList[1]] = IF 1 = Len(freeList) THEN NoIndex ELSE freeList[1 + 1]
      BY <3>1 DEF FreeListLinked
    <3>3. 1 # Len(freeList) => freeList'[1] = freeList[1 + 1]
      BY <2>2
    <3>4. QED
      BY <2>2, <2>3, <3>2, <3>3
  <2>5. ASSUME NEW n \in 1 .. Len(freeList')
        PROVE  nextFree'[freeList'[n]] =
                 IF n = Len(freeList') THEN NoIndex ELSE freeList'[n + 1]
    <3>1. n + 1 \in 1 .. Len(freeList) /\ freeList'[n] = freeList[n + 1]
      BY <2>2
    <3>2. nextFree[freeList[n + 1]] =
            IF n + 1 = Len(freeList) THEN NoIndex ELSE freeList[(n + 1) + 1]
      BY <3>1 DEF FreeListLinked
    <3>3. n + 1 # Len(freeList) => freeList'[n + 1] = freeList[(n + 1) + 1]
      BY <2>2, <3>1
    <3>4. n = Len(freeList') <=> n + 1 = Len(freeList)
      BY <2>2
    <3>5. nextFree' = nextFree
      BY <1>2, PopEffect
    <3>6. QED
      BY <3>1, <3>2, <3>3, <3>4, <3>5
  <2>6. QED
    BY <1>2, <2>4, <2>5, PopEffect DEF FreeListLinked
<1>3. CASE releaseExchange(t)
  <2>1. index[t] \in Index
    BY <1>3, PushEffect DEF OwnersCover
  <2>2. /\ Len(freeList) \in Nat /\ Len(freeList') = Len(freeList) + 1
        /\ freeList'[1] = index[t] /\ freeList' # <<>>
        /\ \A n \in 1 .. Len(freeList) : freeList'[n + 1] = freeList[n]
    <3>1. freeList' = <<index[t]>> \o freeList
      BY <1>3, PushEffect
    <3>2. freeList \in Seq(Index)
      BY DEF PoolTypeOK
    <3>3. QED
      BY <2>1, <3>1, <3>2, PushList
  <2>3. /\ freeHead'.index = index[t]
        /\ nextFree' = nextFree /\ nextFree[index[t]] = freeHead.index
    <3>1. freeHead' = [tag |-> freeHead.tag + 1, index |-> index[t]]
      BY <1>3, PushEffect
    <3>2. QED
      BY <1>3, <3>1, PushEffect
  <2>4. freeHead'.index = freeList'[1]
    BY <2>2, <2>3
  <2>5. ASSUME NEW n \in 1 .. Len(freeList')
        PROVE  nextFree'[freeList'[n]] =
                 IF n = Len(freeList') THEN NoIndex ELSE freeList'[n + 1]
    <3>1. CASE n = 1
      <4>1. nextFree'[freeList'[1]] = IF freeList = <<>> THEN NoIndex ELSE freeList[1]
        BY <2>2, <2>3 DEF FreeListLinked
      <4>2. freeList = <<>> <=> Len(freeList) = 0
        BY EmptySeq DEF PoolTypeOK
      <4>3. Len(freeList) # 0 => freeList'[1 + 1] = freeList[1]
        BY <2>2
      <4>4. QED
        BY <2>2, <3>1, <4>1, <4>2, <4>3
    <3>2. CASE n # 1
      <4>1. n - 1 \in 1 .. Len(freeList) /\ (n - 1) + 1 = n
        BY <2>2, <3>2
      <4>2. freeList'[n] = freeList[n - 1]
        BY <2>2, <4>1
      <4>3. nextFree[freeList[n - 1]] =
              IF n - 1 = Len(freeList) THEN NoIndex ELSE freeList[(n - 1) + 1]
        BY <4>1 DEF FreeListLinked
      <4>4. n - 1 # Len(freeList) => freeList'[n + 1] = freeList[(n - 1) + 1]
        BY <2>2, <4>1
      <4>5. n = Len(freeList') <=> n - 1 = Len(freeList)
        BY <2>2, <4>1
      <4>6. QED
        BY <2>3, <4>2, <4>3, <4>4, <4>5
    <3>3. QED
      BY <3>1, <3>2
  <2>6. QED
    BY <1>3, <2>2, <2>4, <2>5, PushEffect DEF FreeListLinked
<1>4. CASE releaseStoreNext(t)
  <2>1. /\ index[t] \notin FreeIndices
        /\ nextFree' = [nextFree EXCEPT ![index[t]] = head[t].index]
        /\ UNCHANGED <<freeHead, freeList>>
    BY <1>4, StoreEffect
  <2>2. \A n \in 1 .. Len(freeList) : nextFree'[freeList[n]] = nextFree[freeList[n]]
    <3>1. ASSUME NEW n \in 1 .. Len(freeList)
          PROVE  freeList[n] \in Index /\ freeList[n] # index[t]
      BY <2>1, ElementOfSeq DEF FreeIndices, PoolTypeOK
    <3>2. QED
      BY <2>1, <3>1 DEF PoolTypeOK
  <2>3. QED
    BY <2>1, <2>2 DEF FreeListLinked, FreeDistinct
<1>5. QED
  BY <1>1, <1>2, <1>3, <1>4, ListSteps

-----------------------------------------------------------------------------
(* Who owns which index. *)

(* A thread takes an index nobody else claims; the rest of the pool gives it *)
(* up, or the capacity has just grown to it.                                 *)
LEMMA Takes ==
  ASSUME PoolInv, NEW t \in Threads, NEW i \in Index,
         ~Held(t), Held(t)', index'[t] = i,
         \A u \in Threads \ {t} : pc'[u] = pc[u] /\ index'[u] = index[u],
         ~OwnedByThread(i), i \notin live', i \notin FreeIndices',
         live' \subseteq live, FreeIndices' \subseteq FreeIndices,
         \A j \in Index \ {i} : /\ j \in live' <=> j \in live
                                /\ j \in FreeIndices' <=> j \in FreeIndices
                                /\ j < capacity' <=> j < capacity,
         i < capacity'
  PROVE  OwnersDisjoint' /\ OwnersCover'
<1>1. \A u \in Threads \ {t} : /\ Held(u)' <=> Held(u)
                               /\ index'[u] = index[u]
                               /\ Held(u) => index[u] # i
  BY DEF Held, OwnedByThread
<1>2. OwnersDisjoint'
  BY <1>1 DEF PoolInv, OwnersDisjoint
<1>3. \A j \in Index \ {i} : OwnedByThread(j)' <=> OwnedByThread(j)
  BY <1>1 DEF OwnedByThread
<1>4. OwnedByThread(i)'
  BY DEF OwnedByThread
<1>5. OwnersCover'
  BY <1>1, <1>3, <1>4 DEF PoolInv, OwnersCover
<1>6. QED
  BY <1>2, <1>5

(* A thread gives its index to the live objects or to the free list. *)
LEMMA Gives ==
  ASSUME PoolInv, NEW t \in Threads,
         Held(t), ~Held(t)',
         \A u \in Threads \ {t} : pc'[u] = pc[u] /\ index'[u] = index[u],
         \/ live' = live \cup {index[t]} /\ FreeIndices' = FreeIndices
         \/ live' = live /\ FreeIndices' = FreeIndices \cup {index[t]},
         capacity' = capacity
  PROVE  OwnersDisjoint' /\ OwnersCover'
<1>1. \A u \in Threads \ {t} : /\ Held(u)' <=> Held(u)
                               /\ index'[u] = index[u]
                               /\ Held(u) => index[u] # index[t]
  BY DEF Held, PoolInv, OwnersDisjoint
<1>2. OwnersDisjoint'
  BY <1>1 DEF PoolInv, OwnersDisjoint
<1>3. PICK i \in Index : i = index[t]
  BY DEF PoolInv, OwnersCover
<1>4. \A j \in Index \ {i} : OwnedByThread(j)' <=> OwnedByThread(j)
  BY <1>1, <1>3 DEF OwnedByThread
<1>5. OwnedByThread(i) /\ ~OwnedByThread(i)'
  BY <1>1, <1>3 DEF OwnedByThread
<1>6. OwnersCover'
  BY <1>1, <1>3, <1>4, <1>5 DEF PoolInv, OwnersCover
<1>7. QED
  BY <1>2, <1>6

LEMMA NextOwners ==
  ASSUME PoolInv, NEW t \in Threads, PoolStep(t) PROVE OwnersDisjoint' /\ OwnersCover'
<1>1. \A u \in Threads \ {t} : pc'[u] = pc[u] /\ index'[u] = index[u]
  BY OthersKeep DEF PoolInv
<1>2. CASE /\ UNCHANGED <<capacity, live, freeList>>
           /\ Held(t)' <=> Held(t)
           /\ Held(t) => index'[t] = index[t]
  <2>1. \A u \in Threads : /\ Held(u)' <=> Held(u)
                           /\ Held(u) => index'[u] = index[u]
    BY <1>1, <1>2 DEF Held
  <2>2. FreeIndices' = FreeIndices
    BY <1>2 DEF FreeIndices
  <2>3. \A j \in Index : OwnedByThread(j)' <=> OwnedByThread(j)
    BY <2>1 DEF OwnedByThread
  <2>4. QED
    BY <1>2, <2>1, <2>2, <2>3 DEF PoolInv, OwnersDisjoint, OwnersCover
<1>3. CASE popExchange(t)
  <2>1. PICK i \in Index : i = freeList[1]
    BY <1>3, PopEffect, HeadIsFirst
  <2>2. i \in FreeIndices /\ i < capacity
    BY <1>3, <2>1, PopEffect, HeadIsFirst
  <2>3. head[t].index = i
    BY <1>3, <2>1, PopEffect, HeadIsFirst
  <2>4. ~Held(t) /\ Held(t)' /\ index'[t] = i /\ UNCHANGED <<capacity, live>>
    BY <1>3, <2>3 DEF popExchange, At, Goto, Held, Holding, PoolInv, PoolTypeOK
  <2>5. FreeIndices' = FreeIndices \ {i}
    BY <1>3, <2>1, PopEffect
  <2>6. ~OwnedByThread(i) /\ i \notin live
    BY <2>2 DEF PoolInv, OwnersDisjoint, OwnedByThread
  <2>7. QED
    BY <1>1, <2>2, <2>4, <2>5, <2>6, Takes
<1>4. CASE growExchange(t)
  <2>1. index[t] \in Index
    BY <1>4 DEF growExchange, At, PoolInv, GrowthPrepared
  <2>2. PICK i \in Index : i = index[t]
    BY <2>1
  <2>3. i = capacity /\ capacity' = capacity + 1
    BY <1>4, <2>2 DEF growExchange, CapacityUnchanged
  <2>4. ~Held(t) /\ Held(t)' /\ index'[t] = i /\ UNCHANGED <<live, freeList>>
    BY <1>4, <2>2 DEF growExchange, At, Goto, Held, Holding, PoolInv, PoolTypeOK
  <2>5. FreeIndices' = FreeIndices
    BY <2>4 DEF FreeIndices
  <2>6. i \in Nat /\ ~(i < capacity)
    BY <2>3, Bounds
  <2>7. ~OwnedByThread(i) /\ i \notin live /\ i \notin FreeIndices
    BY <2>6 DEF PoolInv, OwnersCover
  <2>8. i < capacity' /\ \A j \in Index \ {i} : j < capacity' <=> j < capacity
    BY <2>3, <2>6, Bounds
  <2>9. QED
    BY <1>1, <2>4, <2>5, <2>7, <2>8, Takes
<1>5. CASE allocateReturns(t)
  <2>1. Held(t) /\ ~Held(t)' /\ live' = live \cup {index[t]} /\ UNCHANGED <<capacity, freeList>>
    BY <1>5 DEF allocateReturns, At, Return, Goto, Held, Holding, shared, PoolInv, PoolTypeOK
  <2>2. FreeIndices' = FreeIndices
    BY <2>1 DEF FreeIndices
  <2>3. QED
    BY <1>1, <2>1, <2>2, Gives
<1>6. CASE \E i \in Index : deallocate(t, i)
  <2>1. PICK i \in Index : deallocate(t, i)
    BY <1>6
  <2>2. /\ ~Held(t) /\ Held(t)' /\ index'[t] = i
        /\ i \in live /\ live' = live \ {i} /\ UNCHANGED <<capacity, freeList>>
    BY <2>1 DEF deallocate, At, Goto, Held, Holding, shared, PoolInv, PoolTypeOK
  <2>3. FreeIndices' = FreeIndices
    BY <2>2 DEF FreeIndices
  <2>4. ~OwnedByThread(i) /\ i \notin FreeIndices /\ i < capacity
    BY <2>2 DEF PoolInv, OwnersDisjoint, OwnersCover, OwnedByThread
  <2>5. QED
    BY <1>1, <2>2, <2>3, <2>4, Takes
<1>7. CASE releaseExchange(t)
  <2>1. ~Held(t)' /\ UNCHANGED <<capacity, live>>
    BY <1>7 DEF releaseExchange, Return, Goto, Held, Holding, PoolInv, PoolTypeOK
  <2>2. Held(t) /\ FreeIndices' = FreeIndices \cup {index[t]}
    BY <1>7, PushEffect
  <2>3. QED
    BY <1>1, <2>1, <2>2, Gives
<1>8. QED
  BY <1>2, <1>3, <1>4, <1>5, <1>6, <1>7, OwnerSteps DEF PoolInv

-----------------------------------------------------------------------------
(* What threads know. *)

(* The tag of the free list's head only grows, and changes with the head. *)
LEMMA TagGrows ==
  ASSUME PoolInv, NEW t \in Threads, PoolStep(t)
  PROVE  /\ freeHead.tag \in Nat
         /\ \/ freeHead' = freeHead
            \/ freeHead'.tag = freeHead.tag + 1
<1>1. freeHead.tag \in Nat
  BY Bounds DEF PoolInv, PoolTypeOK, Word
<1>2. CASE popExchange(t)
  <2>1. freeHead' = [tag |-> freeHead.tag + 1, index |-> index[t]]
    BY <1>2, PopEffect
  <2>2. QED
    BY <1>1, <2>1
<1>3. CASE releaseExchange(t)
  <2>1. freeHead' = [tag |-> freeHead.tag + 1, index |-> index[t]]
    BY <1>3, PushEffect
  <2>2. QED
    BY <1>1, <2>1
<1>4. CASE releaseStoreNext(t)
  BY <1>1, <1>4, StoreEffect
<1>5. QED
  BY <1>1, <1>2, <1>3, <1>4, ListSteps

(* The head a thread holds is the one it had, the current one, or none. *)
LEMMA HeadSteps ==
  ASSUME PoolTypeOK, NEW t \in Threads, PoolStep(t), NEW u \in Threads
  PROVE  \/ head'[u] = head[u] \/ head'[u] = EmptyWord
         \/ head'[u] = freeHead /\ freeHead' = freeHead
BY DEF PoolTypeOK, PoolStep, Goto, Return, LoadHead, shared, allocate, popReadNext,
  popExchange, popExchangeFails, popCount, growLoad, capacityExceeded,
  ensureCapacity, growBlockCount, growExchange, growExchangeFails, construct,
  constructorThrows, allocateReturns, deallocate, releaseCount, releaseLoad,
  releaseStoreNext, releaseExchange, releaseExchangeFails

LEMMA NextHeadsPast ==
  ASSUME PoolInv, NEW t \in Threads, PoolStep(t) PROVE HeadsPast'
<1> SUFFICES ASSUME NEW u \in Threads PROVE head'[u].tag <= freeHead'.tag
  BY DEF HeadsPast
<1>1. head[u].tag \in Nat /\ head[u].tag <= freeHead.tag
  BY Bounds DEF PoolInv, HeadsPast, PoolTypeOK, Word
<1>2. freeHead.tag \in Nat /\ freeHead'.tag \in Nat /\ freeHead.tag <= freeHead'.tag
  BY TagGrows
<1>3. EmptyWord.tag = 0
  BY DEF EmptyWord
<1>4. QED
  BY <1>1, <1>2, <1>3, HeadSteps DEF PoolInv

(* How threads come to pop, to know a successor, and to push. *)
LEMMA PopSteps ==
  ASSUME PoolInv, NEW t \in Threads, PoolStep(t)
  PROVE  /\ pc'[t] = "pop next" => freeHead.index # NoIndex /\ head'[t] = freeHead
         /\ pc'[t] = "pop exchange" =>
              /\ pc[t] = "pop next" /\ head'[t] = head[t]
              /\ index'[t] = nextFree[head[t].index]
              /\ UNCHANGED <<nextFree, freeHead>>
         /\ pc'[t] = "release exchange" => releaseStoreNext(t)
<1> USE DEF PoolInv, PoolTypeOK, PoolStep, Goto, Return, LoadHead, PopOrGrow, shared, At,
  allocate, popReadNext,
  popExchange, popExchangeFails, popCount, growLoad, capacityExceeded,
  ensureCapacity, growBlockCount, growExchange, growExchangeFails, construct,
  constructorThrows, allocateReturns, deallocate, releaseCount, releaseLoad,
  releaseExchange, releaseExchangeFails
<1>1. pc'[t] = "release exchange" => releaseStoreNext(t)
  OBVIOUS
<1> USE DEF releaseStoreNext
<1>2. pc'[t] = "pop next" => freeHead.index # NoIndex /\ head'[t] = freeHead
  OBVIOUS
<1>3. pc'[t] = "pop exchange" =>
        /\ pc[t] = "pop next" /\ head'[t] = head[t]
        /\ index'[t] = nextFree[head[t].index]
        /\ UNCHANGED <<nextFree, freeHead>>
  OBVIOUS
<1>4. QED
  BY <1>1, <1>2, <1>3

LEMMA NextPoppedInUse ==
  ASSUME PoolInv, NEW t \in Threads, PoolStep(t) PROVE PoppedInUse'
<1> SUFFICES ASSUME NEW u \in Threads, pc'[u] \in {"pop next", "pop exchange"}
             PROVE  head'[u].index \in Index /\ head'[u].index < capacity'
  BY DEF PoppedInUse
<1>1. \/ pc[u] \in {"pop next", "pop exchange"} /\ head'[u] = head[u]
      \/ freeHead.index # NoIndex /\ head'[u] = freeHead
  BY PopSteps, OthersKeep DEF PoolInv
<1>2. head'[u].index \in Index /\ head'[u].index < capacity
  BY <1>1, HeadIsFirst DEF PoolInv, PoppedInUse
<1>3. ASSUME NEW i \in Index, i < capacity PROVE i < capacity'
  <2>1. i \in Nat
    BY Bounds
  <2>2. capacity \in Nat /\ capacity' \in Nat /\ capacity <= capacity'
    BY Growth
  <2>3. QED
    BY <1>3, <2>1, <2>2, Below
<1>4. QED
  BY <1>2, <1>3

LEMMA NextSuccessorsCurrent ==
  ASSUME PoolInv, NEW t \in Threads, PoolStep(t) PROVE SuccessorsCurrent'
<1> SUFFICES ASSUME NEW u \in Threads, pc'[u] = "pop exchange", head'[u] = freeHead'
             PROVE  index'[u] = nextFree'[head'[u].index]
  BY DEF SuccessorsCurrent
<1>1. CASE u = t
  BY <1>1, PopSteps
<1>2. CASE u # t
  <2>1. pc[u] = "pop exchange" /\ head'[u] = head[u] /\ index'[u] = index[u]
    BY <1>2, OthersKeep DEF PoolInv
  <2>2. head[u].tag \in Nat /\ freeHead.tag \in Nat /\ head[u].tag <= freeHead.tag
    <3>1. head[u] \in Word /\ head[u].tag <= freeHead.tag
      BY DEF PoolInv, HeadsPast, PoolTypeOK
    <3>2. head[u].tag \in Nat
      BY <3>1, WordTag
    <3>3. freeHead.tag \in Nat
      BY TagGrows
    <3>4. QED
      BY <3>1, <3>2, <3>3
  <2>3. freeHead' = freeHead
    <3>1. freeHead'.tag = head[u].tag
      BY <2>1
    <3>2. freeHead'.tag # freeHead.tag + 1
      BY <2>2, <3>1, NotAfter
    <3>3. QED
      BY <3>2, TagGrows
  <2>4. index[u] = nextFree[head[u].index]
    BY <2>1, <2>3 DEF PoolInv, SuccessorsCurrent
  <2>5. nextFree'[head[u].index] = nextFree[head[u].index]
    <3>1. CASE nextFree' = nextFree
      BY <3>1
    <3>2. CASE releaseStoreNext(t)
      <4>1. head[u].index \in Index /\ head[u].index # NoIndex
        BY <2>1, Bounds DEF PoolInv, PoppedInUse
      <4>2. head[u].index \in FreeIndices
        BY <2>1, <2>3, <4>1, HeadIsFirst
      <4>3. head[u].index # index[t]
        BY <3>2, <4>2, StoreEffect
      <4>4. nextFree' = [nextFree EXCEPT ![index[t]] = head[t].index]
        BY <3>2, StoreEffect
      <4>5. QED
        BY <4>1, <4>3, <4>4 DEF PoolInv, PoolTypeOK
    <3>3. QED
      BY <3>1, <3>2, ListSteps, PopEffect, PushEffect
  <2>6. QED
    BY <2>1, <2>4, <2>5
<1>3. QED
  BY <1>1, <1>2

LEMMA NextPushesLinked ==
  ASSUME PoolInv, NEW t \in Threads, PoolStep(t) PROVE PushesLinked'
<1> SUFFICES ASSUME NEW u \in Threads, pc'[u] = "release exchange"
             PROVE  nextFree'[index'[u]] = head'[u].index
  BY DEF PushesLinked
<1>1. CASE u = t
  <2>1. releaseStoreNext(t)
    BY <1>1, PopSteps
  <2>2. head' = head /\ index' = index
    BY <2>1 DEF releaseStoreNext
  <2>3. /\ nextFree' = [nextFree EXCEPT ![index[t]] = head[t].index]
        /\ index[t] \in Index
    BY <2>1, StoreEffect
  <2>4. nextFree'[index[t]] = head[t].index
    BY <2>3 DEF PoolInv, PoolTypeOK
  <2>5. QED
    BY <1>1, <2>2, <2>4
<1>2. CASE u # t
  <2>1. pc[u] = "release exchange" /\ head'[u] = head[u] /\ index'[u] = index[u]
    BY <1>2, OthersKeep DEF PoolInv
  <2>2. Held(u) /\ index[u] \in Index /\ nextFree[index[u]] = head[u].index
    BY <2>1 DEF PoolInv, PushesLinked, OwnersCover, Held, Holding
  <2>3. nextFree'[index[u]] = nextFree[index[u]]
    <3>1. CASE nextFree' = nextFree
      BY <3>1
    <3>2. CASE releaseStoreNext(t)
      <4>1. index[u] # index[t]
        BY <1>2, <2>2, <3>2, StoreEffect DEF PoolInv, OwnersDisjoint
      <4>2. nextFree' = [nextFree EXCEPT ![index[t]] = head[t].index]
        BY <3>2, StoreEffect
      <4>3. QED
        BY <2>2, <4>1, <4>2 DEF PoolInv, PoolTypeOK
    <3>3. QED
      BY <3>1, <3>2, ListSteps, PopEffect, PushEffect
  <2>4. QED
    BY <2>1, <2>2, <2>3
<1>3. QED
  BY <1>1, <1>2

-----------------------------------------------------------------------------
(* Growing. *)

(* How threads come to the steps that grow the pool. *)
LEMMA GrowSteps ==
  ASSUME PoolInv, NEW t \in Threads, PoolStep(t)
  PROVE  /\ pc'[t] = "grow block" =>
              \/ index'[t] = capacity
              \/ pc[t] = "grow block" /\ index'[t] = index[t]
         /\ pc'[t] = "grow count" => ensureCapacity(t)
         /\ pc'[t] = "grow exchange" => growBlockCount(t)
<1> USE DEF PoolInv, PoolTypeOK, PoolStep, Goto, Return, LoadHead, PopOrGrow, shared, At,
  allocate, popReadNext,
  popExchange, popExchangeFails, popCount, growLoad, capacityExceeded,
  growExchange, growExchangeFails, construct,
  constructorThrows, allocateReturns, deallocate, releaseCount, releaseLoad,
  releaseStoreNext, releaseExchange, releaseExchangeFails
<1>1. pc'[t] = "grow count" => ensureCapacity(t)
  BY DEF growBlockCount
<1>2. pc'[t] = "grow exchange" => growBlockCount(t)
  BY DEF ensureCapacity
<1>3. pc'[t] = "grow block" =>
        \/ index'[t] = capacity
        \/ pc[t] = "grow block" /\ index'[t] = index[t]
  BY DEF growBlockCount, ensureCapacity
<1>4. QED
  BY <1>1, <1>2, <1>3

LEMMA NextGrowth ==
  ASSUME PoolInv, NEW t \in Threads, PoolStep(t) PROVE GrowthPrepared'
<1>1. \A u \in Threads : pc[u] \in {"grow block", "grow count", "grow exchange"} =>
        index[u] \in Nat
  BY Bounds DEF PoolInv, PoolTypeOK
<1>2. ASSUME NEW u \in Threads,
             pc'[u] = pc[u] /\ index'[u] = index[u],
             pc[u] \in {"grow block", "grow count", "grow exchange"}
      PROVE  /\ index'[u] <= capacity'
             /\ pc[u] \in {"grow count", "grow exchange"} =>
                  index'[u] \in Index /\ BlockOf(index'[u]) \in blocks'
             /\ pc[u] = "grow exchange" => BlockOf(index'[u]) < blockCount'
  <2>1. index[u] <= capacity
    BY <1>2 DEF PoolInv, GrowthPrepared
  <2>2. index[u] <= capacity'
    <3>1. index[u] \in Nat
      BY <1>1, <1>2
    <3>2. capacity \in Nat /\ capacity' \in Nat /\ capacity <= capacity'
      BY Growth
    <3>3. QED
      BY <2>1, <3>1, <3>2
  <2>3. pc[u] \in {"grow count", "grow exchange"} =>
          index[u] \in Index /\ BlockOf(index[u]) \in blocks'
    BY Growth DEF PoolInv, GrowthPrepared
  <2>4. pc[u] = "grow exchange" => BlockOf(index[u]) < blockCount'
    <3>1. BlockOf(index[u]) \in Nat
      BY <1>1, <1>2, BlockBound
    <3>2. pc[u] = "grow exchange" => BlockOf(index[u]) < blockCount
      BY DEF PoolInv, GrowthPrepared
    <3>3. blockCount \in Nat /\ blockCount' \in Nat /\ blockCount <= blockCount'
      BY Growth
    <3>4. QED
      BY <3>1, <3>2, <3>3, Below
  <2>5. QED
    BY <1>2, <2>2, <2>3, <2>4
<1>3. CASE ensureCapacity(t)
  <2>1. /\ pc[t] = "grow block" /\ index' = index /\ pc'[t] = "grow count"
        /\ blocks' = blocks \cup {BlockOf(index[t])} /\ capacity' = capacity
        /\ index[t] # NoIndex
    BY <1>3 DEF ensureCapacity, At, Goto, PoolInv, PoolTypeOK
  <2>2. index[t] \in Index /\ index[t] <= capacity
    BY <2>1 DEF PoolInv, PoolTypeOK, GrowthPrepared
  <2>3. \A u \in Threads \ {t} : pc'[u] = pc[u] /\ index'[u] = index[u]
    BY OthersKeep DEF PoolInv
  <2>4. QED
    BY <1>2, <2>1, <2>2, <2>3 DEF GrowthPrepared
<1>4. CASE growBlockCount(t)
  <2>1. /\ pc[t] = "grow count" /\ index' = index /\ pc'[t] = "grow exchange"
        /\ blocks' = blocks /\ capacity' = capacity
    BY <1>4 DEF growBlockCount, At, Goto, PoolInv, PoolTypeOK
  <2>2. index[t] \in Index /\ index[t] <= capacity /\ BlockOf(index[t]) \in blocks
    BY <2>1 DEF PoolInv, GrowthPrepared
  <2>3. \A u \in Threads \ {t} : pc'[u] = pc[u] /\ index'[u] = index[u]
    BY OthersKeep DEF PoolInv
  <2>4. BlockOf(index[t]) < blockCount'
    <3>1. BlockOf(index[t]) \in Nat /\ blockCount \in Nat
      BY <1>1, <2>1, BlockBound, Growth
    <3>2. blockCount' = IF blockCount <= BlockOf(index[t])
                          THEN BlockOf(index[t]) + 1 ELSE blockCount
      BY <1>4 DEF growBlockCount, RaisedBlockCount
    <3>3. QED
      BY <3>1, <3>2
  <2>5. QED
    BY <1>2, <2>1, <2>2, <2>3, <2>4 DEF GrowthPrepared
<1>5. CASE ~ensureCapacity(t) /\ ~growBlockCount(t)
  <2>1. pc'[t] = "grow block" =>
          \/ index'[t] = capacity
          \/ pc[t] = "grow block" /\ index'[t] = index[t]
    BY GrowSteps
  <2>2. pc'[t] # "grow count" /\ pc'[t] # "grow exchange"
    BY <1>5, GrowSteps
  <2>3. \A u \in Threads \ {t} : pc'[u] = pc[u] /\ index'[u] = index[u]
    BY OthersKeep DEF PoolInv
  <2>4. pc'[t] = "grow block" => index'[t] <= capacity'
    BY <1>2, <2>1, Growth
  <2>5. QED
    BY <1>2, <2>2, <2>3, <2>4 DEF GrowthPrepared
<1>6. QED
  BY <1>3, <1>4, <1>5

LEMMA NextReach ==
  ASSUME PoolInv, NEW t \in Threads, PoolStep(t) PROVE BlocksReach'
<1> SUFFICES ASSUME NEW i \in 0 .. capacity' - 1
             PROVE  BlockOf(i) \in blocks' /\ BlockOf(i) < blockCount'
  BY DEF BlocksReach
<1>1. i \in Nat /\ BlockOf(i) \in Nat
  BY Growth, BlockBound
<1>2. BlockOf(i) \in blocks /\ BlockOf(i) < blockCount
  <2>1. CASE i < capacity
    <3>1. i \in 0 .. capacity - 1
      BY <1>1, <2>1, Growth
    <3>2. QED
      BY <3>1 DEF PoolInv, BlocksReach
  <2>2. CASE ~(i < capacity)
    <3>1. growExchange(t)
      <4>1. capacity' # capacity
        BY <1>1, <2>2, Growth
      <4>2. QED
        BY <4>1, CapacitySteps DEF ensureCapacity, growBlockCount
    <3>2. capacity = index[t] /\ capacity' = index[t] + 1 /\ pc[t] = "grow exchange"
      BY <3>1 DEF growExchange, CapacityUnchanged, At
    <3>3. i = index[t]
      <4>1. capacity \in Nat /\ capacity' = capacity + 1
        BY <3>2, Growth
      <4>2. i = capacity
        BY <1>1, <2>2, <4>1
      <4>3. QED
        BY <3>2, <4>2
    <3>4. QED
      BY <3>2, <3>3 DEF PoolInv, GrowthPrepared
  <2>3. QED
    BY <2>1, <2>2
<1>3. QED
  BY <1>1, <1>2, Growth

-----------------------------------------------------------------------------
(* The inductive invariant. *)

LEMMA InitInv == PoolInit => PoolInv
<1> SUFFICES ASSUME PoolInit PROVE PoolInv
  OBVIOUS
<1>1. /\ freeList = <<>> /\ Len(freeList) = 0 /\ live = {} /\ capacity = 0
      /\ freeHead = EmptyWord
      /\ \A t \in Threads : pc[t] = "idle" /\ head[t] = EmptyWord
  BY EmptySeq DEF PoolInit
<1>2. FreeIndices = {}
  BY <1>1 DEF FreeIndices
<1>3. \A t \in Threads : ~Held(t)
  BY <1>1 DEF Held, Holding
<1>4. FreeListLinked /\ FreeDistinct
  BY <1>1 DEF FreeListLinked, FreeDistinct, EmptyWord
<1>5. OwnersDisjoint
  BY <1>1, <1>2, <1>3 DEF OwnersDisjoint
<1>6. OwnersCover
  <2>1. \A i \in Index : ~(i < capacity)
    BY <1>1, Bounds
  <2>2. QED
    BY <1>1, <1>2, <1>3, <2>1 DEF OwnersCover, OwnedByThread
<1>7. HeadsPast
  BY <1>1 DEF HeadsPast, EmptyWord
<1>8. PoppedInUse /\ SuccessorsCurrent /\ PushesLinked /\ GrowthPrepared
  BY <1>1 DEF PoppedInUse, SuccessorsCurrent, PushesLinked, GrowthPrepared
<1>9. BlocksReach
  BY <1>1 DEF BlocksReach
<1>10. QED
  BY <1>4, <1>5, <1>6, <1>7, <1>8, <1>9, InitTypes DEF PoolInv

LEMMA StepInv ==
  ASSUME PoolInv, NEW t \in Threads, PoolStep(t) PROVE PoolInv'
<1>1. PoolTypeOK' /\ FreeListLinked' /\ FreeDistinct' /\ OwnersDisjoint' /\ OwnersCover'
  BY StepTypes, NextLinked, NextOwners
<1>2. HeadsPast' /\ PoppedInUse' /\ SuccessorsCurrent' /\ PushesLinked'
  BY NextHeadsPast, NextPoppedInUse, NextSuccessorsCurrent, NextPushesLinked
<1>3. GrowthPrepared' /\ BlocksReach'
  BY NextGrowth, NextReach
<1>4. QED
  BY <1>1, <1>2, <1>3 DEF PoolInv

LEMMA StutterInv == ASSUME PoolInv, UNCHANGED vars PROVE PoolInv'
<1>1. PoolTypeOK' /\ FreeListLinked' /\ FreeDistinct'
  BY DEF PoolInv, vars, PoolTypeOK, FreeListLinked, FreeDistinct
<1>2. OwnersDisjoint' /\ OwnersCover'
  BY DEF PoolInv, vars, OwnersDisjoint, OwnersCover, OwnedByThread, FreeIndices, Held
<1>3. HeadsPast' /\ PoppedInUse' /\ SuccessorsCurrent' /\ PushesLinked'
  BY DEF PoolInv, vars, HeadsPast, PoppedInUse, SuccessorsCurrent, PushesLinked
<1>4. GrowthPrepared' /\ BlocksReach'
  BY DEF PoolInv, vars, GrowthPrepared, BlocksReach
<1>5. QED
  BY <1>1, <1>2, <1>3, <1>4 DEF PoolInv

(* PoolInv holds in every state the threads can reach. *)
THEOREM PoolInvariant == PoolSpec => []PoolInv
<1>1. PoolInv /\ [PoolNext]_vars => PoolInv'
  BY StepInv, StutterInv DEF PoolNext, PoolStep
<1>2. QED
  BY <1>1, InitInv, PTL DEF PoolSpec

(* Types. *)
THEOREM PoolTypes == PoolSpec => []PoolTypeOK
BY PoolInvariant, PTL DEF PoolInv

(* The words in memory spell the free list, whatever stale heads and         *)
(* successors threads have read.                                             *)
THEOREM PoolLinked == PoolSpec => []FreeListLinked
BY PoolInvariant, PTL DEF PoolInv

(* Every index below the capacity has exactly one owner. *)
THEOREM PoolOneOwner == PoolSpec => []OneOwnerPerIndex
<1>1. ASSUME PoolInv PROVE OneOwnerPerIndex
  <2> SUFFICES ASSUME NEW i \in Index
               PROVE  Cardinality({t \in Threads : Held(t) /\ index[t] = i})
                        + Cardinality({n \in 1 .. Len(freeList) : freeList[n] = i})
                        + (IF i \in live THEN 1 ELSE 0)
                        = IF i < capacity THEN 1 ELSE 0
    BY DEF OneOwnerPerIndex
  <2> DEFINE H == {t \in Threads : Held(t) /\ index[t] = i}
             N == {n \in 1 .. Len(freeList) : freeList[n] = i}
  <2>1. Cardinality(H) = IF OwnedByThread(i) THEN 1 ELSE 0
    <3>1. CASE OwnedByThread(i)
      <4>1. PICK t \in Threads : Held(t) /\ index[t] = i
        BY <3>1 DEF OwnedByThread
      <4>2. H = {t}
        BY <1>1, <4>1 DEF PoolInv, OwnersDisjoint
      <4>3. QED
        BY <3>1, <4>2, FS_Singleton
    <3>2. CASE ~OwnedByThread(i)
      <4>1. H = {}
        BY <3>2 DEF OwnedByThread
      <4>2. QED
        BY <3>2, <4>1, FS_EmptySet
    <3>3. QED
      BY <3>1, <3>2
  <2>2. Cardinality(N) = IF i \in FreeIndices THEN 1 ELSE 0
    <3>1. CASE i \in FreeIndices
      <4>1. PICK n \in 1 .. Len(freeList) : freeList[n] = i
        BY <3>1 DEF FreeIndices
      <4>2. N = {n}
        BY <1>1, <4>1 DEF PoolInv, FreeDistinct
      <4>3. QED
        BY <3>1, <4>2, FS_Singleton
    <3>2. CASE i \notin FreeIndices
      <4>1. N = {}
        BY <3>2 DEF FreeIndices
      <4>2. QED
        BY <3>2, <4>1, FS_EmptySet
    <3>3. QED
      BY <3>1, <3>2
  <2>3. /\ ~(i \in live /\ i \in FreeIndices)
        /\ ~(OwnedByThread(i) /\ (i \in live \/ i \in FreeIndices))
    BY <1>1 DEF PoolInv, OwnersDisjoint, OwnedByThread
  <2>4. i < capacity <=> i \in live \/ i \in FreeIndices \/ OwnedByThread(i)
    BY <1>1 DEF PoolInv, OwnersCover
  <2> HIDE DEF H, N
  <2>5. Cardinality(H) + Cardinality(N) + (IF i \in live THEN 1 ELSE 0)
          = IF i < capacity THEN 1 ELSE 0
    BY <2>1, <2>2, <2>3, <2>4
  <2>6. QED
    BY <2>5 DEF H, N
<1>2. QED
  BY <1>1, PoolInvariant, PTL

(* Every index somebody can reach is in a block that exists and is counted. *)
THEOREM PoolBlocks == PoolSpec => []BlocksBackIndices
<1>1. ASSUME PoolInv PROVE BlocksBackIndices
  <2>1. capacity <= IndexLimit
    BY <1>1, Bounds DEF PoolInv, PoolTypeOK
  <2>2. ASSUME NEW t \in Threads, pc[t] = "pop next"
        PROVE  BlockOf(head[t].index) \in blocks
    <3>1. head[t].index \in Index /\ head[t].index < capacity
      BY <1>1, <2>2 DEF PoolInv, PoppedInUse
    <3>2. head[t].index \in 0 .. capacity - 1
      BY <1>1, <3>1, Bounds DEF PoolInv, PoolTypeOK
    <3>3. QED
      BY <1>1, <3>2 DEF PoolInv, BlocksReach
  <2>3. QED
    BY <1>1, <2>1, <2>2 DEF BlocksBackIndices, PoolInv, BlocksReach
<1>2. QED
  BY <1>1, PoolInvariant, PTL

-----------------------------------------------------------------------------
(* The counters. *)

(* Five steps touch liveCount, freeCount or what they count. *)
LEMMA CountSteps ==
  ASSUME PoolInv, NEW t \in Threads, PoolStep(t)
  PROVE  \/ /\ UNCHANGED <<liveCount, freeCount, live, freeList>>
            /\ pc'[t] \in Leaving <=> pc[t] \in Leaving
         \/ popExchange(t) \/ popCount(t) \/ allocateReturns(t)
         \/ \E i \in Index : deallocate(t, i)
         \/ releaseCount(t) \/ releaseExchange(t)
BY DEF PoolInv, PoolTypeOK, PoolStep, At, Goto, Return, LoadHead, PopOrGrow, Leaving,
  counters, allocate, popReadNext,
  popExchangeFails, growLoad, capacityExceeded,
  ensureCapacity, growBlockCount, growExchange, growExchangeFails, construct,
  constructorThrows, releaseLoad,
  releaseStoreNext, releaseExchangeFails

(* A thread that starts or stops leaving. *)
LEMMA LeavingChanges ==
  ASSUME PoolInv, CountInv, NEW t \in Threads, PoolStep(t)
  PROVE  /\ pc[t] \notin Leaving /\ pc'[t] \in Leaving =>
              /\ IsFiniteSet(ThreadsAt(Leaving)')
              /\ Cardinality(ThreadsAt(Leaving)') = Cardinality(ThreadsAt(Leaving)) + 1
         /\ pc[t] \in Leaving /\ pc'[t] \notin Leaving =>
              /\ IsFiniteSet(ThreadsAt(Leaving)')
              /\ Cardinality(ThreadsAt(Leaving)') = Cardinality(ThreadsAt(Leaving)) - 1
         /\ (pc[t] \in Leaving <=> pc'[t] \in Leaving) =>
              ThreadsAt(Leaving)' = ThreadsAt(Leaving)
<1>1. \A u \in Threads \ {t} : pc'[u] = pc[u]
  BY OthersKeep DEF PoolInv
<1>2. IsFiniteSet(ThreadsAt(Leaving))
  BY DEF CountInv
<1>3. CASE pc[t] \notin Leaving /\ pc'[t] \in Leaving
  <2>1. ThreadsAt(Leaving)' = ThreadsAt(Leaving) \cup {t} /\ t \notin ThreadsAt(Leaving)
    BY <1>1, <1>3 DEF ThreadsAt
  <2>2. QED
    BY <1>2, <1>3, <2>1, FS_AddElement
<1>4. CASE pc[t] \in Leaving /\ pc'[t] \notin Leaving
  <2>1. ThreadsAt(Leaving)' = ThreadsAt(Leaving) \ {t} /\ t \in ThreadsAt(Leaving)
    BY <1>1, <1>4 DEF ThreadsAt
  <2>2. QED
    BY <1>2, <1>4, <2>1, FS_RemoveElement
<1>5. CASE pc[t] \in Leaving <=> pc'[t] \in Leaving
  BY <1>1, <1>5 DEF ThreadsAt
<1>6. QED
  BY <1>3, <1>4, <1>5

LEMMA LiveFinite == ASSUME PoolInv PROVE IsFiniteSet(live)
<1>1. IsFiniteSet(0 .. IndexLimit - 1)
  BY FS_Interval, Bounds
<1>2. QED
  BY <1>1, FS_Subset DEF PoolInv, PoolTypeOK, Index

LEMMA NextCounts ==
  ASSUME PoolInv, CountInv, NEW t \in Threads, PoolStep(t) PROVE CountInv'
<1> DEFINE C == Cardinality(ThreadsAt(Leaving))
<1>1. C \in Nat /\ Len(freeList) \in Nat
  BY FS_CardinalityType, LenProperties DEF CountInv, PoolInv, PoolTypeOK
<1>2. CASE /\ UNCHANGED <<liveCount, freeCount, live, freeList>>
           /\ pc'[t] \in Leaving <=> pc[t] \in Leaving
  <2>1. ThreadsAt(Leaving)' = ThreadsAt(Leaving)
    BY <1>2, LeavingChanges
  <2>2. QED
    BY <1>2, <2>1 DEF CountInv
<1>3. CASE popExchange(t)
  <2>1. /\ pc[t] \notin Leaving /\ pc'[t] \in Leaving
        /\ UNCHANGED <<liveCount, freeCount, live>>
    BY <1>3 DEF popExchange, counters, At, Goto, Leaving, PoolInv, PoolTypeOK
  <2>2. IsFiniteSet(ThreadsAt(Leaving)') /\ C' = C + 1
    BY <2>1, LeavingChanges
  <2>3. Len(freeList') = Len(freeList) - 1
    <3>1. freeList' = Tail(freeList) /\ freeList # <<>>
      BY <1>3, PopEffect, HeadIsFirst
    <3>2. QED
      BY <3>1, PopList DEF PoolInv, PoolTypeOK
  <2>4. freeCount' = Len(freeList') + C'
    BY <1>1, <2>1, <2>2, <2>3 DEF CountInv
  <2>5. QED
    BY <2>1, <2>2, <2>4 DEF CountInv
<1>4. CASE popCount(t)
  <2>1. /\ pc[t] \in Leaving /\ pc'[t] \notin Leaving
        /\ UNCHANGED <<liveCount, live, freeList>>
    BY <1>4 DEF popCount, At, Goto, Leaving, PoolInv, PoolTypeOK
  <2>2. IsFiniteSet(ThreadsAt(Leaving)') /\ C' = C - 1
    BY <2>1, LeavingChanges
  <2>3. freeCount' = freeCount - 1
    BY <1>4 DEF popCount
  <2>4. freeCount' = Len(freeList') + C'
    BY <1>1, <2>1, <2>2, <2>3 DEF CountInv
  <2>5. QED
    BY <2>1, <2>2, <2>4 DEF CountInv
<1>5. CASE releaseCount(t)
  <2>1. /\ pc[t] \notin Leaving /\ pc'[t] \in Leaving
        /\ UNCHANGED <<liveCount, live, freeList>>
    BY <1>5 DEF releaseCount, At, Goto, Leaving, PoolInv, PoolTypeOK
  <2>2. IsFiniteSet(ThreadsAt(Leaving)') /\ C' = C + 1
    BY <2>1, LeavingChanges
  <2>3. freeCount' = freeCount + 1
    BY <1>5 DEF releaseCount
  <2>4. freeCount' = Len(freeList') + C'
    BY <1>1, <2>1, <2>2, <2>3 DEF CountInv
  <2>5. QED
    BY <2>1, <2>2, <2>4 DEF CountInv
<1>6. CASE releaseExchange(t)
  <2>1. /\ pc[t] \in Leaving /\ pc'[t] \notin Leaving
        /\ UNCHANGED <<liveCount, freeCount, live>>
    BY <1>6 DEF releaseExchange, Return, counters, At, Goto, Leaving, PoolInv, PoolTypeOK
  <2>2. IsFiniteSet(ThreadsAt(Leaving)') /\ C' = C - 1
    BY <2>1, LeavingChanges
  <2>3. Len(freeList') = Len(freeList) + 1
    <3>1. freeList' = <<index[t]>> \o freeList /\ index[t] \in Index
      BY <1>6, PushEffect DEF PoolInv, OwnersCover
    <3>2. QED
      BY <3>1, PushList DEF PoolInv, PoolTypeOK
  <2>4. freeCount' = Len(freeList') + C'
    BY <1>1, <2>1, <2>2, <2>3 DEF CountInv
  <2>5. QED
    BY <2>1, <2>2, <2>4 DEF CountInv
<1>7. CASE allocateReturns(t)
  <2>1. /\ pc[t] \notin Leaving /\ pc'[t] \notin Leaving /\ Held(t)
        /\ liveCount' = liveCount + 1 /\ live' = live \cup {index[t]}
        /\ UNCHANGED <<freeCount, freeList>>
    BY <1>7 DEF allocateReturns, Return, At, Goto, Leaving, Held, Holding, PoolInv, PoolTypeOK
  <2>2. ThreadsAt(Leaving)' = ThreadsAt(Leaving)
    BY <2>1, LeavingChanges
  <2>3. index[t] \notin live
    BY <2>1 DEF PoolInv, OwnersDisjoint
  <2>4. Cardinality(live') = Cardinality(live) + 1
    BY <2>1, <2>3, LiveFinite, FS_AddElement
  <2>5. QED
    BY <2>1, <2>2, <2>4 DEF CountInv
<1>8. CASE \E i \in Index : deallocate(t, i)
  <2>1. PICK i \in Index : deallocate(t, i)
    BY <1>8
  <2>2. /\ pc[t] \notin Leaving /\ pc'[t] \notin Leaving /\ i \in live
        /\ liveCount' = liveCount - 1 /\ live' = live \ {i}
        /\ UNCHANGED <<freeCount, freeList>>
    BY <2>1 DEF deallocate, At, Goto, Leaving, PoolInv, PoolTypeOK
  <2>3. ThreadsAt(Leaving)' = ThreadsAt(Leaving)
    BY <2>2, LeavingChanges
  <2>4. Cardinality(live') = Cardinality(live) - 1
    BY <2>2, LiveFinite, FS_RemoveElement
  <2>5. QED
    BY <2>2, <2>3, <2>4 DEF CountInv
<1>9. QED
  BY <1>2, <1>3, <1>4, <1>5, <1>6, <1>7, <1>8, CountSteps

LEMMA InitCounts == PoolInit => CountInv
<1> SUFFICES ASSUME PoolInit PROVE CountInv
  OBVIOUS
<1>1. ThreadsAt(Leaving) = {} /\ live = {} /\ liveCount = 0 /\ freeCount = 0 /\ freeList = <<>>
  BY DEF PoolInit, ThreadsAt, Leaving
<1>2. Len(freeList) = 0
  BY <1>1
<1>3. IsFiniteSet(ThreadsAt(Leaving)) /\ Cardinality(ThreadsAt(Leaving)) = 0
  BY <1>1, FS_EmptySet
<1>4. Cardinality(live) = 0
  BY <1>1, FS_EmptySet
<1>5. QED
  BY <1>1, <1>2, <1>3, <1>4 DEF CountInv

(* A free list that repeats nothing is as long as its set of indices. *)
LEMMA FreeListCounts ==
  ASSUME PoolInv
  PROVE  IsFiniteSet(FreeIndices) /\ Cardinality(FreeIndices) = Len(freeList)
<1>1. freeList \in [1 .. Len(freeList) -> Index] /\ Len(freeList) \in Nat
  BY LenProperties DEF PoolInv, PoolTypeOK
<1>2. freeList \in Bijection(1 .. Len(freeList), FreeIndices)
  <2>1. freeList \in [1 .. Len(freeList) -> FreeIndices]
    BY <1>1 DEF FreeIndices
  <2>2. freeList \in Injection(1 .. Len(freeList), FreeIndices)
    BY <2>1 DEF Injection, IsInjective, PoolInv, FreeDistinct
  <2>3. freeList \in Surjection(1 .. Len(freeList), FreeIndices)
    BY <2>1 DEF Surjection, FreeIndices
  <2>4. QED
    BY <2>2, <2>3 DEF Bijection
<1>3. ExistsBijection(1 .. Len(freeList), FreeIndices)
  BY <1>2 DEF ExistsBijection
<1>4. IsFiniteSet(1 .. Len(freeList)) /\ Cardinality(1 .. Len(freeList)) = Len(freeList)
  <2>1. /\ IsFiniteSet(1 .. Len(freeList))
        /\ Cardinality(1 .. Len(freeList)) =
             IF 1 > Len(freeList) THEN 0 ELSE Len(freeList) - 1 + 1
    BY <1>1, FS_Interval
  <2>2. QED
    BY <1>1, <2>1
<1>5. QED
  BY <1>3, <1>4, FS_Bijection

(* freeCount never wraps, and with no call in flight the two counters add up *)
(* to the capacity.                                                          *)
THEOREM PoolCounters == PoolSpec => []CountersInStep
<1>1. ASSUME PoolInv, CountInv PROVE CountersInStep
  <2>1. freeCount = Len(freeList) + Cardinality(ThreadsAt(Leaving))
    BY <1>1 DEF CountInv
  <2>2. ASSUME ThreadsAt(Labels \ {"idle"}) = {} PROVE liveCount + freeCount = capacity
    <3>1. \A t \in Threads : pc[t] \notin Leaving /\ ~Held(t)
      BY <2>2 DEF ThreadsAt, Labels, Leaving, Held, Holding
    <3>2. freeCount = Len(freeList)
      <4>1. ThreadsAt(Leaving) = {}
        BY <3>1 DEF ThreadsAt
      <4>2. Cardinality(ThreadsAt(Leaving)) = 0
        BY <4>1, FS_EmptySet
      <4>3. Len(freeList) \in Nat
        BY <1>1, LenProperties DEF PoolInv, PoolTypeOK
      <4>4. QED
        BY <2>1, <4>2, <4>3
    <3>3. live \cup FreeIndices = 0 .. capacity - 1
      <4>1. FreeIndices \subseteq Index
        BY <1>1, ElementOfSeq DEF FreeIndices, PoolInv, PoolTypeOK
      <4>2. \A i \in Index : i < capacity <=> i \in live \cup FreeIndices
        BY <1>1, <3>1 DEF PoolInv, OwnersCover, OwnedByThread
      <4>3. capacity \in Nat /\ capacity <= IndexLimit
        BY <1>1, Bounds DEF PoolInv, PoolTypeOK
      <4>4. \A i : i \in 0 .. capacity - 1 <=> i \in Index /\ i < capacity
        BY <4>3, Bounds DEF Index
      <4>5. QED
        BY <1>1, <4>1, <4>2, <4>4 DEF PoolInv, PoolTypeOK
    <3>4. live \cap FreeIndices = {}
      BY <1>1 DEF PoolInv, OwnersDisjoint
    <3>5. /\ IsFiniteSet(live) /\ IsFiniteSet(FreeIndices)
          /\ Cardinality(live) = liveCount /\ Cardinality(FreeIndices) = freeCount
      BY <1>1, <3>2, LiveFinite, FreeListCounts DEF CountInv
    <3>6. Cardinality(0 .. capacity - 1) = liveCount + freeCount
      <4>1. Cardinality(live \cup FreeIndices)
              = Cardinality(live) + Cardinality(FreeIndices)
                  - Cardinality(live \cap FreeIndices)
        BY <3>5, FS_Union
      <4>2. Cardinality(live \cap FreeIndices) = 0
        BY <3>4, FS_EmptySet
      <4>3. Cardinality(0 .. capacity - 1) = liveCount + freeCount - 0
        BY <3>3, <3>5, <4>1, <4>2
      <4>4. liveCount \in Int /\ freeCount \in Int
        BY <1>1 DEF PoolInv, PoolTypeOK
      <4>5. QED
        BY <4>3, <4>4
    <3>7. Cardinality(0 .. capacity - 1) = capacity
      <4>1. capacity \in Nat
        BY <1>1, Bounds DEF PoolInv, PoolTypeOK
      <4>2. QED
        BY <4>1, FS_Interval
    <3>8. QED
      BY <1>1, <3>6, <3>7 DEF PoolInv, PoolTypeOK
  <2>3. QED
    BY <2>1, <2>2 DEF CountersInStep, Leaving
<1>2. PoolInv /\ CountInv /\ [PoolNext]_vars => CountInv'
  <2>1. ASSUME CountInv, UNCHANGED vars PROVE CountInv'
    BY <2>1 DEF CountInv, ThreadsAt, vars
  <2>2. QED
    BY <2>1, NextCounts DEF PoolNext, PoolStep
<1>3. QED
  BY <1>1, <1>2, InitCounts, PoolInvariant, PTL DEF PoolSpec

-----------------------------------------------------------------------------
(* StablePool implements IndexPool. *)

InUse == (0 .. capacity - 1) \ FreeIndices

LEMMA ListSet == ASSUME NEW s \in Seq(Index) PROVE ToSet(s) = {s[n] : n \in 1 .. Len(s)}
BY LenProperties DEF ToSet

(* popExchange takes an index given back, growExchange the next one, and     *)
(* releaseExchange gives one back; no other step changes the indices in use. *)
LEMMA StepImplements ==
  ASSUME PoolInv, NEW t \in Threads, PoolStep(t)
  PROVE  \/ \E i \in 0 .. capacity - 1 :
              \/ i \notin InUse /\ InUse' = InUse \cup {i} /\ capacity' = capacity
              \/ i \in InUse /\ InUse' = InUse \ {i} /\ capacity' = capacity
         \/ InUse' = InUse \cup {capacity} /\ capacity' = capacity + 1
         \/ InUse' = InUse /\ capacity' = capacity
<1>1. CASE popExchange(t)
  <2>1. PICK i \in Index : i = freeList[1]
    BY <1>1, PopEffect, HeadIsFirst
  <2>2. i \in FreeIndices /\ i < capacity /\ FreeIndices' = FreeIndices \ {i}
    BY <1>1, <2>1, PopEffect, HeadIsFirst
  <2>3. capacity' = capacity
    BY <1>1 DEF popExchange
  <2>4. i \in 0 .. capacity - 1
    BY <2>2, Bounds, Growth
  <2>5. QED
    BY <2>2, <2>3, <2>4 DEF InUse
<1>2. CASE releaseExchange(t)
  <2>1. PICK i \in Index : i = index[t]
    BY <1>2, PushEffect DEF PoolInv, OwnersCover
  <2>2. i \notin FreeIndices /\ i < capacity /\ FreeIndices' = FreeIndices \cup {i}
    BY <1>2, <2>1, PushEffect DEF PoolInv, OwnersDisjoint, OwnersCover, OwnedByThread
  <2>3. capacity' = capacity
    BY <1>2 DEF releaseExchange
  <2>4. i \in 0 .. capacity - 1
    BY <2>2, Bounds, Growth
  <2>5. QED
    BY <2>2, <2>3, <2>4 DEF InUse
<1>3. CASE growExchange(t)
  <2>1. capacity' = capacity + 1 /\ freeList' = freeList
    BY <1>3 DEF growExchange, CapacityUnchanged
  <2>2. index[t] \in Index /\ index[t] = capacity
    BY <1>3 DEF growExchange, CapacityUnchanged, At, PoolInv, GrowthPrepared
  <2>3. capacity \in Nat /\ capacity \notin FreeIndices
    BY <2>2, Bounds DEF PoolInv, OwnersCover
  <2>4. FreeIndices' = FreeIndices
    BY <2>1 DEF FreeIndices
  <2>5. 0 .. capacity' - 1 = (0 .. capacity - 1) \cup {capacity}
    BY <2>1, <2>3
  <2>6. QED
    BY <2>1, <2>3, <2>4, <2>5 DEF InUse
<1>4. CASE ~popExchange(t) /\ ~releaseExchange(t) /\ ~growExchange(t)
  <2>1. UNCHANGED <<freeList, capacity>>
    BY <1>4, ListSteps, CapacitySteps
    DEF releaseStoreNext, ensureCapacity, growBlockCount
  <2>2. QED
    BY <2>1 DEF InUse, FreeIndices
<1>5. QED
  BY <1>1, <1>2, <1>3, <1>4

(* However threads interleave, the pool hands out and takes back indices as  *)
(* IndexPool does.                                                           *)
THEOREM PoolImplementsIndexPool == PoolSpec => ImplementsIndexPool
<1>1. PoolInit => Pool!Init
  <2>1. capacity = 0 => 0 .. capacity - 1 = {}
    OBVIOUS
  <2>2. QED
    BY <2>1 DEF PoolInit, Pool!Init
<1>2. ASSUME PoolInv, PoolInv', [PoolNext]_vars PROVE [Pool!Next]_(Pool!poolVars)
  <2>1. /\ (0 .. capacity - 1) \ ToSet(freeList) = InUse
        /\ ((0 .. capacity - 1) \ ToSet(freeList))' = InUse'
    <3>1. freeList \in Seq(Index) /\ freeList' \in Seq(Index)
      BY <1>2 DEF PoolInv, PoolTypeOK
    <3>2. FreeIndices = ToSet(freeList) /\ FreeIndices' = ToSet(freeList')
      BY <3>1, ListSet DEF FreeIndices
    <3>3. QED
      BY <3>2 DEF InUse
  <2>2. CASE UNCHANGED vars
    BY <2>2 DEF vars, Pool!poolVars
  <2>3. CASE PoolNext
    <3>1. PICK t \in Threads : PoolStep(t)
      BY <2>3 DEF PoolNext, PoolStep
    <3>2. QED
      BY <1>2, <2>1, <3>1, StepImplements
      DEF Pool!Next, Pool!TakeNew, Pool!TakeRecycled, Pool!Give, Pool!poolVars
  <2>4. QED
    BY <1>2, <2>2, <2>3
<1>3. QED
  BY <1>1, <1>2, PoolInvariant, PTL DEF PoolSpec, ImplementsIndexPool, Pool!Spec
=============================================================================
