------------------------- MODULE GeneralManagerProofs -------------------------
(***************************************************************************)
(* Theorems of EntityManager, for every number of slots, every bound on     *)
(* recycling and every generation width that the bound does not exhaust;     *)
(* and of GeneralManager, which extends it, for any slots, managers, systems, *)
(* components and bounds, while hooks and destructors keep to other entities *)
(* than the ones being changed: HookScope = "others".                         *)
(***************************************************************************)
EXTENDS GeneralManager, OperatorLemmas, FiniteSetTheorems

(* The conjunction of the checked invariants is inductive as it stands.     *)
EntityInv == EntityTypeOK /\ SlotsPartitioned /\ IssuedHandlesDated

(* Popping a non-empty free list yields its last slot and a shorter list:   *)
(* the pop_back of createEntity.                                             *)
LEMMA PopFacts ==
  ASSUME EntityTypeOK, freeSlots # <<>>
  PROVE  /\ Len(freeSlots) \in Nat \ {0}
         /\ Last(freeSlots) = freeSlots[Len(freeSlots)]
         /\ Last(freeSlots) \in Slot
         /\ PopFreeSlot(freeSlots) \in Seq(Slot)
         /\ Len(PopFreeSlot(freeSlots)) = Len(freeSlots) - 1
         /\ \A i \in 1 .. Len(freeSlots) - 1 :
              PopFreeSlot(freeSlots)[i] = freeSlots[i]
<1> DEFINE n == Len(freeSlots)
<1>1. freeSlots \in Seq(Slot) /\ n \in Nat \ {0}
  BY EmptySeq DEF EntityTypeOK
<1>2. \A i \in 1 .. n : freeSlots[i] \in Slot
  BY <1>1, ElementOfSeq
<1>3. Last(freeSlots) = freeSlots[n]
  BY DEF Last
<1>4. PopFreeSlot(freeSlots) = SubSeq(freeSlots, 1, n - 1)
  BY DEF PopFreeSlot, Front
<1>5. /\ SubSeq(freeSlots, 1, n - 1) \in Seq(Slot)
      /\ Len(SubSeq(freeSlots, 1, n - 1)) = n - 1
      /\ \A i \in 1 .. n - 1 : SubSeq(freeSlots, 1, n - 1)[i] = freeSlots[i]
  <2>1. \A i \in 1 .. n - 1 : freeSlots[i] \in Slot
    BY <1>1, <1>2
  <2>2. /\ SubSeq(freeSlots, 1, n - 1) \in Seq(Slot)
        /\ Len(SubSeq(freeSlots, 1, n - 1))
             = IF 1 <= n - 1 THEN (n - 1) - 1 + 1 ELSE 0
        /\ \A i \in 1 .. (n - 1) - 1 + 1 :
             SubSeq(freeSlots, 1, n - 1)[i] = freeSlots[1 + i - 1]
    BY <1>1, <2>1, SubSeqProperties
  <2>3. \A i \in 1 .. n - 1 : 1 + i - 1 = i /\ i \in 1 .. (n - 1) - 1 + 1
    BY <1>1
  <2>4. \A i \in 1 .. n - 1 : SubSeq(freeSlots, 1, n - 1)[i] = freeSlots[i]
    BY <2>2, <2>3
  <2>5. \A k \in Nat \ {0} : (IF 1 <= k - 1 THEN (k - 1) - 1 + 1 ELSE 0) = k - 1
    OBVIOUS
  <2>6. Len(SubSeq(freeSlots, 1, n - 1)) = n - 1
    BY <1>1, <2>2, <2>5, Zenon
  <2>7. QED
    BY <2>2, <2>4, <2>6
<1>6. QED
  BY <1>1, <1>2, <1>3, <1>4, <1>5

(* The initial state satisfies the invariant. *)
LEMMA InitEntityInv == EntityInit => EntityInv
  BY EntityBounds
  DEF EntityInit, EntityInv, EntityTypeOK, SlotsPartitioned, IssuedHandlesDated,
      FreeSlotSet, AllocatedSlots, LiveHandles, Slot

(* Recycling a slot keeps the types. *)
LEMMA RecycleSlotType ==
  ASSUME EntityInv, RecycleSlot PROVE EntityTypeOK'
<1>1. HandleOf(Last(freeSlots)) \in Handle
  BY SMTT(30), PopFacts, EntityBounds
  DEF EntityInv, EntityTypeOK, RecycleSlot, HandleOf, Handle, Generation, Slot
<1>2. QED
  BY <1>1, PopFacts DEF EntityInv, EntityTypeOK, RecycleSlot

(* Recycling a slot keeps the partition: the last free slot moves across.   *)
LEMMA RecycleSlotPartition ==
  ASSUME EntityInv, RecycleSlot PROVE SlotsPartitioned'
<1> DEFINE slot == Last(freeSlots)
           n == Len(freeSlots)
<1>1. /\ n \in Nat \ {0}
      /\ slot = freeSlots[n]
      /\ freeSlots' = PopFreeSlot(freeSlots)
      /\ Len(freeSlots') = n - 1
      /\ \A i \in 1 .. n - 1 : freeSlots'[i] = freeSlots[i]
      /\ aliveSlots' = aliveSlots \cup {slot}
      /\ slotCapacity' = slotCapacity
  BY PopFacts DEF EntityInv, RecycleSlot
<1>2. \A i, j \in 1 .. n : freeSlots[i] = freeSlots[j] => i = j
  BY DEF EntityInv, SlotsPartitioned
<1>3. FreeSlotSet' = FreeSlotSet \ {slot} /\ slot \in FreeSlotSet
  BY <1>1, <1>2 DEF FreeSlotSet
<1>4. \A i, j \in 1 .. Len(freeSlots') : freeSlots'[i] = freeSlots'[j] => i = j
  BY <1>1, <1>2
<1>5. AllocatedSlots' = AllocatedSlots
  BY <1>1 DEF AllocatedSlots
<1>6. QED
  BY <1>1, <1>3, <1>4, <1>5 DEF EntityInv, SlotsPartitioned

(* Recycling a slot issues a handle whose generation nobody has seen.       *)
LEMMA RecycleSlotDates ==
  ASSUME EntityInv, RecycleSlot PROVE IssuedHandlesDated'
<1> DEFINE slot == Last(freeSlots)
<1>1. /\ slot \in AllocatedSlots
      /\ aliveSlots' = aliveSlots \cup {slot}
      /\ issued' = issued \cup {HandleOf(slot)}
      /\ generations' = generations
      /\ AllocatedSlots' = AllocatedSlots
  BY PopFacts DEF EntityInv, SlotsPartitioned, FreeSlotSet, RecycleSlot, AllocatedSlots
<1>2. LiveHandles' = LiveHandles \cup {HandleOf(slot)}
  BY <1>1 DEF LiveHandles, HandleOf
<1>3. /\ HandleOf(slot).slot = slot
      /\ HandleOf(slot).generation = generations[slot]
      /\ generations[slot] \in Nat
  <2>1. EntityTypeOK /\ freeSlots # <<>>
    BY DEF EntityInv, RecycleSlot
  <2>2. slot \in Slot
    BY <2>1, PopFacts
  <2>3. generations[slot] \in Nat
    BY <2>1, <2>2 DEF EntityTypeOK
  <2>4. QED
    BY <2>3 DEF HandleOf
<1>4. QED
  BY <1>1, <1>2, <1>3 DEF EntityInv, IssuedHandlesDated

(* A new slot keeps the types, the partition and the dating of handles.     *)
LEMMA AllocateSlotInv ==
  ASSUME EntityInv, AllocateSlot PROVE EntityInv'
<1>1. /\ slotCapacity \in Slot
      /\ slotCapacity \in Nat
      /\ generations[slotCapacity] \in 0 .. MaxGeneration
      /\ HandleOf(slotCapacity) \in Handle
      /\ HandleOf(slotCapacity).slot = slotCapacity
      /\ HandleOf(slotCapacity).generation = generations[slotCapacity]
  BY EntityBounds
  DEF EntityInv, EntityTypeOK, AllocateSlot, HandleOf, Handle, Generation, Slot
<1>2. /\ AllocatedSlots' = AllocatedSlots \cup {slotCapacity}
      /\ slotCapacity \notin AllocatedSlots
  BY <1>1 DEF AllocateSlot, AllocatedSlots
<1>3. LiveHandles' = LiveHandles \cup {HandleOf(slotCapacity)}
  BY DEF AllocateSlot, LiveHandles, HandleOf
<1>4. EntityTypeOK'
  BY <1>1, EntityBounds DEF EntityInv, EntityTypeOK, AllocateSlot
<1>5. SlotsPartitioned'
  BY <1>2 DEF EntityInv, SlotsPartitioned, FreeSlotSet, AllocateSlot
<1>6. IssuedHandlesDated'
  BY <1>1, <1>2, <1>3 DEF EntityInv, IssuedHandlesDated, AllocateSlot
<1>7. QED
  BY <1>4, <1>5, <1>6 DEF EntityInv

(* What a destroy that is not ignored does to the state. *)
LEMMA DestroyFacts ==
  ASSUME EntityInv, NEW e \in AnyHandle, isActive(e), destroyEntity(e)
  PROVE  /\ e \in issued
         /\ e \in Handle
         /\ e.slot \in aliveSlots
         /\ e.slot \in Slot
         /\ e = HandleOf(e.slot)
         /\ generations[e.slot] \in 0 .. MaxGeneration - 1
         /\ generations' = [generations EXCEPT ![e.slot] = @ + 1]
         /\ freeSlots' = Append(freeSlots, e.slot)
         /\ aliveSlots' = aliveSlots \ {e.slot}
         /\ slotCapacity' = slotCapacity
         /\ issued' = issued
<1>1. e.slot \in aliveSlots /\ e.slot \in Slot /\ generations[e.slot] = e.generation
  BY DEF isActive, EntityInv, EntityTypeOK
<1>2. e # InvalidHandle
  BY <1>1, EntityBounds DEF InvalidHandle, Slot
<1>3. e \in issued /\ e \in Handle
  BY <1>2 DEF AnyHandle, EntityInv, EntityTypeOK
<1>4. e = HandleOf(e.slot)
  BY <1>1, <1>3 DEF Handle, HandleOf
<1>5. generations[e.slot] \in 0 .. MaxGeneration - 1
  BY <1>1, EntityBounds DEF destroyEntity, EntityInv, EntityTypeOK
<1>6. NextGeneration(generations[e.slot]) = generations[e.slot] + 1
  BY <1>5, EntityBounds DEF NextGeneration
<1>7. QED
  BY <1>1, <1>3, <1>4, <1>5, <1>6 DEF destroyEntity

(* A destroy keeps the types. *)
LEMMA DestroyType ==
  ASSUME EntityInv, NEW e \in AnyHandle, isActive(e), destroyEntity(e)
  PROVE  EntityTypeOK'
<1>1. generations' \in [Slot -> 0 .. MaxGeneration]
  BY SMTT(30), DestroyFacts, EntityBounds DEF EntityInv, EntityTypeOK
<1>2. freeSlots' \in Seq(Slot)
  BY SMTT(30), DestroyFacts, AppendProperties DEF EntityInv, EntityTypeOK
<1>3. QED
  BY <1>1, <1>2, DestroyFacts DEF EntityInv, EntityTypeOK

(* A destroy moves its slot from the live side to the end of the free list. *)
LEMMA DestroyPartition ==
  ASSUME EntityInv, NEW e \in AnyHandle, isActive(e), destroyEntity(e)
  PROVE  SlotsPartitioned'
<1> DEFINE n == Len(freeSlots)
<1>1. /\ n \in Nat
      /\ Len(freeSlots') = n + 1
      /\ \A i \in 1 .. n : freeSlots'[i] = freeSlots[i]
      /\ freeSlots'[n + 1] = e.slot
  <2>1. freeSlots \in Seq(Slot) /\ e.slot \in Slot
        /\ freeSlots' = Append(freeSlots, e.slot)
    BY DestroyFacts DEF EntityInv, EntityTypeOK
  <2>2. QED
    BY <2>1, AppendProperties, LenProperties
<1>2. /\ \A i, j \in 1 .. n : freeSlots[i] = freeSlots[j] => i = j
      /\ \A i \in 1 .. n : freeSlots[i] # e.slot
  BY DestroyFacts DEF EntityInv, SlotsPartitioned, FreeSlotSet
<1>3. \A i, j \in 1 .. n + 1 : freeSlots'[i] = freeSlots'[j] => i = j
  BY <1>1, <1>2
<1>4. FreeSlotSet' = FreeSlotSet \cup {e.slot}
  BY <1>1 DEF FreeSlotSet
<1>5. AllocatedSlots' = AllocatedSlots /\ aliveSlots' = aliveSlots \ {e.slot}
  BY DestroyFacts DEF AllocatedSlots
<1>6. QED
  BY <1>1, <1>3, <1>4, <1>5, DestroyFacts DEF EntityInv, SlotsPartitioned

(* A destroy removes exactly its handle from the live ones. *)
LEMMA DestroyLiveHandles ==
  ASSUME EntityInv, NEW e \in AnyHandle, isActive(e), destroyEntity(e)
  PROVE  LiveHandles' = LiveHandles \ {e} /\ e \in LiveHandles
<1>1. \A s \in aliveSlots \ {e.slot} : HandleOf(s)' = HandleOf(s)
  BY DestroyFacts DEF HandleOf, EntityInv, EntityTypeOK
<1>2. \A s \in aliveSlots : HandleOf(s).slot = s
  BY DEF HandleOf
<1>3. /\ aliveSlots' = aliveSlots \ {e.slot}
      /\ e.slot \in aliveSlots
      /\ e = HandleOf(e.slot)
  BY DestroyFacts
<1>4. LiveHandles' = {HandleOf(s)' : s \in aliveSlots'}
  BY DEF LiveHandles
<1>5. QED
  BY <1>1, <1>2, <1>3, <1>4 DEF LiveHandles

(* A destroy leaves the retired handle behind its slot's generation. *)
LEMMA DestroyDates ==
  ASSUME EntityInv, NEW e \in AnyHandle, isActive(e), destroyEntity(e)
  PROVE  IssuedHandlesDated'
<1>1. \A s \in Slot : generations[s] \in Nat
  BY DEF EntityInv, EntityTypeOK
<1>2. \A h \in issued : h.slot \in Slot /\ h.generation \in Nat
  BY EntityBounds DEF EntityInv, EntityTypeOK, Handle, Generation
<1>3. \A s \in Slot : generations'[s]
                       = IF s = e.slot THEN generations[s] + 1 ELSE generations[s]
  BY DestroyFacts DEF EntityInv, EntityTypeOK
<1>4. LiveHandles' \subseteq issued'
  BY DestroyLiveHandles, DestroyFacts DEF EntityInv, IssuedHandlesDated
<1>5. ASSUME NEW h \in issued'
      PROVE  /\ h.slot \in AllocatedSlots'
             /\ h.generation <= generations'[h.slot]
             /\ h.generation = generations'[h.slot] => h.slot \in aliveSlots'
  <2>1. /\ h \in issued
        /\ h.slot \in AllocatedSlots
        /\ h.generation <= generations[h.slot]
        /\ h.generation = generations[h.slot] => h.slot \in aliveSlots
    BY DestroyFacts DEF EntityInv, IssuedHandlesDated
  <2>2. AllocatedSlots' = AllocatedSlots /\ aliveSlots' = aliveSlots \ {e.slot}
    BY DestroyFacts DEF AllocatedSlots
  <2>3. h.slot \in Slot /\ h.generation \in Nat /\ generations[h.slot] \in Nat
    BY <1>1, <1>2, <2>1
  <2>4. CASE h.slot = e.slot
    BY <1>3, <2>1, <2>2, <2>3, <2>4
  <2>5. CASE h.slot # e.slot
    BY <1>3, <2>1, <2>2, <2>3, <2>5
  <2>6. QED
    BY <2>4, <2>5
<1>6. QED
  BY <1>4, <1>5 DEF IssuedHandlesDated

(* Every step keeps the invariant. *)
LEMMA NextEntityInv ==
  ASSUME EntityInv, [EntityNext]_entityVars PROVE EntityInv'
<1>1. CASE RecycleSlot
  BY <1>1, RecycleSlotType, RecycleSlotPartition, RecycleSlotDates DEF EntityInv
<1>2. CASE AllocateSlot
  BY <1>2, AllocateSlotInv
<1>3. ASSUME NEW e \in AnyHandle, destroyEntity(e), isActive(e) PROVE EntityInv'
  BY <1>3, DestroyType, DestroyPartition, DestroyDates DEF EntityInv
<1>4. CASE UNCHANGED entityVars
  BY <1>4
  DEF entityVars, EntityInv, EntityTypeOK, SlotsPartitioned, IssuedHandlesDated,
      FreeSlotSet, AllocatedSlots, LiveHandles, HandleOf
<1>5. ASSUME NEW e \in AnyHandle, destroyEntity(e), ~isActive(e) PROVE EntityInv'
  BY <1>4, <1>5 DEF destroyEntity
<1>6. QED
  BY <1>1, <1>2, <1>3, <1>4, <1>5 DEF EntityNext, createEntity

(* The three invariants hold in every reachable state: types, the partition *)
(* of slots between the free list and the active entities, and the dating   *)
(* of issued handles.                                                        *)
THEOREM EntityInvariant == EntitySpec => []EntityInv
  BY InitEntityInv, NextEntityInv, PTL DEF EntitySpec

(* Types of the EntityManager state. *)
THEOREM EntityTypes == EntitySpec => []EntityTypeOK
<1>1. EntityInv => EntityTypeOK
  BY DEF EntityInv
<1>2. QED
  BY <1>1, EntityInvariant, PTL

(* No slot leaks from the free list and none is on it twice or in use. *)
THEOREM SlotsArePartitioned == EntitySpec => []SlotsPartitioned
<1>1. EntityInv => SlotsPartitioned
  BY DEF EntityInv
<1>2. QED
  BY <1>1, EntityInvariant, PTL

(* An issued handle is live exactly while its generation is current. *)
THEOREM HandlesAreDated == EntitySpec => []IssuedHandlesDated
<1>1. EntityInv => IssuedHandlesDated
  BY DEF EntityInv
<1>2. QED
  BY <1>1, EntityInvariant, PTL

(* createEntity takes a slot nobody uses, whose present handle is new. *)
LEMMA CreatesFresh ==
  ASSUME EntityInv, createEntity
  PROVE  \E slot \in Slot :
           /\ slot \notin aliveSlots
           /\ aliveSlots' = aliveSlots \cup {slot} /\ generations' = generations
           /\ issued' = issued \cup {HandleOf(slot)}
           /\ HandleOf(slot) \notin issued
<1>1. ASSUME NEW slot \in Slot, HandleOf(slot) \in issued, slot \notin aliveSlots
      PROVE  FALSE
  <2>1. HandleOf(slot).slot = slot /\ HandleOf(slot).generation = generations[slot]
    BY DEF HandleOf
  <2>2. QED
    BY <1>1, <2>1 DEF EntityInv, IssuedHandlesDated
<1>2. CASE RecycleSlot
  <2>1. Last(freeSlots) \in Slot /\ Last(freeSlots) \in FreeSlotSet
    BY <1>2, PopFacts DEF RecycleSlot, EntityInv, FreeSlotSet
  <2>2. Last(freeSlots) \notin aliveSlots
    BY <2>1 DEF EntityInv, SlotsPartitioned
  <2>3. QED
    BY <1>1, <1>2, <2>1, <2>2 DEF RecycleSlot
<1>3. CASE AllocateSlot
  <2>1. slotCapacity \in Slot /\ slotCapacity \notin AllocatedSlots
    BY <1>3, EntityBounds
    DEF AllocateSlot, EntityInv, EntityTypeOK, Slot, AllocatedSlots
  <2>2. slotCapacity \notin aliveSlots
    BY <2>1 DEF EntityInv, SlotsPartitioned
  <2>3. QED
    BY <1>1, <1>3, <2>1, <2>2 DEF AllocateSlot
<1>4. QED
  BY <1>2, <1>3 DEF createEntity

(* What one step does to the live handles: it issues a fresh one, retires   *)
(* one, or leaves them alone.                                                *)
LEMMA StepLiveHandles ==
  ASSUME EntityInv, [EntityNext]_entityVars
  PROVE  \/ \E e \in Handle : Allocator!Create(e)
         \/ \E e \in Handle : Allocator!Destroy(e)
         \/ LiveHandles' = LiveHandles /\ issued' = issued
<1> USE DEF Allocator!Create, Allocator!Destroy
<1>1. ASSUME createEntity PROVE \E e \in Handle : Allocator!Create(e)
  <2>1. PICK slot \in Slot :
          /\ slot \notin aliveSlots
          /\ aliveSlots' = aliveSlots \cup {slot} /\ generations' = generations
          /\ issued' = issued \cup {HandleOf(slot)}
          /\ HandleOf(slot) \notin issued
    BY <1>1, CreatesFresh
  <2>2. HandleOf(slot) \in Handle
    BY EntityBounds DEF EntityInv, EntityTypeOK, HandleOf, Handle, Generation
  <2>3. LiveHandles' = LiveHandles \cup {HandleOf(slot)}
    BY <2>1 DEF LiveHandles, HandleOf
  <2>4. \A other \in LiveHandles : other.slot # HandleOf(slot).slot
    BY <2>1 DEF LiveHandles, HandleOf
  <2>5. QED
    BY <2>1, <2>2, <2>3, <2>4
<1>2. ASSUME NEW e \in AnyHandle, destroyEntity(e), isActive(e)
      PROVE  \E h \in Handle : Allocator!Destroy(h)
  BY <1>2, DestroyLiveHandles, DestroyFacts
<1>3. CASE UNCHANGED entityVars
  BY <1>3 DEF entityVars, LiveHandles, HandleOf
<1>4. ASSUME NEW e \in AnyHandle, destroyEntity(e), ~isActive(e)
      PROVE  LiveHandles' = LiveHandles /\ issued' = issued
  <2>1. UNCHANGED entityVars
    BY <1>4 DEF destroyEntity
  <2>2. QED
    BY <2>1 DEF entityVars, LiveHandles, HandleOf
<1>5. QED
  BY <1>1, <1>2, <1>3, <1>4 DEF EntityNext

(* EntityManager implements the abstract allocator: handles are issued once *)
(* and a destroy affects only the handle it names.                           *)
THEOREM EntityManagerImplementsAllocator == EntitySpec => ImplementsAllocator
<1>1. EntityInit => Allocator!Init
  BY DEF EntityInit, Allocator!Init, LiveHandles
<1>2. EntityInv /\ [EntityNext]_entityVars
        => [Allocator!Next]_(Allocator!allocatorVars)
  BY StepLiveHandles
  DEF Allocator!Next, Allocator!allocatorVars, Allocator!Handle, Handle
<1>3. QED
  BY <1>1, <1>2, EntityInvariant, PTL
  DEF EntitySpec, ImplementsAllocator, Allocator!Spec

(* A handle that stopped being active never becomes active again, whatever  *)
(* happens to its slot.                                                      *)
THEOREM HandlesNeverRevive == EntitySpec => NoHandleRevived
<1>1. EntityInv /\ [EntityNext]_entityVars
        => [\A e \in LiveHandles' \ LiveHandles : e \notin issued]_entityVars
  BY StepLiveHandles DEF Allocator!Create, Allocator!Destroy
<1>2. QED
  BY <1>1, EntityInvariant, PTL DEF EntitySpec, NoHandleRevived

(* A destroy with a stale handle spares the slot's present occupant. *)
THEOREM DestroysAreExact == EntitySpec => DestroyIsExact
<1>1. ASSUME EntityInv, NEW e \in AnyHandle, destroyEntity(e)
      PROVE  LiveHandles' = LiveHandles \ {e}
  <2>1. CASE isActive(e)
    BY <1>1, <2>1, DestroyLiveHandles
  <2>2. CASE ~isActive(e)
    <3>1. LiveHandles' = LiveHandles
      BY <1>1, <2>2 DEF destroyEntity, entityVars, LiveHandles, HandleOf
    <3>2. e \notin LiveHandles
      BY <2>2 DEF LiveHandles, HandleOf, isActive
    <3>3. QED
      BY <3>1, <3>2
  <2>3. QED
    BY <2>1, <2>2
<1>2. EntityInv
        => [\A e \in AnyHandle :
              destroyEntity(e) => LiveHandles' = LiveHandles \ {e}]_entityVars
  BY <1>1
<1>3. QED
  BY <1>2, EntityInvariant, PTL DEF EntitySpec, DestroyIsExact

(* The slot table grows only when every allocated slot is in use. *)
THEOREM GrowthOnlyWhenFull == EntitySpec => GrowsOnlyWhenFull
<1>1. EntityInv /\ [EntityNext]_entityVars
        => [slotCapacity' # slotCapacity => aliveSlots = AllocatedSlots]_entityVars
  <2>1. ASSUME EntityInv, AllocateSlot PROVE aliveSlots = AllocatedSlots
    <3>1. Len(freeSlots) = 0
      BY <2>1, EmptySeq DEF AllocateSlot
    <3>2. FreeSlotSet = {}
      BY <3>1 DEF FreeSlotSet
    <3>3. QED
      BY <2>1, <3>2 DEF EntityInv, SlotsPartitioned
  <2>2. EntityNext /\ slotCapacity' # slotCapacity => AllocateSlot
    BY DEF EntityNext, createEntity, RecycleSlot, destroyEntity, entityVars
  <2>3. QED
    BY <2>1, <2>2
<1>2. QED
  BY <1>1, EntityInvariant, PTL DEF EntitySpec, GrowsOnlyWhenFull

-----------------------------------------------------------------------------
Hooks == {"subscribing", "unsubscribing"}
EndsEntity == {"destroying", "clearing"}
WholeEntity == {"checking", "destroying", "clearing"}

(* A frame inside which another one may run: only the first of a stack is a  *)
(* flush; an operation on a whole entity is begun by no other operation on   *)
(* it; no two hooks of one system run for an entity; and nothing runs on an   *)
(* entity whose list is walked, no subscription on one that dies.             *)
MayEnclose(outer, inner) ==
  /\ inner.op # "flushing"
  /\ outer.op # "flushing" /\ outer.entity = inner.entity =>
       /\ inner.op \notin WholeEntity
       /\ outer.op = "checking" => outer.manager = NoManager
       /\ outer.op \in EndsEntity => inner.op # "subscribing"
       /\ outer.op \in Hooks /\ inner.op \in Hooks => outer.system # inner.system

Nested(frames) ==
  \A i, j \in 1 .. Len(frames) : i < j => MayEnclose(frames[i], frames[j])

(* The destructor of a component runs in the operation that removes it. *)
RemovedBy(outer, inner) ==
  /\ outer.op \in {"clearing", "checking"}
  /\ outer.entity = inner.entity
  /\ outer.op = "checking" => outer.manager = NoManager /\ outer.managers = Managers

Destructors(frames) ==
  \A i \in 1 .. Len(frames) :
    frames[i].op = "removing" => i # 1 /\ RemovedBy(frames[i - 1], frames[i])

(* What an operation has established about its entity and relies on. *)
FrameHolds(frame) ==
  LET e == frame.entity IN
    frame.op # "flushing" =>
      /\ e \in LiveHandles
      /\ frame.op = "subscribing" =>
           ~Lists(e, frame.system) /\ shouldProcessEntity(frame.system, e)
      /\ frame.op = "unsubscribing" => Lists(e, frame.system)
      /\ frame.op = "checking" =>
           /\ frame.at # 0
           /\ frame.inHook => /\ frame.manager # NoManager
                              /\ frame.at \in 1 .. Len(SystemsOf(e, frame.manager))
      /\ frame.op = "clearing" => \A s \in Systems : ~Lists(e, s)

FramesHold == \A i \in 1 .. Len(stack) : FrameHolds(stack[i])

(* A system the dying entity is still in is still to be left: its manager is *)
(* to come, it is pending, or its hook is running.                            *)
StillToLeave(frames, i, s) ==
  \/ ManagerOf[s] \in frames[i].managers
  \/ \E k \in 1 .. Len(frames[i].pending) : frames[i].pending[k] = s
  \/ /\ i # Len(frames)
     /\ frames[i + 1].op = "unsubscribing"
     /\ frames[i + 1].entity = frames[i].entity
     /\ frames[i + 1].system = s

(* So is a component it still has: its storage is to come, or the destructor *)
(* is running.                                                                *)
StillToRemove(frames, i, c) ==
  \/ c \in frames[i].storages
  \/ /\ i # Len(frames)
     /\ frames[i + 1].op = "removing"
     /\ frames[i + 1].entity = frames[i].entity
     /\ frames[i + 1].component = c

DestroysGoOn ==
  \A i \in 1 .. Len(stack) :
    /\ stack[i].op = "destroying" =>
         \A s \in Systems : Lists(stack[i].entity, s) => StillToLeave(stack, i, s)
    /\ stack[i].op = "clearing" =>
         \A c \in Components :
           components[c][stack[i].entity.slot] # NoOwner => StillToRemove(stack, i, c)

(* The lists of a manager name its own systems. *)
ListsOwn ==
  \A m \in Managers, e \in Handle :
    \A i \in 1 .. Len(SystemsOf(e, m)) : ManagerOf[SystemsOf(e, m)[i]] = m

ManagerInv ==
  /\ ManagerTypeOK
  /\ EntityInv
  /\ Nested(stack)
  /\ Destructors(stack)
  /\ FramesHold
  /\ DestroysGoOn
  /\ ListsOwn
  /\ SubscriptionsMirrored
  /\ NoStaleComponents
  /\ SubscribedHaveRequired

-----------------------------------------------------------------------------
(* Frames and stacks of frames. *)

LEMMA FrameIs ==
  ASSUME NEW f \in Frame
  PROVE  /\ f.op \in {"subscribing", "unsubscribing", "checking", "destroying", "removing",
                     "clearing", "flushing"}
         /\ f.op \in Hooks => f \in SubscriptionFrame
         /\ f.op = "checking" => f \in CheckFrame
         /\ f.op = "destroying" => f \in DestroyFrame
         /\ f.op = "removing" => f \in RemovalFrame
         /\ f.op = "clearing" => f \in ClearFrame
         /\ f.op = "flushing" => f \in FlushFrame
         /\ f.op # "flushing" => f.entity \in Handle
BY DEF Frame, SubscriptionFrame, CheckFrame, DestroyFrame, RemovalFrame, ClearFrame, FlushFrame,
   Hooks

(* The same operations under way, whatever is left of the batch of a flush. *)
SameFrames(frames, rest) ==
  /\ rest \in Seq(Frame)
  /\ Len(rest) = Len(frames)
  /\ \A i \in 1 .. Len(frames) :
       rest[i] = frames[i] \/ (frames[i].op = "flushing" /\ rest[i].op = "flushing")

LEMMA SameNested ==
  ASSUME NEW frames \in Seq(Frame), NEW rest, SameFrames(frames, rest),
         Nested(frames), Destructors(frames)
  PROVE  Nested(rest) /\ Destructors(rest)
<1>1. Len(frames) \in Nat
  BY LenProperties
<1>2. Nested(rest)
  <2>1. SUFFICES ASSUME NEW i \in 1 .. Len(frames), NEW j \in 1 .. Len(frames), i < j
        PROVE  MayEnclose(rest[i], rest[j])
    BY DEF Nested, SameFrames
  <2>2. MayEnclose(frames[i], frames[j])
    BY <2>1 DEF Nested
  <2>3. rest[j] = frames[j]
    BY <2>2 DEF SameFrames, MayEnclose
  <2>4. QED
    BY <2>2, <2>3 DEF SameFrames, MayEnclose
<1>3. Destructors(rest)
  <2>1. SUFFICES ASSUME NEW i \in 1 .. Len(frames), rest[i].op = "removing"
        PROVE  i # 1 /\ RemovedBy(rest[i - 1], rest[i])
    BY DEF Destructors, SameFrames
  <2>2. rest[i] = frames[i]
    BY <2>1 DEF SameFrames
  <2>3. i # 1 /\ RemovedBy(frames[i - 1], frames[i])
    BY <2>1, <2>2 DEF Destructors
  <2>4. i - 1 \in 1 .. Len(frames)
    BY <1>1, <2>3
  <2>5. rest[i - 1] = frames[i - 1]
    BY <2>3, <2>4 DEF SameFrames, RemovedBy
  <2>6. QED
    BY <2>2, <2>3, <2>5
<1>4. QED
  BY <1>2, <1>3

LEMMA SamePush ==
  ASSUME NEW frames \in Seq(Frame), NEW rest, SameFrames(frames, rest), NEW g \in Frame,
         \A i \in 1 .. Len(frames) : MayEnclose(frames[i], g)
  PROVE  \A i \in 1 .. Len(rest) : MayEnclose(rest[i], g)
BY DEF SameFrames, MayEnclose

(* An operation on a whole entity is the first one on it. *)
LEMMA AloneBelow ==
  ASSUME NEW frames, Nested(frames), NEW i \in 1 .. Len(frames), NEW j \in 1 .. Len(frames),
         i < j, frames[j].op \in WholeEntity
  PROVE  frames[i].op = "flushing" \/ frames[i].entity # frames[j].entity
BY DEF Nested, MayEnclose

LEMMA NestedPush ==
  ASSUME NEW frames \in Seq(Frame), Nested(frames), Destructors(frames), NEW g \in Frame,
         \A i \in 1 .. Len(frames) : MayEnclose(frames[i], g),
         g.op = "removing" => frames # <<>> /\ RemovedBy(frames[Len(frames)], g)
  PROVE  Nested(Append(frames, g)) /\ Destructors(Append(frames, g))
<1> DEFINE a == Append(frames, g)
<1>1. /\ Len(frames) \in Nat /\ Len(a) = Len(frames) + 1
      /\ \A i \in 1 .. Len(frames) : a[i] = frames[i]
      /\ a[Len(frames) + 1] = g
  BY Pushed
<1>2. frames # <<>> => Len(frames) # 0
  BY EmptySeq
<1> HIDE DEF a
<1>3. \A i \in 1 .. Len(a) : i \in 1 .. Len(frames) \/ i = Len(frames) + 1
  BY <1>1
<1>4. ASSUME NEW i \in 1 .. Len(a), NEW j \in 1 .. Len(a), i < j
      PROVE  MayEnclose(a[i], a[j])
  <2>1. i \in 1 .. Len(frames)
    BY <1>1, <1>4
  <2>2. QED
    BY <1>1, <1>3, <1>4, <2>1 DEF Nested
<1>5. ASSUME NEW i \in 1 .. Len(a), a[i].op = "removing"
      PROVE  i # 1 /\ RemovedBy(a[i - 1], a[i])
  <2>1. CASE i \in 1 .. Len(frames)
    <3>1. i # 1 /\ RemovedBy(frames[i - 1], frames[i])
      BY <1>1, <1>5, <2>1 DEF Destructors
    <3>2. i - 1 \in 1 .. Len(frames)
      BY <1>1, <2>1, <3>1
    <3>3. QED
      BY <1>1, <2>1, <3>1, <3>2
  <2>2. CASE i = Len(frames) + 1
    <3>1. frames # <<>> /\ RemovedBy(frames[Len(frames)], g)
      BY <1>1, <1>5, <2>2
    <3>2. i # 1 /\ i - 1 = Len(frames) /\ Len(frames) \in 1 .. Len(frames)
      BY <1>1, <1>2, <2>2, <3>1
    <3>3. QED
      BY <1>1, <2>2, <3>1, <3>2
  <2>3. QED
    BY <1>3, <2>1, <2>2
<1>6. QED
  BY <1>4, <1>5 DEF Nested, Destructors, a

LEMMA NestedPop ==
  ASSUME NEW frames \in Seq(Frame), frames # <<>>, Nested(frames), Destructors(frames)
  PROVE  Nested(Front(frames)) /\ Destructors(Front(frames))
<1>1. /\ Len(frames) \in Nat \ {0} /\ Len(Front(frames)) = Len(frames) - 1
      /\ \A i \in 1 .. Len(frames) - 1 : Front(frames)[i] = frames[i]
  BY FrontLast
<1>2. \A i \in 1 .. Len(Front(frames)) :
        /\ i \in 1 .. Len(frames) /\ Front(frames)[i] = frames[i]
        /\ i # 1 => i - 1 \in 1 .. Len(frames) /\ Front(frames)[i - 1] = frames[i - 1]
  BY <1>1
<1>3. QED
  BY <1>2 DEF Nested, Destructors

LEMMA NestedReplace ==
  ASSUME NEW frames \in Seq(Frame), frames # <<>>, Nested(frames), Destructors(frames),
         NEW g \in Frame, g.op \in WholeEntity, Last(frames).op \in WholeEntity,
         g.entity = Last(frames).entity
  PROVE  Nested(Append(Front(frames), g)) /\ Destructors(Append(Front(frames), g))
<1>1. Nested(Front(frames)) /\ Destructors(Front(frames))
  BY NestedPop
<1>2. /\ Len(frames) \in Nat \ {0} /\ Len(Front(frames)) = Len(frames) - 1
      /\ Front(frames) \in Seq(Frame) /\ Last(frames) = frames[Len(frames)]
      /\ \A i \in 1 .. Len(frames) - 1 : Front(frames)[i] = frames[i]
  BY FrontLast
<1>3. ASSUME NEW i \in 1 .. Len(Front(frames)) PROVE MayEnclose(Front(frames)[i], g)
  <2>1. /\ i \in 1 .. Len(frames) /\ Front(frames)[i] = frames[i]
        /\ Len(frames) \in 1 .. Len(frames) /\ i < Len(frames)
    BY <1>2
  <2>2. frames[i].op = "flushing" \/ frames[i].entity # frames[Len(frames)].entity
    BY <1>2, <2>1, AloneBelow
  <2>3. QED
    BY <1>2, <2>1, <2>2 DEF MayEnclose, WholeEntity
<1>4. g.op # "removing"
  BY DEF WholeEntity
<1>5. QED
  BY <1>1, <1>2, <1>3, <1>4, NestedPush

-----------------------------------------------------------------------------
(* Live entities. *)

LEMMA LiveIs ==
  ASSUME ManagerTypeOK, NEW h \in LiveHandles
  PROVE  /\ h.slot \in aliveSlots /\ h.slot \in Slot /\ h = HandleOf(h.slot)
         /\ h \in Handle /\ isActive(h)
<1>1. PICK slot \in aliveSlots : h = HandleOf(slot)
  BY DEF LiveHandles
<1>2. slot \in Slot /\ generations[slot] \in Generation
  BY EntityBounds DEF ManagerTypeOK, EntityTypeOK, Generation
<1>3. QED
  BY <1>1, <1>2 DEF HandleOf, Handle, isActive

LEMMA ActiveIs ==
  ASSUME ManagerTypeOK, NEW h \in Handle, isActive(h)
  PROVE  h \in LiveHandles
BY DEF isActive, LiveHandles, HandleOf, Handle

LEMMA SlotHandle ==
  ASSUME ManagerTypeOK, NEW slot \in aliveSlots
  PROVE  HandleOf(slot) \in LiveHandles /\ HandleOf(slot).slot = slot /\ slot \in Slot
BY DEF ManagerTypeOK, EntityTypeOK, LiveHandles, HandleOf

LEMMA LiveOfSlot ==
  ASSUME ManagerTypeOK, NEW g \in LiveHandles, NEW h \in LiveHandles, g.slot = h.slot
  PROVE  g = h
BY LiveIs

(* A caller's handle that is active names a live entity. *)
LEMMA ActiveCall ==
  ASSUME ManagerTypeOK, NEW h \in AnyHandle \cup Handle, isActive(h)
  PROVE  h \in LiveHandles
<1>1. h.slot \in Slot
  BY DEF isActive, ManagerTypeOK, EntityTypeOK
<1>2. h # InvalidHandle
  BY <1>1, EntityBounds DEF InvalidHandle, Slot
<1>3. h \in Handle
  BY <1>2 DEF AnyHandle, ManagerTypeOK, EntityTypeOK
<1>4. QED
  BY <1>3, ActiveIs

-----------------------------------------------------------------------------
(* The steps, by what they do to the stack and to the rest of the state. *)

WorldUnchanged == UNCHANGED <<entityVars, components, subscribed, entitySystems>>

(* Operations begun by user code or by a flush.  *)
Adds(e, c, rest) ==
  /\ ~Working(e, {"clearing"})
  /\ components' = [components EXCEPT ![c][e.slot] = e]
  /\ stack' = rest
  /\ UNCHANGED <<entityVars, subscribed, entitySystems>>

Begins(g, rest) ==
  /\ \A i \in 1 .. Len(stack) : MayEnclose(stack[i], g)
  /\ FrameHolds(g)
  /\ g.op \in Hooks \/ (g.op = "destroying" /\ g.managers = Managers)
  /\ stack' = Append(rest, g)
  /\ WorldUnchanged

BeginsRemoval(g, h, rest) ==
  /\ \A i \in 1 .. Len(stack) : MayEnclose(stack[i], g)
  /\ FrameHolds(g)
  /\ g.op = "checking" /\ g.managers = Managers /\ g.manager = NoManager
  /\ FrameHolds(h)
  /\ h.op = "removing" /\ h.entity = g.entity
  /\ stack' = rest \o <<g, h>>
  /\ WorldUnchanged

Calls(rest) ==
  \/ stack' = rest /\ WorldUnchanged
  \/ \E e \in LiveHandles, c \in Components : Adds(e, c, rest)
  \/ \E g \in Frame : Begins(g, rest)
  \/ \E g, h \in Frame : BeginsRemoval(g, h, rest)

LEMMA Performed ==
  ASSUME ManagerInv, HookScope = "others", NEW command \in Commands \cup Command,
         MayChange(command), NEW rest, Perform(command, rest)
  PROVE  Calls(rest)
<1> DEFINE e == command.entity
<1>1. ManagerTypeOK /\ e \in AnyHandle \cup Handle
  BY DEF ManagerInv, Commands, Command, Destroys, ComponentCommands, SystemCommands
<1>2. isActive(e) => e \in LiveHandles /\ e \in Handle
  BY <1>1, ActiveCall, LiveIs
<1>3. \/ ~Busy(e)
      \/ /\ command.kind = "add"
         /\ ~Working(e, {"clearing"})
      \/ /\ command.kind \in {"subscribe", "unsubscribe"}
         /\ ~HookedOn(e, command.system)
         /\ ~Walked(e)
         /\ command.kind = "subscribe" => ~Working(e, {"destroying", "clearing"})
  BY DEF MayChange
<1>4. ~Busy(e) => \A i \in 1 .. Len(stack) :
                    stack[i].op = "flushing" \/ stack[i].entity # e
  BY DEF Busy
<1>5. /\ command.kind \in {"add", "remove"} => command.component \in Components
      /\ command.kind \in {"subscribe", "unsubscribe"} => command.system \in Systems
  BY DEF Commands, Command, Destroys, ComponentCommands, SystemCommands
<1>6. ASSUME NEW g \in Frame, ~Busy(e), g.op # "flushing", g.entity = e
      PROVE  \A i \in 1 .. Len(stack) : MayEnclose(stack[i], g)
  BY <1>4, <1>6 DEF MayEnclose
<1>7. CASE command.kind = "add"
  <2>1. addComponentImmediate(e, command.component, rest)
    BY <1>7 DEF Perform
  <2>2. CASE isActive(e)
    <3>1. ~Working(e, {"clearing"})
      BY <1>3, <1>4, <1>7 DEF Working
    <3>2. Adds(e, command.component, rest)
      BY <2>1, <2>2, <3>1 DEF addComponentImmediate, Adds
    <3>3. QED
      BY <1>2, <1>5, <1>7, <2>2, <3>2 DEF Calls
  <2>3. CASE ~isActive(e)
    BY <2>1, <2>3 DEF addComponentImmediate, Calls, WorldUnchanged
  <2>4. QED
    BY <2>2, <2>3
<1>8. CASE command.kind = "remove"
  <2>1. removeComponentImmediate(e, command.component, rest)
    BY <1>8 DEF Perform
  <2>2. CASE hasComponent(e, command.component)
    <3> DEFINE g == [op |-> "checking", entity |-> e, managers |-> Managers,
                     manager |-> NoManager, at |-> 1, inHook |-> FALSE]
               h == [op |-> "removing", entity |-> e, component |-> command.component]
    <3>1. e \in LiveHandles /\ e \in Handle
      BY <1>2, <2>2 DEF hasComponent
    <3>2. g \in CheckFrame /\ h \in RemovalFrame
      BY <1>5, <1>8, <3>1 DEF CheckFrame, RemovalFrame
    <3>3. g \in Frame /\ h \in Frame
      BY <3>2 DEF Frame
    <3>4. FrameHolds(g) /\ FrameHolds(h)
      BY <3>1 DEF FrameHolds
    <3>5. \A i \in 1 .. Len(stack) : MayEnclose(stack[i], g)
      BY <1>3, <1>6, <1>8, <3>3
    <3>6. stack' = rest \o <<g, h>> /\ WorldUnchanged
      BY <2>1, <2>2 DEF removeComponentImmediate, WorldUnchanged
    <3>7. BeginsRemoval(g, h, rest)
      BY <3>4, <3>5, <3>6 DEF BeginsRemoval
    <3> HIDE DEF g, h
    <3>8. QED
      BY <3>3, <3>7 DEF Calls
  <2>3. CASE ~hasComponent(e, command.component)
    BY <2>1, <2>3 DEF removeComponentImmediate, Calls, WorldUnchanged
  <2>4. QED
    BY <2>2, <2>3
<1>9. CASE command.kind = "subscribe"
  <2> DEFINE s == command.system
             g == [op |-> "subscribing", entity |-> e, system |-> s]
  <2>1. subscribeEntityImmediate(e, s, rest)
    BY <1>9 DEF Perform
  <2>2. CASE isActive(e) /\ shouldProcessEntity(s, e) /\ ~Lists(e, s)
    <3>1. e \in LiveHandles /\ e \in Handle
      BY <1>2, <2>2
    <3>2. g \in SubscriptionFrame
      BY <1>5, <1>9, <3>1 DEF SubscriptionFrame
    <3>3. g \in Frame
      BY <3>2 DEF Frame
    <3>4. FrameHolds(g)
      BY <2>2, <3>1 DEF FrameHolds
    <3>5. ASSUME NEW i \in 1 .. Len(stack), ~Busy(e) PROVE MayEnclose(stack[i], g)
      BY <1>6, <3>3, <3>5
    <3>6. ASSUME NEW i \in 1 .. Len(stack),
                 ~HookedOn(e, s), ~Walked(e), ~Working(e, {"destroying", "clearing"})
          PROVE  MayEnclose(stack[i], g)
      BY <3>6 DEF MayEnclose, HookedOn, Walked, Working, Hooks, WholeEntity, EndsEntity
    <3>7. \A i \in 1 .. Len(stack) : MayEnclose(stack[i], g)
      BY <1>3, <1>9, <3>5, <3>6
    <3>8. stack' = Append(rest, g) /\ WorldUnchanged
      BY <2>1, <2>2 DEF subscribeEntityImmediate, WorldUnchanged
    <3>9. Begins(g, rest)
      BY <3>4, <3>7, <3>8 DEF Begins, Hooks
    <3> HIDE DEF g
    <3>10. QED
      BY <3>3, <3>9 DEF Calls
  <2>3. CASE ~(isActive(e) /\ shouldProcessEntity(s, e) /\ ~Lists(e, s))
    BY <2>1, <2>3 DEF subscribeEntityImmediate, Calls, WorldUnchanged
  <2>4. QED
    BY <2>2, <2>3
<1>10. CASE command.kind = "unsubscribe"
  <2> DEFINE s == command.system
             g == [op |-> "unsubscribing", entity |-> e, system |-> s]
  <2>1. unsubscribeEntityImmediate(e, s, rest)
    BY <1>10 DEF Perform
  <2>2. CASE isActive(e) /\ Lists(e, s)
    <3>1. e \in LiveHandles /\ e \in Handle
      BY <1>2, <2>2
    <3>2. g \in SubscriptionFrame
      BY <1>5, <1>10, <3>1 DEF SubscriptionFrame
    <3>3. g \in Frame
      BY <3>2 DEF Frame
    <3>4. FrameHolds(g)
      BY <2>2, <3>1 DEF FrameHolds
    <3>5. ASSUME NEW i \in 1 .. Len(stack), ~Busy(e) PROVE MayEnclose(stack[i], g)
      BY <1>6, <3>3, <3>5
    <3>6. ASSUME NEW i \in 1 .. Len(stack), ~HookedOn(e, s), ~Walked(e)
          PROVE  MayEnclose(stack[i], g)
      BY <3>6 DEF MayEnclose, HookedOn, Walked, Hooks, WholeEntity, EndsEntity
    <3>7. \A i \in 1 .. Len(stack) : MayEnclose(stack[i], g)
      BY <1>3, <1>10, <3>5, <3>6
    <3>8. stack' = Append(rest, g) /\ WorldUnchanged
      BY <2>1, <2>2 DEF unsubscribeEntityImmediate, WorldUnchanged
    <3>9. Begins(g, rest)
      BY <3>4, <3>7, <3>8 DEF Begins, Hooks
    <3> HIDE DEF g
    <3>10. QED
      BY <3>3, <3>9 DEF Calls
  <2>3. CASE ~(isActive(e) /\ Lists(e, s))
    BY <2>1, <2>3 DEF unsubscribeEntityImmediate, Calls, WorldUnchanged
  <2>4. QED
    BY <2>2, <2>3
<1>11. CASE command.kind = "destroy"
  <2> DEFINE g == [op |-> "destroying", entity |-> e, managers |-> Managers, pending |-> <<>>]
  <2>1. destroyEntityImmediate(e, rest)
    BY <1>11 DEF Perform
  <2>2. CASE isActive(e)
    <3>1. e \in LiveHandles /\ e \in Handle
      BY <1>2, <2>2
    <3>2. g \in DestroyFrame
      BY <3>1 DEF DestroyFrame
    <3>3. g \in Frame
      BY <3>2 DEF Frame
    <3>4. FrameHolds(g)
      BY <3>1 DEF FrameHolds
    <3>5. \A i \in 1 .. Len(stack) : MayEnclose(stack[i], g)
      BY <1>3, <1>6, <1>11, <3>3
    <3>6. stack' = Append(rest, g) /\ WorldUnchanged
      BY <2>1, <2>2 DEF destroyEntityImmediate, WorldUnchanged
    <3>7. Begins(g, rest)
      BY <3>4, <3>5, <3>6 DEF Begins
    <3> HIDE DEF g
    <3>8. QED
      BY <3>3, <3>7 DEF Calls
  <2>3. CASE ~isActive(e)
    BY <2>1, <2>3 DEF destroyEntityImmediate, Calls, WorldUnchanged
  <2>4. QED
    BY <2>2, <2>3
<1>12. QED
  BY <1>7, <1>8, <1>9, <1>10, <1>11 DEF Perform

LEMMA StackTop ==
  ASSUME ManagerTypeOK, stack # <<>>
  PROVE  /\ Len(stack) \in Nat \ {0} /\ Len(stack) \in 1 .. Len(stack)
         /\ Top = stack[Len(stack)] /\ Top \in Frame
         /\ Below \in Seq(Frame) /\ Len(Below) = Len(stack) - 1
         /\ \A i \in 1 .. Len(stack) - 1 : Below[i] = stack[i]
<1>1. stack \in Seq(Frame)
  BY DEF ManagerTypeOK
<1>2. /\ Len(stack) \in Nat \ {0}
      /\ Top = stack[Len(stack)] /\ Top \in Frame
      /\ Below \in Seq(Frame) /\ Len(Below) = Len(stack) - 1
      /\ \A i \in 1 .. Len(stack) - 1 : Below[i] = stack[i]
  BY <1>1, FrontLast DEF Top, Below
<1>3. QED
  BY <1>2

LEMMA EachFrame ==
  ASSUME ManagerTypeOK, NEW i \in 1 .. Len(stack)
  PROVE  stack[i] \in Frame /\ Len(stack) \in Nat /\ stack # <<>>
<1>1. stack \in Seq(Frame)
  BY DEF ManagerTypeOK
<1>2. Len(stack) \in Nat
  BY <1>1, LenProperties
<1>3. QED
  BY <1>1, <1>2, ElementOfSeq, EmptySeq

(* At most a flush is under way. *)
OnlyFlush(frames) ==
  /\ frames \in Seq(Frame)
  /\ Len(frames) \in {0, 1}
  /\ \A i \in 1 .. Len(frames) : frames[i].op = "flushing"

LEMMA FlushAlone ==
  ASSUME ManagerInv, Running("flushing")
  PROVE  OnlyFlush(stack) /\ Len(stack) = 1
<1>1. /\ Len(stack) \in Nat \ {0} /\ Top = stack[Len(stack)] /\ Top.op = "flushing"
      /\ stack \in Seq(Frame)
  BY StackTop DEF ManagerInv, Running, ManagerTypeOK
<1>2. ~(1 < Len(stack))
  <2>1. SUFFICES ASSUME 1 < Len(stack) PROVE FALSE
    OBVIOUS
  <2>2. 1 \in 1 .. Len(stack) /\ Len(stack) \in 1 .. Len(stack)
    BY <1>1
  <2>3. MayEnclose(stack[1], stack[Len(stack)])
    BY <2>1, <2>2 DEF ManagerInv, Nested
  <2>4. QED
    BY <1>1, <2>3 DEF MayEnclose
<1>3. Len(stack) = 1
  <2>1. \A n \in Nat \ {0} : ~(1 < n) => n = 1
    OBVIOUS
  <2>2. QED
    BY <1>1, <1>2, <2>1, Zenon
<1>4. \A i \in 1 .. Len(stack) : i = Len(stack)
  BY <1>3
<1>5. QED
  BY <1>1, <1>3, <1>4 DEF OnlyFlush

LEMMA Flushing ==
  ASSUME ManagerInv, HookScope = "others", flushExecutes
  PROVE  \E rest : SameFrames(stack, rest) /\ Calls(rest)
<1> DEFINE f == [Top EXCEPT !.batch = Tail(@)]
           rest == Append(Below, f)
<1>1. Running("flushing") /\ Top.batch # <<>> /\ Perform(Head(Top.batch), rest)
  BY DEF flushExecutes
<1>2. ManagerTypeOK /\ stack # <<>> /\ Top.op = "flushing" /\ OnlyFlush(stack) /\ Len(stack) = 1
  BY <1>1, FlushAlone DEF ManagerInv, Running
<1>3. Top \in FlushFrame
  BY <1>2, StackTop, FrameIs
<1>4. Top.batch \in Seq(Command)
  BY <1>3 DEF FlushFrame
<1>5. Tail(Top.batch) \in Seq(Command) /\ Head(Top.batch) \in Command
  <2>1. Len(Top.batch) \in Nat \ {0}
    BY <1>1, <1>4, EmptySeq
  <2>2. QED
    BY <1>1, <1>4, <2>1, HeadTailProperties, ElementOfSeq
<1>6. f \in FlushFrame /\ f.op = "flushing"
  BY <1>3, <1>5 DEF FlushFrame
<1>7. f \in Frame
  BY <1>6 DEF Frame
<1>8. stack \in Seq(Frame) /\ Below = Front(stack)
  BY <1>2 DEF ManagerTypeOK, Below
<1>9. /\ rest \in Seq(Frame) /\ Len(rest) = Len(stack)
      /\ \A i \in 1 .. Len(stack) - 1 : rest[i] = stack[i]
      /\ rest[Len(stack)] = f
  BY <1>2, <1>7, <1>8, Replaced
<1>10. SameFrames(stack, rest)
  BY <1>2, <1>6, <1>9 DEF SameFrames, OnlyFlush
<1>11. ~Busy(Head(Top.batch).entity)
  BY <1>2 DEF Busy, OnlyFlush
<1>12. MayChange(Head(Top.batch))
  BY <1>11 DEF MayChange
<1> HIDE DEF rest, f
<1>13. Calls(rest)
  BY <1>1, <1>5, <1>12, Performed
<1>14. QED
  BY <1>10, <1>13

LEMMA Steps ==
  ASSUME ManagerInv, HookScope = "others", [ManagerNext]_vars
  PROVE  \/ \E rest : SameFrames(stack, rest) /\ Calls(rest)
         \/ CreateCall
         \/ OnlyFlush(stack) /\ OnlyFlush(stack') /\ WorldUnchanged
         \/ subscribeInternalReturns \/ unsubscribeReturns
         \/ checkNextManager \/ checkFindsUnfit \/ checkUnsubscribes
         \/ checkManagerDone \/ checkReturns
         \/ removeReturns
         \/ destroyNextManager \/ destroyUnsubscribes \/ destroyLeftSystems
         \/ removeEntityCallback \/ destroyFreesSlot
<1>1. stack \in Seq(Frame) /\ Len(stack) \in Nat /\ SameFrames(stack, stack)
  BY LenProperties DEF ManagerInv, ManagerTypeOK, SameFrames
<1>2. ASSUME WorldUnchanged, stack' = stack
      PROVE  \E rest : SameFrames(stack, rest) /\ Calls(rest)
  BY <1>1, <1>2 DEF Calls
<1>3. ASSUME UNCHANGED vars PROVE WorldUnchanged /\ stack' = stack
  BY <1>3 DEF vars, WorldUnchanged, entityVars
<1>4. ASSUME NEW m \in Managers, NEW command \in Commands, DeferredCall(m, command)
      PROVE  WorldUnchanged /\ stack' = stack
  BY <1>4 DEF DeferredCall, WorldUnchanged
<1>5. ASSUME NEW command \in Commands, ImmediateCall(command)
      PROVE  \E rest : SameFrames(stack, rest) /\ Calls(rest)
  BY <1>1, <1>5, Performed DEF ImmediateCall
<1>6. ASSUME NEW m \in Managers, flushDeferred(m)
      PROVE  OnlyFlush(stack) /\ OnlyFlush(stack') /\ WorldUnchanged
  <2> DEFINE f == [op |-> "flushing", batch |-> deferred[m]]
  <2>1. f \in Frame
    BY DEF ManagerInv, ManagerTypeOK, Frame, FlushFrame
  <2>2. stack = <<>> /\ stack' = <<f>> /\ WorldUnchanged
    BY <1>6 DEF flushDeferred, WorldUnchanged
  <2>3. f.op = "flushing"
    OBVIOUS
  <2> HIDE DEF f
  <2>4. <<f>> \in Seq(Frame) /\ Len(<<f>>) = 1 /\ <<f>>[1] = f /\ Len(<<>>) = 0
    BY <2>1
  <2>5. QED
    BY <1>1, <2>2, <2>3, <2>4 DEF OnlyFlush
<1>7. ASSUME flushReturns PROVE OnlyFlush(stack) /\ OnlyFlush(stack') /\ WorldUnchanged
  <2>1. OnlyFlush(stack) /\ Len(stack) = 1
    BY <1>7, FlushAlone DEF flushReturns
  <2>2. stack' \in Seq(Frame) /\ Len(stack') = 0
    BY <1>7, <2>1, StackTop DEF flushReturns, Running, ManagerInv
  <2>3. QED
    BY <1>7, <2>1, <2>2 DEF OnlyFlush, flushReturns, WorldUnchanged
<1>8. QED
  BY <1>2, <1>3, <1>4, <1>5, <1>6, <1>7, Flushing DEF ManagerNext

-----------------------------------------------------------------------------
(* What each action makes of the innermost operation. *)

LEMMA TopRuns ==
  ASSUME ManagerInv, NEW op, Running(op)
  PROVE  stack # <<>> /\ Top \in Frame /\ Top.op = op /\ FrameHolds(Top)
<1>1. ManagerTypeOK /\ stack # <<>> /\ Top.op = op
  BY DEF ManagerInv, Running
<1>2. Top \in Frame /\ Top = stack[Len(stack)] /\ Len(stack) \in 1 .. Len(stack)
  BY <1>1, StackTop
<1>3. QED
  BY <1>1, <1>2 DEF ManagerInv, FramesHold

LEMMA ChecksNext ==
  ASSUME ManagerInv, checkNextManager
  PROVE  /\ stack # <<>> /\ Top \in CheckFrame /\ ~Top.inHook /\ Top.manager = NoManager
         /\ WorldUnchanged
         /\ \E m \in Top.managers, g \in CheckFrame :
              /\ g.entity = Top.entity /\ g.managers = Top.managers \ {m} /\ g.manager = m
              /\ g.at = 1 /\ ~g.inHook
              /\ stack' = Append(Below, g)
<1>1. /\ stack # <<>> /\ Top \in CheckFrame /\ ~Top.inHook /\ Top.manager = NoManager
      /\ WorldUnchanged
  BY TopRuns, FrameIs DEF checkNextManager, WorldUnchanged
<1>2. PICK m \in Top.managers :
        stack' = Append(Below, [Top EXCEPT !.managers = @ \ {m}, !.manager = m, !.at = 1])
  BY DEF checkNextManager
<1> DEFINE g == [Top EXCEPT !.managers = @ \ {m}, !.manager = m, !.at = 1]
<1>3. /\ g \in CheckFrame
      /\ g.entity = Top.entity /\ g.managers = Top.managers \ {m} /\ g.manager = m
      /\ g.at = 1 /\ ~g.inHook
  BY <1>1 DEF CheckFrame
<1>4. stack' = Append(Below, g)
  BY <1>2
<1> HIDE DEF g
<1>5. QED
  BY <1>1, <1>3, <1>4

LEMMA ChecksUnfit ==
  ASSUME ManagerInv, checkFindsUnfit
  PROVE  /\ stack # <<>> /\ Top \in CheckFrame /\ ~Top.inHook /\ Top.manager \in Managers
         /\ WorldUnchanged
         /\ \E g \in CheckFrame :
              /\ g.entity = Top.entity /\ g.managers = Top.managers /\ g.manager = Top.manager
              /\ g.at \in Unfit(Top) /\ (\A i \in Unfit(Top) : g.at <= i) /\ g.inHook
              /\ stack' = Append(Below, g)
<1>1. /\ stack # <<>> /\ Top \in CheckFrame /\ ~Top.inHook /\ Top.manager # NoManager
      /\ WorldUnchanged /\ Unfit(Top) # {}
  BY TopRuns, FrameIs DEF checkFindsUnfit, WorldUnchanged
<1>2. Top.manager \in Managers /\ Top.at \in Nat /\ Top.entity \in Handle
  BY <1>1 DEF CheckFrame
<1>3. Unfit(Top) \in SUBSET Nat
  <2>1. SystemsOf(Top.entity, Top.manager) \in Seq(Systems)
    BY <1>2 DEF ManagerInv, ManagerTypeOK, SystemsOf
  <2>2. Len(SystemsOf(Top.entity, Top.manager)) \in Nat
    BY <2>1, LenProperties
  <2>3. QED
    BY <1>2, <2>2 DEF Unfit
<1>4. Min(Unfit(Top)) \in Unfit(Top) /\ \A i \in Unfit(Top) : Min(Unfit(Top)) <= i
  BY <1>1, <1>3, MinOf
<1> DEFINE g == [Top EXCEPT !.at = Min(Unfit(Top)), !.inHook = TRUE]
<1>5. Min(Unfit(Top)) \in Nat
  BY <1>3, <1>4
<1>6. /\ g \in CheckFrame
      /\ g.entity = Top.entity /\ g.managers = Top.managers /\ g.manager = Top.manager
      /\ g.at = Min(Unfit(Top)) /\ g.inHook
  BY <1>1, <1>5 DEF CheckFrame
<1>7. stack' = Append(Below, g)
  BY DEF checkFindsUnfit
<1> HIDE DEF g
<1>8. QED
  BY <1>1, <1>2, <1>4, <1>6, <1>7

LEMMA ChecksErase ==
  ASSUME ManagerInv, checkUnsubscribes
  PROVE  /\ stack # <<>> /\ Top \in CheckFrame /\ Top.inHook /\ Top.manager \in Managers
         /\ Top.at \in 1 .. Len(SystemsOf(Top.entity, Top.manager))
         /\ Top.entity \in LiveHandles
         /\ UNCHANGED <<entityVars, components>>
         /\ \E g \in CheckFrame :
              /\ g.entity = Top.entity /\ g.managers = Top.managers /\ g.manager = Top.manager
              /\ g.at = Top.at /\ ~g.inHook
              /\ stack' = Append(Below, g)
<1>1. /\ stack # <<>> /\ Top \in CheckFrame /\ Top.inHook /\ FrameHolds(Top)
      /\ UNCHANGED <<entityVars, components>>
  BY TopRuns, FrameIs DEF checkUnsubscribes
<1>2. Top.op = "checking"
  BY <1>1 DEF CheckFrame
<1>3. /\ Top.manager \in Managers
      /\ Top.at \in 1 .. Len(SystemsOf(Top.entity, Top.manager))
      /\ Top.entity \in LiveHandles
  BY <1>1, <1>2 DEF FrameHolds, CheckFrame
<1> DEFINE g == [Top EXCEPT !.inHook = FALSE, !.at = iteratorAfterErase(@)]
<1>4. /\ g \in CheckFrame
      /\ g.entity = Top.entity /\ g.managers = Top.managers /\ g.manager = Top.manager
      /\ g.at = Top.at /\ ~g.inHook
  BY <1>1 DEF CheckFrame, iteratorAfterErase
<1>5. stack' = Append(Below, g)
  BY DEF checkUnsubscribes
<1> HIDE DEF g
<1>6. QED
  BY <1>1, <1>3, <1>4, <1>5

LEMMA ChecksDone ==
  ASSUME ManagerInv, checkManagerDone
  PROVE  /\ stack # <<>> /\ Top \in CheckFrame /\ ~Top.inHook /\ Top.manager \in Managers
         /\ Unfit(Top) = {} /\ Top.at # 0
         /\ WorldUnchanged
         /\ \E g \in CheckFrame :
              /\ g.entity = Top.entity /\ g.managers = Top.managers /\ g.manager = NoManager
              /\ g.at = Top.at /\ ~g.inHook
              /\ stack' = Append(Below, g)
<1>1. /\ stack # <<>> /\ Top \in CheckFrame /\ ~Top.inHook /\ Top.manager # NoManager
      /\ Unfit(Top) = {} /\ WorldUnchanged /\ FrameHolds(Top)
  BY TopRuns, FrameIs DEF checkManagerDone, WorldUnchanged
<1>2. Top.manager \in Managers /\ Top.at # 0
  BY <1>1 DEF CheckFrame, FrameHolds
<1> DEFINE g == [Top EXCEPT !.manager = NoManager]
<1>3. /\ g \in CheckFrame
      /\ g.entity = Top.entity /\ g.managers = Top.managers /\ g.manager = NoManager
      /\ g.at = Top.at /\ ~g.inHook
  BY <1>1 DEF CheckFrame
<1>4. stack' = Append(Below, g)
  BY DEF checkManagerDone
<1> HIDE DEF g
<1>5. QED
  BY <1>1, <1>2, <1>3, <1>4

LEMMA DestroysNext ==
  ASSUME ManagerInv, destroyNextManager
  PROVE  /\ stack # <<>> /\ Top \in DestroyFrame /\ Top.pending = <<>>
         /\ WorldUnchanged
         /\ \E m \in Top.managers, g \in DestroyFrame :
              /\ g.entity = Top.entity /\ g.managers = Top.managers \ {m}
              /\ g.pending = SystemsOf(Top.entity, m)
              /\ stack' = Append(Below, g)
<1>1. /\ stack # <<>> /\ Top \in DestroyFrame /\ Top.pending = <<>> /\ WorldUnchanged
  BY TopRuns, FrameIs DEF destroyNextManager, WorldUnchanged
<1>2. PICK m \in Top.managers :
        stack' = Append(Below, [Top EXCEPT !.managers = @ \ {m},
                                           !.pending = SystemsOf(Top.entity, m)])
  BY DEF destroyNextManager
<1> DEFINE g == [Top EXCEPT !.managers = @ \ {m}, !.pending = SystemsOf(Top.entity, m)]
<1>3. m \in Managers /\ Top.entity \in Handle
  BY <1>1 DEF DestroyFrame
<1>4. SystemsOf(Top.entity, m) \in Seq(Systems)
  BY <1>3 DEF ManagerInv, ManagerTypeOK, SystemsOf
<1>5. /\ g \in DestroyFrame
      /\ g.entity = Top.entity /\ g.managers = Top.managers \ {m}
      /\ g.pending = SystemsOf(Top.entity, m)
  BY <1>1, <1>4 DEF DestroyFrame
<1>6. stack' = Append(Below, g)
  BY <1>2
<1> HIDE DEF g
<1>7. QED
  BY <1>1, <1>5, <1>6

LEMMA DestroysPending ==
  ASSUME ManagerInv, destroyUnsubscribes
  PROVE  /\ stack # <<>> /\ Top \in DestroyFrame
         /\ Len(Top.pending) \in Nat \ {0} /\ Top.pending[1] \in Systems
         /\ WorldUnchanged
         /\ \E g \in DestroyFrame :
              /\ g.entity = Top.entity /\ g.managers = Top.managers
              /\ Len(g.pending) = Len(Top.pending) - 1
              /\ \A i \in 1 .. Len(g.pending) : g.pending[i] = Top.pending[i + 1]
              /\ \/ ~Lists(Top.entity, Top.pending[1]) /\ stack' = Append(Below, g)
                 \/ \E h \in SubscriptionFrame :
                      /\ h.op = "unsubscribing" /\ h.entity = Top.entity
                      /\ h.system = Top.pending[1]
                      /\ Lists(Top.entity, Top.pending[1])
                      /\ stack' = Append(Append(Below, g), h)
<1>1. stack # <<>> /\ Top \in DestroyFrame /\ Top.pending # <<>> /\ WorldUnchanged
  BY TopRuns, FrameIs DEF destroyUnsubscribes, WorldUnchanged
<1>2. Top.pending \in Seq(Systems)
  BY <1>1 DEF DestroyFrame
<1>3. /\ Len(Top.pending) \in Nat \ {0}
      /\ Head(Top.pending) = Top.pending[1]
      /\ Tail(Top.pending) \in Seq(Systems)
      /\ Len(Tail(Top.pending)) = Len(Top.pending) - 1
      /\ \A i \in 1 .. Len(Tail(Top.pending)) : Tail(Top.pending)[i] = Top.pending[i + 1]
  BY <1>1, <1>2, EmptySeq, HeadTailProperties
<1>4. Top.pending[1] \in Systems
  BY <1>2, <1>3, ElementOfSeq
<1> DEFINE g == [Top EXCEPT !.pending = Tail(@)]
           h == [op |-> "unsubscribing", entity |-> Top.entity, system |-> Top.pending[1]]
<1>5. /\ g \in DestroyFrame
      /\ g.entity = Top.entity /\ g.managers = Top.managers /\ g.pending = Tail(Top.pending)
  BY <1>1, <1>3 DEF DestroyFrame
<1>6. h \in SubscriptionFrame
  BY <1>1, <1>4 DEF DestroyFrame, SubscriptionFrame
<1>7. \/ ~Lists(Top.entity, Top.pending[1]) /\ stack' = Append(Below, g)
      \/ Lists(Top.entity, Top.pending[1]) /\ stack' = Append(Append(Below, g), h)
  BY <1>3 DEF destroyUnsubscribes
<1>8. h.op = "unsubscribing" /\ h.entity = Top.entity /\ h.system = Top.pending[1]
  OBVIOUS
<1> HIDE DEF g, h
<1>9. QED
  BY <1>1, <1>3, <1>4, <1>5, <1>6, <1>7, <1>8

LEMMA DestroysLeft ==
  ASSUME ManagerInv, destroyLeftSystems
  PROVE  /\ stack # <<>> /\ Top \in DestroyFrame /\ Top.pending = <<>> /\ Top.managers = {}
         /\ WorldUnchanged
         /\ \E g \in ClearFrame :
              /\ g.entity = Top.entity /\ g.storages = Components
              /\ stack' = Append(Below, g)
<1>1. /\ stack # <<>> /\ Top \in DestroyFrame /\ Top.pending = <<>> /\ Top.managers = {}
      /\ WorldUnchanged
  BY TopRuns, FrameIs DEF destroyLeftSystems, WorldUnchanged
<1> DEFINE g == removeEntity(Top.entity)
<1>2. g \in ClearFrame /\ g.entity = Top.entity /\ g.storages = Components
  BY <1>1 DEF removeEntity, ClearFrame, DestroyFrame
<1>3. stack' = Append(Below, g)
  BY DEF destroyLeftSystems
<1> HIDE DEF g
<1>4. QED
  BY <1>1, <1>2, <1>3

LEMMA ClearsNext ==
  ASSUME ManagerInv, removeEntityCallback
  PROVE  /\ stack # <<>> /\ Top \in ClearFrame
         /\ WorldUnchanged
         /\ \E c \in Top.storages, g \in ClearFrame :
              /\ g.entity = Top.entity /\ g.storages = Top.storages \ {c}
              /\ \/ components[c][Top.entity.slot] = NoOwner /\ stack' = Append(Below, g)
                 \/ \E h \in RemovalFrame :
                      /\ h.entity = Top.entity /\ h.component = c
                      /\ stack' = Append(Append(Below, g), h)
<1>1. stack # <<>> /\ Top \in ClearFrame /\ WorldUnchanged
  BY TopRuns, FrameIs DEF removeEntityCallback, WorldUnchanged
<1>2. PICK c \in Top.storages :
        stack' = IF components[c][Top.entity.slot] # NoOwner
                 THEN Append(Append(Below, [Top EXCEPT !.storages = @ \ {c}]),
                             [op |-> "removing", entity |-> Top.entity, component |-> c])
                 ELSE Append(Below, [Top EXCEPT !.storages = @ \ {c}])
  BY DEF removeEntityCallback
<1> DEFINE g == [Top EXCEPT !.storages = @ \ {c}]
           h == [op |-> "removing", entity |-> Top.entity, component |-> c]
<1>3. /\ g \in ClearFrame
      /\ g.entity = Top.entity /\ g.storages = Top.storages \ {c}
  BY <1>1 DEF ClearFrame
<1>4. h \in RemovalFrame /\ h.entity = Top.entity /\ h.component = c
  BY <1>1 DEF ClearFrame, RemovalFrame
<1>5. \/ components[c][Top.entity.slot] = NoOwner /\ stack' = Append(Below, g)
      \/ stack' = Append(Append(Below, g), h)
  BY <1>2
<1> HIDE DEF g, h
<1>6. QED
  BY <1>1, <1>3, <1>4, <1>5

-----------------------------------------------------------------------------
(* Calls stay nested. *)

LEMMA TwoPushed ==
  ASSUME NEW frames \in Seq(Frame), NEW g \in Frame, NEW h \in Frame
  PROVE  frames \o <<g, h>> = Append(Append(frames, g), h)
<1>1. <<g, h>> \in Seq(Frame) /\ Len(<<g, h>>) = 2 /\ <<g, h>>[1] = g /\ <<g, h>>[2] = h
  OBVIOUS
<1>2. Len(frames) \in Nat
  BY LenProperties
<1> DEFINE a == frames \o <<g, h>>
           b == Append(Append(frames, g), h)
<1>3. /\ a \in Seq(Frame) /\ Len(a) = Len(frames) + 2
      /\ \A i \in 1 .. Len(frames) + 2 :
           a[i] = IF i <= Len(frames) THEN frames[i] ELSE <<g, h>>[i - Len(frames)]
  BY <1>1, ConcatProperties
<1>4. /\ Append(frames, g) \in Seq(Frame) /\ Len(Append(frames, g)) = Len(frames) + 1
      /\ \A i \in 1 .. Len(frames) : Append(frames, g)[i] = frames[i]
      /\ Append(frames, g)[Len(frames) + 1] = g
  BY Pushed
<1>5. /\ b \in Seq(Frame) /\ Len(b) = Len(frames) + 1 + 1
      /\ \A i \in 1 .. Len(frames) + 1 : b[i] = Append(frames, g)[i]
      /\ b[Len(frames) + 1 + 1] = h
  BY <1>4, Pushed
<1> HIDE DEF a, b
<1>6. Len(a) = Len(b)
  BY <1>2, <1>3, <1>5
<1>7. ASSUME NEW i \in 1 .. Len(a) PROVE a[i] = b[i]
  <2>1. \/ i \in 1 .. Len(frames)
        \/ i = Len(frames) + 1
        \/ i = Len(frames) + 2
    BY <1>2, <1>3
  <2>2. CASE i \in 1 .. Len(frames)
    <3>1. i <= Len(frames) /\ i \in 1 .. Len(frames) + 1 /\ i \in 1 .. Len(frames) + 2
      BY <1>2, <2>2
    <3>2. QED
      BY <1>3, <1>4, <1>5, <2>2, <3>1
  <2>3. CASE i = Len(frames) + 1
    <3>1. /\ ~(i <= Len(frames)) /\ i - Len(frames) = 1
          /\ i \in 1 .. Len(frames) + 1 /\ i \in 1 .. Len(frames) + 2
      BY <1>2, <2>3
    <3>2. QED
      BY <1>1, <1>3, <1>4, <1>5, <2>3, <3>1
  <2>4. CASE i = Len(frames) + 2
    <3>1. /\ ~(i <= Len(frames)) /\ i - Len(frames) = 2 /\ i = Len(frames) + 1 + 1
          /\ i \in 1 .. Len(frames) + 2
      BY <1>2, <2>4
    <3>2. QED
      BY <1>1, <1>3, <1>5, <3>1
  <2>5. QED
    BY <2>1, <2>2, <2>3, <2>4
<1>8. a = b
  BY <1>3, <1>5, <1>6, <1>7, SeqEqual
<1>9. QED
  BY <1>8 DEF a, b

StackHolds(frames) == frames \in Seq(Frame) /\ Nested(frames) /\ Destructors(frames)

LEMMA CallsNested ==
  ASSUME ManagerInv, NEW rest, SameFrames(stack, rest), Calls(rest)
  PROVE  StackHolds(stack')
<1>1. stack \in Seq(Frame) /\ rest \in Seq(Frame) /\ Nested(rest) /\ Destructors(rest)
  BY SameNested DEF ManagerInv, ManagerTypeOK, SameFrames
<1>2. CASE stack' = rest
  BY <1>1, <1>2 DEF StackHolds
<1>3. ASSUME NEW g \in Frame, Begins(g, rest) PROVE StackHolds(stack')
  <2>1. \A i \in 1 .. Len(rest) : MayEnclose(rest[i], g)
    BY <1>1, <1>3, SamePush DEF Begins
  <2>2. g.op # "removing" /\ stack' = Append(rest, g)
    BY <1>3 DEF Begins, Hooks
  <2>3. QED
    BY <1>1, <2>1, <2>2, NestedPush, AppendProperties DEF StackHolds
<1>4. ASSUME NEW g \in Frame, NEW h \in Frame, BeginsRemoval(g, h, rest)
      PROVE  StackHolds(stack')
  <2> DEFINE a == Append(rest, g)
  <2>1. /\ \A i \in 1 .. Len(rest) : MayEnclose(rest[i], g)
        /\ g.op = "checking" /\ g.managers = Managers /\ g.manager = NoManager
        /\ h.op = "removing" /\ h.entity = g.entity
    BY <1>1, <1>4, SamePush DEF BeginsRemoval
  <2>2. /\ a \in Seq(Frame) /\ a # <<>> /\ Len(a) = Len(rest) + 1 /\ a[Len(rest) + 1] = g
        /\ Len(rest) \in Nat
        /\ \A i \in 1 .. Len(rest) : a[i] = rest[i]
    BY <1>1, Pushed
  <2>3. Nested(a) /\ Destructors(a)
    BY <1>1, <2>1, NestedPush
  <2>4. stack' = Append(a, h)
    BY <1>1, <1>4, TwoPushed DEF BeginsRemoval
  <2> HIDE DEF a
  <2>5. \A i \in 1 .. Len(a) : i \in 1 .. Len(rest) \/ i = Len(rest) + 1
    BY <2>2
  <2>6. \A i \in 1 .. Len(a) : MayEnclose(a[i], h)
    <3>1. MayEnclose(g, h)
      BY <2>1 DEF MayEnclose, WholeEntity, EndsEntity, Hooks
    <3>2. ASSUME NEW i \in 1 .. Len(rest) PROVE MayEnclose(rest[i], h)
      <4>1. MayEnclose(rest[i], g)
        BY <2>1, <3>2
      <4>2. rest[i].op = "flushing" \/ rest[i].entity # h.entity
        BY <2>1, <4>1 DEF MayEnclose, WholeEntity
      <4>3. QED
        BY <2>1, <4>2 DEF MayEnclose
    <3>3. QED
      BY <2>2, <2>5, <3>1, <3>2
  <2>7. RemovedBy(a[Len(a)], h)
    BY <2>1, <2>2 DEF RemovedBy
  <2>8. QED
    BY <2>2, <2>3, <2>4, <2>6, <2>7, NestedPush, AppendProperties DEF StackHolds
<1>5. QED
  BY <1>2, <1>3, <1>4 DEF Calls, Adds

(* A frame pushed on the operation on a whole entity that its top runs. *)
LEMMA PushedInside ==
  ASSUME NEW frames, StackHolds(frames), frames # <<>>, NEW h \in Frame,
         Last(frames).op \in WholeEntity, h.entity = Last(frames).entity,
         MayEnclose(Last(frames), h),
         h.op = "removing" => RemovedBy(Last(frames), h)
  PROVE  StackHolds(Append(frames, h))
<1>1. /\ frames \in Seq(Frame) /\ Len(frames) \in Nat \ {0} /\ Last(frames) = frames[Len(frames)]
      /\ Len(frames) \in 1 .. Len(frames)
  <2>1. frames \in Seq(Frame)
    BY DEF StackHolds
  <2>2. Len(frames) \in Nat \ {0} /\ Last(frames) = frames[Len(frames)]
    BY <2>1, FrontLast
  <2>3. QED
    BY <2>1, <2>2
<1>2. ASSUME NEW i \in 1 .. Len(frames) PROVE MayEnclose(frames[i], h)
  <2>1. CASE i = Len(frames)
    BY <1>1, <2>1
  <2>2. CASE i # Len(frames)
    <3>1. i < Len(frames)
      BY <1>1, <2>2
    <3>2. frames[i].op = "flushing" \/ frames[i].entity # h.entity
      BY <1>1, <3>1, AloneBelow DEF StackHolds
    <3>3. h.op # "flushing"
      BY DEF MayEnclose
    <3>4. QED
      BY <3>2, <3>3 DEF MayEnclose
  <2>3. QED
    BY <2>1, <2>2
<1>3. QED
  BY <1>1, <1>2, NestedPush, AppendProperties DEF StackHolds

LEMMA ReplacedTop ==
  ASSUME ManagerInv, stack # <<>>, NEW g \in Frame,
         g.op \in WholeEntity, Top.op \in WholeEntity, g.entity = Top.entity
  PROVE  StackHolds(Append(Below, g)) /\ Append(Below, g) # <<>> /\ Last(Append(Below, g)) = g
<1>1. stack \in Seq(Frame) /\ Nested(stack) /\ Destructors(stack)
  BY DEF ManagerInv, ManagerTypeOK
<1>2. /\ Append(Below, g) \in Seq(Frame) /\ Append(Below, g) # <<>>
      /\ Len(Append(Below, g)) = Len(stack) /\ Append(Below, g)[Len(stack)] = g
  BY <1>1, Replaced DEF Below
<1>3. Nested(Append(Below, g)) /\ Destructors(Append(Below, g))
  BY <1>1, NestedReplace DEF Below, Top
<1>4. Last(Append(Below, g)) = g
  BY <1>2, FrontLast
<1>5. QED
  BY <1>1, <1>2, <1>3, <1>4 DEF StackHolds

LEMMA StackNext ==
  ASSUME ManagerInv, HookScope = "others", [ManagerNext]_vars
  PROVE  StackHolds(stack')
<1>1. StackHolds(stack) /\ stack \in Seq(Frame)
  BY DEF StackHolds, ManagerInv, ManagerTypeOK
<1>2. /\ \A f \in CheckFrame : f \in Frame /\ f.op = "checking"
      /\ \A f \in DestroyFrame : f \in Frame /\ f.op = "destroying"
      /\ \A f \in ClearFrame : f \in Frame /\ f.op = "clearing"
      /\ \A f \in RemovalFrame : f \in Frame /\ f.op = "removing"
      /\ \A f \in SubscriptionFrame : f \in Frame
  BY DEF Frame, CheckFrame, DestroyFrame, ClearFrame, RemovalFrame, SubscriptionFrame
<1>3. {"checking", "destroying", "clearing"} = WholeEntity
  BY DEF WholeEntity
<1>4. ASSUME stack # <<>>, stack' = Below PROVE StackHolds(stack')
  BY <1>1, <1>4, NestedPop, FrontLast DEF StackHolds, Below
<1>5. ASSUME OnlyFlush(stack') PROVE StackHolds(stack')
  <2>1. /\ \A i, j \in 1 .. Len(stack') : ~(i < j)
        /\ \A i \in 1 .. Len(stack') : stack'[i].op # "removing"
    BY <1>5 DEF OnlyFlush
  <2>2. QED
    BY <1>5, <2>1 DEF OnlyFlush, StackHolds, Nested, Destructors
<1>6. CASE CreateCall
  BY <1>1, <1>6 DEF CreateCall, managerVars
<1>7. CASE subscribeInternalReturns \/ unsubscribeReturns \/ removeReturns \/ checkReturns
             \/ destroyFreesSlot
  BY <1>4, <1>7 DEF subscribeInternalReturns, unsubscribeReturns, removeReturns, checkReturns,
     destroyFreesSlot, Running
<1>8. CASE checkNextManager
  BY <1>2, <1>3, <1>8, ChecksNext, ReplacedTop
<1>9. CASE checkFindsUnfit
  BY <1>2, <1>3, <1>9, ChecksUnfit, ReplacedTop
<1>10. CASE checkUnsubscribes
  BY <1>2, <1>3, <1>10, ChecksErase, ReplacedTop
<1>11. CASE checkManagerDone
  BY <1>2, <1>3, <1>11, ChecksDone, ReplacedTop
<1>12. CASE destroyNextManager
  BY <1>2, <1>3, <1>12, DestroysNext, ReplacedTop
<1>13. CASE destroyUnsubscribes
  <2>1. PICK g \in DestroyFrame :
          /\ g.entity = Top.entity
          /\ \/ stack' = Append(Below, g)
             \/ \E h \in SubscriptionFrame :
                  /\ h.op = "unsubscribing" /\ h.entity = Top.entity
                  /\ stack' = Append(Append(Below, g), h)
    BY <1>13, DestroysPending
  <2>2. /\ StackHolds(Append(Below, g)) /\ Append(Below, g) # <<>>
        /\ Last(Append(Below, g)) = g
    BY <1>2, <1>3, <1>13, <2>1, DestroysPending, ReplacedTop
  <2>3. ASSUME NEW h \in SubscriptionFrame, h.op = "unsubscribing", h.entity = Top.entity
        PROVE  StackHolds(Append(Append(Below, g), h))
    <3>1. MayEnclose(g, h) /\ h.op # "removing" /\ g.op \in WholeEntity
      BY <1>2, <2>3 DEF MayEnclose, WholeEntity, EndsEntity, Hooks
    <3>2. QED
      BY <1>2, <2>1, <2>2, <2>3, <3>1, PushedInside
  <2>4. QED
    BY <2>1, <2>2, <2>3
<1>14. CASE destroyLeftSystems
  BY <1>2, <1>3, <1>14, DestroysLeft, ReplacedTop
<1>15. CASE removeEntityCallback
  <2>1. PICK g \in ClearFrame :
          /\ g.entity = Top.entity
          /\ \/ stack' = Append(Below, g)
             \/ \E h \in RemovalFrame :
                  /\ h.entity = Top.entity
                  /\ stack' = Append(Append(Below, g), h)
    BY <1>15, ClearsNext
  <2>2. /\ StackHolds(Append(Below, g)) /\ Append(Below, g) # <<>>
        /\ Last(Append(Below, g)) = g
    BY <1>2, <1>3, <1>15, <2>1, ClearsNext, ReplacedTop
  <2>3. ASSUME NEW h \in RemovalFrame, h.entity = Top.entity
        PROVE  StackHolds(Append(Append(Below, g), h))
    <3>1. MayEnclose(g, h) /\ g.op \in WholeEntity /\ RemovedBy(g, h)
      BY <1>2, <2>1, <2>3 DEF MayEnclose, WholeEntity, EndsEntity, Hooks, RemovedBy
    <3>2. QED
      BY <1>2, <2>1, <2>2, <2>3, <3>1, PushedInside
  <2>4. QED
    BY <2>1, <2>2, <2>3
<1>16. QED
  BY <1>4, <1>5, <1>6, <1>7, <1>8, <1>9, <1>10, <1>11, <1>12, <1>13, <1>14, <1>15,
     CallsNested, Steps

-----------------------------------------------------------------------------
(* Types, and the steps of the entity manager. *)

(* The structural changes create and destroy entities as EntityManager does. *)
LEMMA EntityStep ==
  ASSUME ManagerInv, HookScope = "others", [ManagerNext]_vars
  PROVE  /\ [EntityNext]_entityVars
         /\ \/ UNCHANGED entityVars
            \/ CreateCall
            \/ destroyFreesSlot
<1>1. \/ UNCHANGED entityVars
      \/ CreateCall
      \/ destroyFreesSlot
  BY Steps DEF Calls, Adds, Begins, BeginsRemoval, WorldUnchanged, subscribeInternalReturns,
     unsubscribeReturns, checkNextManager, checkFindsUnfit, checkUnsubscribes, checkManagerDone,
     checkReturns, removeReturns, destroyNextManager, destroyUnsubscribes, destroyLeftSystems,
     removeEntityCallback
<1>2. CreateCall => EntityNext
  BY DEF CreateCall, EntityNext
<1>3. ASSUME destroyFreesSlot PROVE EntityNext
  <2>1. Top.entity \in LiveHandles /\ destroyEntity(Top.entity)
    BY <1>3, TopRuns DEF destroyFreesSlot, FrameHolds
  <2>2. Top.entity \in AnyHandle
    BY <2>1 DEF ManagerInv, EntityInv, IssuedHandlesDated, AnyHandle
  <2>3. QED
    BY <2>1, <2>2 DEF EntityNext
<1>4. QED
  BY <1>1, <1>2, <1>3

LEMMA ListsType ==
  ASSUME ManagerTypeOK, NEW m \in Managers, NEW e \in Handle
  PROVE  /\ SystemsOf(e, m) \in Seq(Systems)
         /\ Len(SystemsOf(e, m)) \in Nat
         /\ DOMAIN SystemsOf(e, m) = 1 .. Len(SystemsOf(e, m))
         /\ \A i \in 1 .. Len(SystemsOf(e, m)) : SystemsOf(e, m)[i] \in Systems
<1>1. SystemsOf(e, m) \in Seq(Systems)
  BY DEF ManagerTypeOK, SystemsOf
<1>2. QED
  BY <1>1, LenProperties, ElementOfSeq

LEMMA OwnerManager == ASSUME NEW s \in Systems PROVE ManagerOf[s] \in Managers
BY ManagerAssumptions

(* What a subscription, an unsubscription and an erasure do to the lists. *)
ListBecomes(m, e, list) ==
  /\ DOMAIN entitySystems' = Managers
  /\ \A n \in Managers, h \in Handle :
       entitySystems'[n][h] = IF n = m /\ h = e THEN list ELSE entitySystems[n][h]
  /\ entitySystems' \in [Managers -> [Handle -> Seq(Systems)]]

LEMMA ListSet ==
  ASSUME ManagerTypeOK, NEW m \in Managers, NEW e \in Handle, NEW list \in Seq(Systems),
         entitySystems' = [entitySystems EXCEPT ![m][e] = list]
  PROVE  ListBecomes(m, e, list)
<1>1. entitySystems \in [Managers -> [Handle -> Seq(Systems)]]
  BY DEF ManagerTypeOK
<1> HIDE DEF ManagerTypeOK
<1>2. QED
  BY <1>1 DEF ListBecomes

SubscriptionOf(e, s) == e \in LiveHandles /\ e \in Handle /\ s \in Systems /\ ManagerOf[s] \in Managers

LEMMA Subscribes ==
  ASSUME ManagerInv, subscribeInternalReturns
  PROVE  /\ stack # <<>> /\ Top \in SubscriptionFrame /\ Top.op = "subscribing"
         /\ SubscriptionOf(Top.entity, Top.system)
         /\ ~Lists(Top.entity, Top.system) /\ shouldProcessEntity(Top.system, Top.entity)
         /\ subscribed' = [subscribed EXCEPT ![Top.system] = @ \cup {Top.entity.slot}]
         /\ ListBecomes(ManagerOf[Top.system], Top.entity,
                        Append(SystemsOf(Top.entity, ManagerOf[Top.system]), Top.system))
         /\ stack' = Below
         /\ UNCHANGED <<entityVars, components, deferred>>
<1> DEFINE e == Top.entity
           s == Top.system
<1>1. /\ stack # <<>> /\ Top \in SubscriptionFrame /\ Top.op = "subscribing" /\ FrameHolds(Top)
      /\ ManagerTypeOK
  BY TopRuns, FrameIs DEF subscribeInternalReturns, Hooks, ManagerInv
<1>2. e \in Handle /\ s \in Systems
  BY <1>1 DEF SubscriptionFrame
<1>3. e \in LiveHandles /\ ~Lists(e, s) /\ shouldProcessEntity(s, e)
  BY <1>1 DEF FrameHolds
<1>4. ManagerOf[s] \in Managers
  BY <1>2, OwnerManager
<1>5. /\ subscribed' = [subscribed EXCEPT ![s] = @ \cup {e.slot}]
      /\ entitySystems' = [entitySystems EXCEPT ![ManagerOf[s]][e] = Append(@, s)]
      /\ stack' = Below
      /\ UNCHANGED <<entityVars, components, deferred>>
  BY DEF subscribeInternalReturns
<1>6. Append(SystemsOf(e, ManagerOf[s]), s) \in Seq(Systems)
  BY <1>1, <1>2, <1>4, ListsType, AppendProperties
<1>7. entitySystems' = [entitySystems EXCEPT
                          ![ManagerOf[s]][e] = Append(SystemsOf(e, ManagerOf[s]), s)]
  BY <1>5 DEF SystemsOf
<1>8. ListBecomes(ManagerOf[s], e, Append(SystemsOf(e, ManagerOf[s]), s))
  BY <1>1, <1>2, <1>4, <1>6, <1>7, ListSet
<1>9. QED
  BY <1>1, <1>2, <1>3, <1>4, <1>5, <1>8 DEF SubscriptionOf

(* A system leaves the list of an entity in both ways it can. *)
Leaves(e, s, i) ==
  /\ SubscriptionOf(e, s)
  /\ i \in 1 .. Len(SystemsOf(e, ManagerOf[s]))
  /\ SystemsOf(e, ManagerOf[s])[i] = s
  /\ subscribed' = [subscribed EXCEPT ![s] = @ \ {e.slot}]
  /\ ListBecomes(ManagerOf[s], e, RemoveAt(SystemsOf(e, ManagerOf[s]), i))
  /\ UNCHANGED <<entityVars, components, deferred>>

LEMMA Unsubscribes ==
  ASSUME ManagerInv, unsubscribeReturns
  PROVE  /\ stack # <<>> /\ Top \in SubscriptionFrame /\ Top.op = "unsubscribing"
         /\ \E i \in Nat : Leaves(Top.entity, Top.system, i)
         /\ stack' = Below
<1> DEFINE e == Top.entity
           s == Top.system
           list == SystemsOf(e, ManagerOf[s])
<1>1. /\ stack # <<>> /\ Top \in SubscriptionFrame /\ Top.op = "unsubscribing" /\ FrameHolds(Top)
      /\ ManagerTypeOK /\ SubscriptionsMirrored
  BY TopRuns, FrameIs DEF unsubscribeReturns, Hooks, ManagerInv
<1>2. e \in Handle /\ s \in Systems
  BY <1>1 DEF SubscriptionFrame
<1>3. e \in LiveHandles /\ Lists(e, s)
  BY <1>1 DEF FrameHolds
<1>4. ManagerOf[s] \in Managers
  BY <1>2, OwnerManager
<1>5. list \in Seq(Systems) /\ IsInjective(list) /\ Len(list) \in Nat
  BY <1>1, <1>2, <1>4, ListsType DEF SubscriptionsMirrored
<1>6. PICK i \in 1 .. Len(list) : list[i] = s
  BY <1>3 DEF Lists, Contains
<1>7. /\ subscribed' = [subscribed EXCEPT ![s] = @ \ {e.slot}]
      /\ entitySystems' = [entitySystems EXCEPT ![ManagerOf[s]][e] = RemoveFirst(@, s)]
      /\ stack' = Below
      /\ UNCHANGED <<entityVars, components, deferred>>
  BY DEF unsubscribeReturns
<1>8. RemoveFirst(list, s) = RemoveAt(list, i)
  BY <1>5, <1>6, RemovedFirst
<1>9. RemoveAt(list, i) \in Seq(Systems)
  BY <1>5, <1>6, Removed
<1>10. entitySystems' = [entitySystems EXCEPT ![ManagerOf[s]][e] = RemoveAt(list, i)]
  BY <1>7, <1>8 DEF SystemsOf
<1>11. ListBecomes(ManagerOf[s], e, RemoveAt(list, i))
  BY <1>1, <1>2, <1>4, <1>9, <1>10, ListSet
<1>12. Leaves(e, s, i)
  BY <1>2, <1>3, <1>4, <1>6, <1>7, <1>11 DEF Leaves, SubscriptionOf
<1>13. QED
  BY <1>1, <1>5, <1>6, <1>7, <1>12

LEMMA Erases ==
  ASSUME ManagerInv, checkUnsubscribes
  PROVE  /\ Leaves(Top.entity, SystemsOf(Top.entity, Top.manager)[Top.at], Top.at)
         /\ ManagerOf[SystemsOf(Top.entity, Top.manager)[Top.at]] = Top.manager
<1> DEFINE e == Top.entity
           m == Top.manager
           i == Top.at
           list == SystemsOf(e, m)
           s == list[i]
<1>1. /\ m \in Managers /\ i \in 1 .. Len(list) /\ e \in LiveHandles
      /\ UNCHANGED <<entityVars, components>> /\ ManagerTypeOK
  BY ChecksErase DEF ManagerInv
<1>2. e \in Handle
  BY <1>1, LiveIs
<1>3. list \in Seq(Systems) /\ s \in Systems
  BY <1>1, <1>2, ListsType
<1>4. ManagerOf[s] = m
  BY <1>1, <1>2 DEF ManagerInv, ListsOwn
<1>5. /\ subscribed' = [subscribed EXCEPT ![s] = @ \ {e.slot}]
      /\ entitySystems' = [entitySystems EXCEPT ![m][e] = RemoveAt(@, i)]
      /\ UNCHANGED deferred
  BY DEF checkUnsubscribes
<1>6. entitySystems' = [entitySystems EXCEPT ![m][e] = RemoveAt(list, i)]
  BY <1>5 DEF SystemsOf
<1>7. RemoveAt(list, i) \in Seq(Systems)
  BY <1>1, <1>3, Removed
<1>8. ListBecomes(m, e, RemoveAt(list, i))
  BY <1>1, <1>2, <1>6, <1>7, ListSet
<1>9. QED
  BY <1>1, <1>2, <1>3, <1>4, <1>5, <1>8 DEF Leaves, SubscriptionOf

LEMMA ListsJoin ==
  ASSUME ManagerTypeOK, NEW e \in Handle, NEW s \in Systems, ManagerOf[s] \in Managers,
         ListBecomes(ManagerOf[s], e, Append(SystemsOf(e, ManagerOf[s]), s)),
         NEW h \in Handle, NEW r \in Systems
  PROVE  Lists(h, r)' <=> Lists(h, r) \/ (h = e /\ r = s)
<1> DEFINE old == SystemsOf(h, ManagerOf[r])
           list == SystemsOf(e, ManagerOf[s])
<1>1. ManagerOf[r] \in Managers
  BY OwnerManager
<1>2. SystemsOf(h, ManagerOf[r])' = IF ManagerOf[r] = ManagerOf[s] /\ h = e
                                     THEN Append(list, s) ELSE old
  BY <1>1 DEF ListBecomes, SystemsOf
<1>3. list \in Seq(Systems) /\ old \in Seq(Systems)
  BY <1>1, ListsType
<1>4. /\ Len(list) \in Nat /\ Len(Append(list, s)) = Len(list) + 1
      /\ \A i \in 1 .. Len(list) : Append(list, s)[i] = list[i]
      /\ Append(list, s)[Len(list) + 1] = s
  BY <1>3, Pushed
<1>5. /\ \A i \in 1 .. Len(list) + 1 : i \in 1 .. Len(list) \/ i = Len(list) + 1
      /\ \A i \in 1 .. Len(list) : i \in 1 .. Len(list) + 1
      /\ Len(list) + 1 \in 1 .. Len(list) + 1
  BY <1>4
<1>6. Contains(Append(list, s), r) <=> Contains(list, r) \/ r = s
  BY <1>4, <1>5 DEF Contains
<1> HIDE DEF list, old
<1>7. CASE ManagerOf[r] = ManagerOf[s] /\ h = e
  BY <1>2, <1>6, <1>7 DEF Lists, list, old
<1>8. CASE ~(ManagerOf[r] = ManagerOf[s] /\ h = e)
  BY <1>2, <1>8 DEF Lists, list, old
<1>9. QED
  BY <1>7, <1>8

LEMMA ListsLeave ==
  ASSUME ManagerInv, NEW e, NEW s, NEW i, Leaves(e, s, i),
         NEW h \in Handle, NEW r \in Systems
  PROVE  Lists(h, r)' <=> Lists(h, r) /\ ~(h = e /\ r = s)
<1> DEFINE old == SystemsOf(h, ManagerOf[r])
           list == SystemsOf(e, ManagerOf[s])
           new == RemoveAt(list, i)
<1>1. ManagerOf[r] \in Managers /\ ManagerTypeOK /\ e \in Handle /\ s \in Systems
      /\ ManagerOf[s] \in Managers
  BY OwnerManager DEF ManagerInv, Leaves, SubscriptionOf
<1>2. SystemsOf(h, ManagerOf[r])' = IF ManagerOf[r] = ManagerOf[s] /\ h = e THEN new ELSE old
  BY <1>1 DEF Leaves, ListBecomes, SystemsOf
<1>3. /\ list \in Seq(Systems) /\ IsInjective(list) /\ Len(list) \in Nat
      /\ DOMAIN list = 1 .. Len(list) /\ i \in 1 .. Len(list) /\ list[i] = s
  BY <1>1, ListsType DEF ManagerInv, SubscriptionsMirrored, Leaves
<1>4. /\ Len(new) = Len(list) - 1
      /\ \A j \in 1 .. Len(list) - 1 : new[j] = IF j < i THEN list[j] ELSE list[j + 1]
  BY <1>3, Removed
<1> HIDE DEF list, old, new
<1>5. \A j, k \in 1 .. Len(list) : list[j] = list[k] => j = k
  BY <1>3 DEF IsInjective
<1>6. Contains(new, r) <=> Contains(list, r) /\ r # s
  <2>1. ASSUME NEW j \in 1 .. Len(new), new[j] = r
        PROVE  r # s /\ \E k \in 1 .. Len(list) : list[k] = r
    <3>1. CASE j < i
      <4>1. j \in 1 .. Len(list) /\ j # i /\ new[j] = list[j]
        BY <1>3, <1>4, <2>1, <3>1
      <4>2. QED
        BY <1>3, <1>5, <2>1, <4>1
    <3>2. CASE ~(j < i)
      <4>1. j + 1 \in 1 .. Len(list) /\ j + 1 # i /\ new[j] = list[j + 1]
        BY <1>3, <1>4, <2>1, <3>2
      <4>2. QED
        BY <1>3, <1>5, <2>1, <4>1
    <3>3. QED
      BY <3>1, <3>2
  <2>2. ASSUME NEW k \in 1 .. Len(list), list[k] = r, r # s
        PROVE  \E j \in 1 .. Len(new) : new[j] = r
    <3>1. k # i
      BY <1>3, <2>2
    <3>2. CASE k < i
      <4>1. k \in 1 .. Len(new) /\ new[k] = list[k]
        BY <1>3, <1>4, <2>2, <3>2
      <4>2. QED
        BY <2>2, <4>1
    <3>3. CASE ~(k < i)
      <4>1. k - 1 \in 1 .. Len(new) /\ ~(k - 1 < i) /\ k - 1 + 1 = k
        BY <1>3, <1>4, <2>2, <3>1, <3>3
      <4>2. new[k - 1] = list[k]
        BY <1>4, <4>1
      <4>3. QED
        BY <2>2, <4>1, <4>2
    <3>4. QED
      BY <3>2, <3>3
  <2>3. QED
    BY <2>1, <2>2 DEF Contains
<1>7. CASE ManagerOf[r] = ManagerOf[s] /\ h = e
  BY <1>2, <1>6, <1>7 DEF Lists, list, old
<1>8. CASE ~(ManagerOf[r] = ManagerOf[s] /\ h = e)
  BY <1>2, <1>8 DEF Lists, list, old
<1>9. QED
  BY <1>7, <1>8

LEMMA ManagerTypesNext ==
  ASSUME ManagerInv, HookScope = "others", [ManagerNext]_vars
  PROVE  ManagerTypeOK' /\ EntityInv'
<1>1. ManagerTypeOK /\ EntityInv
  BY DEF ManagerInv
<1>2. EntityInv'
  BY <1>1, EntityStep, NextEntityInv
<1>3. stack' \in Seq(Frame)
  BY StackNext DEF StackHolds
<1>4. components' \in [Components -> [Slot -> Handle \cup {NoOwner}]]
  <2>1. components \in [Components -> [Slot -> Handle \cup {NoOwner}]]
    BY <1>1 DEF ManagerTypeOK
  <2>2. \/ UNCHANGED components
        \/ \E e \in LiveHandles, c \in Components :
             components' = [components EXCEPT ![c][e.slot] = e]
        \/ removeReturns
    BY Steps DEF Calls, Adds, Begins, BeginsRemoval, WorldUnchanged, CreateCall, managerVars,
       subscribeInternalReturns,
       unsubscribeReturns, checkNextManager, checkFindsUnfit, checkUnsubscribes,
       checkManagerDone, checkReturns, destroyNextManager, destroyUnsubscribes,
       destroyLeftSystems, removeEntityCallback, destroyFreesSlot
  <2>3. \A e \in LiveHandles : e \in Handle
    BY <1>1, LiveIs
  <2>4. removeReturns =>
          \E c \in Components, slot \in Slot :
            components' = [components EXCEPT ![c][slot] = NoOwner]
    <3>1. SUFFICES ASSUME removeReturns
          PROVE  Top.component \in Components /\ Top.entity.slot \in Slot
      BY DEF removeReturns
    <3>2. Top \in RemovalFrame
      BY <3>1, TopRuns, FrameIs DEF removeReturns
    <3>3. QED
      BY <3>2 DEF RemovalFrame, Handle
  <2>5. \A f \in [Components -> [Slot -> Handle \cup {NoOwner}]], c \in Components,
           slot \in Slot, x \in Handle \cup {NoOwner} :
          [f EXCEPT ![c][slot] = x] \in [Components -> [Slot -> Handle \cup {NoOwner}]]
    OBVIOUS
  <2>6. ASSUME NEW e \in LiveHandles, NEW c \in Components,
               components' = [components EXCEPT ![c][e.slot] = e]
        PROVE  components' \in [Components -> [Slot -> Handle \cup {NoOwner}]]
    <3>1. e.slot \in Slot
      BY <1>1, LiveIs
    <3>2. QED
      BY <2>1, <2>3, <2>5, <2>6, <3>1
  <2>7. ASSUME NEW slot \in Slot, NEW c \in Components,
               components' = [components EXCEPT ![c][slot] = NoOwner]
        PROVE  components' \in [Components -> [Slot -> Handle \cup {NoOwner}]]
    BY <2>1, <2>5, <2>7
  <2>8. QED
    BY <2>1, <2>2, <2>4, <2>6, <2>7
<1>5. \/ UNCHANGED <<subscribed, entitySystems>>
      \/ subscribeInternalReturns \/ unsubscribeReturns \/ checkUnsubscribes
  BY Steps DEF Calls, Adds, Begins, BeginsRemoval, WorldUnchanged, CreateCall, managerVars,
     checkNextManager, checkFindsUnfit, checkManagerDone, checkReturns, removeReturns,
     destroyNextManager, destroyUnsubscribes, destroyLeftSystems, removeEntityCallback,
     destroyFreesSlot
<1>6. entitySystems' \in [Managers -> [Handle -> Seq(Systems)]]
  BY <1>1, <1>5, Subscribes, Unsubscribes, Erases DEF ListBecomes, Leaves, ManagerTypeOK
<1>7. subscribed' \in [Systems -> SUBSET Slot]
  <2>1. subscribed \in [Systems -> SUBSET Slot]
    BY <1>1 DEF ManagerTypeOK
  <2>2. \/ UNCHANGED subscribed
        \/ \E e \in LiveHandles, s \in Systems :
             \/ subscribed' = [subscribed EXCEPT ![s] = @ \cup {e.slot}]
             \/ subscribed' = [subscribed EXCEPT ![s] = @ \ {e.slot}]
    BY <1>5, Subscribes, Unsubscribes, Erases DEF Leaves, SubscriptionOf
  <2>3. \A e \in LiveHandles : e.slot \in Slot
    BY <1>1, LiveIs
  <2>4. QED
    BY <2>1, <2>2, <2>3
<1>8. deferred' \in [Managers -> Seq(Command)]
  <2>1. deferred \in [Managers -> Seq(Command)]
    BY <1>1 DEF ManagerTypeOK
  <2>2. \/ UNCHANGED deferred
        \/ \E m \in Managers, command \in Commands : DeferredCall(m, command)
        \/ \E m \in Managers : deferred' = [deferred EXCEPT ![m] = <<>>]
    BY DEF ManagerNext, vars, CreateCall, managerVars, ImmediateCall, Perform,
       addComponentImmediate, removeComponentImmediate, subscribeEntityImmediate,
       unsubscribeEntityImmediate, destroyEntityImmediate, subscribeInternalReturns,
       unsubscribeReturns, checkNextManager, checkFindsUnfit, checkUnsubscribes,
       checkManagerDone, checkReturns, removeReturns, destroyNextManager, destroyUnsubscribes,
       destroyLeftSystems, removeEntityCallback, destroyFreesSlot, flushDeferred, flushExecutes,
       flushReturns
  <2>3. ASSUME NEW m \in Managers, NEW command \in Commands, DeferredCall(m, command)
        PROVE  deferred' \in [Managers -> Seq(Command)]
    <3>1. isActive(command.entity) /\ deferred' = [deferred EXCEPT ![m] = Append(@, command)]
      BY <2>3 DEF DeferredCall
    <3>2. command.entity \in AnyHandle
      BY DEF Commands
    <3>3. command.entity \in Handle
      BY <1>1, <3>1, <3>2, ActiveCall, LiveIs
    <3>4. command \in Command
      BY <3>3 DEF Commands, Command, Destroys, ComponentCommands, SystemCommands
    <3>5. Append(deferred[m], command) \in Seq(Command)
      BY <2>1, <3>4, AppendProperties
    <3>6. QED
      BY <2>1, <3>1, <3>5
  <2>4. ASSUME NEW m \in Managers, deferred' = [deferred EXCEPT ![m] = <<>>]
        PROVE  deferred' \in [Managers -> Seq(Command)]
    BY <2>1, <2>4
  <2>5. QED
    BY <2>1, <2>2, <2>3, <2>4
<1>9. QED
  BY <1>2, <1>3, <1>4, <1>6, <1>7, <1>8 DEF ManagerTypeOK, EntityInv

-----------------------------------------------------------------------------
(* The steps, by what they do to the entities, components and subscriptions. *)

Created(slot) ==
  /\ slot \in Slot /\ slot \notin aliveSlots
  /\ HandleOf(slot) \notin issued
  /\ aliveSlots' = aliveSlots \cup {slot} /\ generations' = generations
  /\ issued' = issued \cup {HandleOf(slot)}
  /\ UNCHANGED <<components, subscribed, entitySystems, stack>>

Freed(e) ==
  /\ e \in LiveHandles /\ e \in AnyHandle
  /\ Running("clearing") /\ Top.entity = e /\ Top.storages = {}
  /\ destroyEntity(e)
  /\ stack' = Below
  /\ UNCHANGED <<components, subscribed, entitySystems>>

Added(e, c) ==
  /\ e \in LiveHandles /\ c \in Components
  /\ ~Working(e, {"clearing"})
  /\ SameFrames(stack, stack')
  /\ components' = [components EXCEPT ![c][e.slot] = e]
  /\ UNCHANGED <<entityVars, subscribed, entitySystems>>

Emptied(e, c) ==
  /\ e \in LiveHandles /\ c \in Components
  /\ Running("removing") /\ Top.entity = e /\ Top.component = c
  /\ stack' = Below
  /\ components' = [components EXCEPT ![c][e.slot] = NoOwner]
  /\ UNCHANGED <<entityVars, subscribed, entitySystems>>

Joined(e, s) ==
  /\ SubscriptionOf(e, s)
  /\ Running("subscribing") /\ Top.entity = e /\ Top.system = s
  /\ ~Lists(e, s) /\ shouldProcessEntity(s, e)
  /\ subscribed' = [subscribed EXCEPT ![s] = @ \cup {e.slot}]
  /\ ListBecomes(ManagerOf[s], e, Append(SystemsOf(e, ManagerOf[s]), s))
  /\ stack' = Below
  /\ UNCHANGED <<entityVars, components>>

(* The hook of an unsubscription of its own, or of a walk. *)
Left(e, s) ==
  \/ /\ Running("unsubscribing") /\ Top.entity = e /\ Top.system = s
     /\ \E i \in Nat : Leaves(e, s, i)
     /\ stack' = Below
  \/ /\ Running("checking") /\ Top.entity = e
     /\ Leaves(e, s, Top.at)
     /\ Top.manager = ManagerOf[s]
     /\ \E g \in CheckFrame :
          /\ g.entity = Top.entity /\ g.managers = Top.managers /\ g.manager = Top.manager
          /\ g.at = Top.at /\ ~g.inHook
          /\ stack' = Append(Below, g)

LEMMA CallCreates == ASSUME ManagerInv, CreateCall PROVE \E slot \in Slot : Created(slot)
<1>1. createEntity /\ UNCHANGED <<components, subscribed, entitySystems, stack>>
  BY DEF CreateCall, managerVars
<1>2. PICK slot \in Slot :
        /\ slot \notin aliveSlots
        /\ aliveSlots' = aliveSlots \cup {slot} /\ generations' = generations
        /\ issued' = issued \cup {HandleOf(slot)}
        /\ HandleOf(slot) \notin issued
  BY <1>1, CreatesFresh DEF ManagerInv
<1>3. QED
  BY <1>1, <1>2 DEF Created

LEMMA WorldSteps ==
  ASSUME ManagerInv, HookScope = "others", [ManagerNext]_vars
  PROVE  \/ WorldUnchanged
         \/ \E slot \in Slot : Created(slot)
         \/ \E e \in LiveHandles : Freed(e)
         \/ \E e \in LiveHandles, c \in Components : Added(e, c) \/ Emptied(e, c)
         \/ \E e \in LiveHandles, s \in Systems : Joined(e, s) \/ Left(e, s)
<1>1. CASE CreateCall
  BY <1>1, CallCreates
<1>2. ASSUME NEW e \in LiveHandles, NEW c \in Components, NEW rest,
             SameFrames(stack, rest), Adds(e, c, rest)
      PROVE  Added(e, c)
  BY <1>2 DEF Adds, Added
<1>3. ASSUME NEW rest, SameFrames(stack, rest), Calls(rest)
      PROVE  WorldUnchanged \/ \E e \in LiveHandles, c \in Components : Added(e, c)
  BY <1>2, <1>3 DEF Calls, Begins, BeginsRemoval
<1>4. CASE subscribeInternalReturns
  <2>1. Joined(Top.entity, Top.system)
    BY <1>4, Subscribes DEF Joined, subscribeInternalReturns
  <2>2. QED
    BY <2>1 DEF Joined, SubscriptionOf
<1>5. CASE unsubscribeReturns
  <2>1. Left(Top.entity, Top.system) /\ \E i \in Nat : Leaves(Top.entity, Top.system, i)
    BY <1>5, Unsubscribes DEF Left, unsubscribeReturns
  <2>2. QED
    BY <2>1 DEF Leaves, SubscriptionOf
<1>6. CASE checkUnsubscribes
  <2> DEFINE s == SystemsOf(Top.entity, Top.manager)[Top.at]
  <2>1. Left(Top.entity, s) /\ Leaves(Top.entity, s, Top.at)
    BY <1>6, Erases, ChecksErase DEF Left, checkUnsubscribes
  <2>2. QED
    BY <2>1 DEF Leaves, SubscriptionOf
<1>7. CASE removeReturns
  <2>1. /\ stack # <<>> /\ Top.op = "removing" /\ FrameHolds(Top) /\ Top \in RemovalFrame
    BY <1>7, TopRuns, FrameIs DEF removeReturns
  <2>2. Top.entity \in LiveHandles /\ Top.component \in Components
    BY <2>1 DEF FrameHolds, RemovalFrame
  <2>3. Emptied(Top.entity, Top.component)
    BY <1>7, <2>2 DEF Emptied, removeReturns
  <2>4. QED
    BY <2>2, <2>3
<1>8. CASE destroyFreesSlot
  <2>1. Top.entity \in LiveHandles /\ destroyEntity(Top.entity)
    BY <1>8, TopRuns DEF destroyFreesSlot, FrameHolds
  <2>2. Top.entity \in AnyHandle
    BY <2>1 DEF ManagerInv, EntityInv, IssuedHandlesDated, AnyHandle
  <2>3. Freed(Top.entity)
    BY <1>8, <2>1, <2>2 DEF Freed, destroyFreesSlot
  <2>4. QED
    BY <2>1, <2>3
<1>9. CASE checkNextManager \/ checkFindsUnfit \/ checkManagerDone \/ checkReturns
             \/ destroyNextManager \/ destroyUnsubscribes \/ destroyLeftSystems
             \/ removeEntityCallback
  BY <1>9 DEF checkNextManager, checkFindsUnfit, checkManagerDone, checkReturns,
     destroyNextManager, destroyUnsubscribes, destroyLeftSystems, removeEntityCallback,
     WorldUnchanged
<1>10. QED
  BY <1>1, <1>3, <1>4, <1>5, <1>6, <1>7, <1>8, <1>9, Steps

LEMMA Lives ==
  ASSUME ManagerInv, HookScope = "others", [ManagerNext]_vars
  PROVE  /\ \A slot \in Slot : Created(slot) =>
              /\ HandleOf(slot) \in Handle /\ HandleOf(slot) \notin LiveHandles
              /\ LiveHandles' = LiveHandles \cup {HandleOf(slot)}
         /\ \A e \in LiveHandles : Freed(e) => LiveHandles' = LiveHandles \ {e}
         /\ WorldUnchanged => LiveHandles' = LiveHandles
         /\ \A e \in LiveHandles, c \in Components :
              Added(e, c) \/ Emptied(e, c) => LiveHandles' = LiveHandles
         /\ \A e \in LiveHandles, s \in Systems :
              Joined(e, s) \/ Left(e, s) => LiveHandles' = LiveHandles
<1>1. ManagerTypeOK /\ EntityInv
  BY DEF ManagerInv
<1>2. UNCHANGED entityVars => LiveHandles' = LiveHandles
  BY DEF entityVars, LiveHandles, HandleOf
<1>3. ASSUME NEW slot \in Slot, Created(slot)
      PROVE  /\ HandleOf(slot) \in Handle /\ HandleOf(slot) \notin LiveHandles
             /\ LiveHandles' = LiveHandles \cup {HandleOf(slot)}
  <2>1. HandleOf(slot) \in Handle
    BY <1>1, EntityBounds DEF EntityInv, EntityTypeOK, HandleOf, Handle, Generation
  <2>2. QED
    BY <1>3, <2>1 DEF Created, LiveHandles, HandleOf
<1>4. ASSUME NEW e \in LiveHandles, Freed(e) PROVE LiveHandles' = LiveHandles \ {e}
  BY <1>1, <1>4, LiveIs, DestroyLiveHandles DEF Freed
<1>5. QED
  BY <1>2, <1>3, <1>4 DEF WorldUnchanged, Added, Emptied, Joined, Left, Leaves

(* An entity loses a component only in the destructor of the component, and *)
(* its life only in a destroy of itself.                                      *)
LEMMA KeepsComponents ==
  ASSUME ManagerInv, HookScope = "others", [ManagerNext]_vars,
         NEW h \in LiveHandles, ~Freed(h)
  PROVE  /\ h \in LiveHandles'
         /\ isActive(h)'
         /\ \A c \in Components : ~Emptied(h, c) => (hasComponent(h, c) => hasComponent(h, c)')
<1>1. /\ ManagerTypeOK /\ EntityInv
      /\ h \in Handle /\ h.slot \in aliveSlots /\ h.slot \in Slot /\ isActive(h)
      /\ components \in [Components -> [Slot -> Handle \cup {NoOwner}]]
  BY LiveIs DEF ManagerInv, ManagerTypeOK
<1>2. h \in LiveHandles'
  BY Lives, WorldSteps
<1>3. PICK slot \in aliveSlots' : h = HandleOf(slot)'
  BY <1>2 DEF LiveHandles
<1>4. isActive(h)'
  BY <1>3 DEF HandleOf, isActive
<1>5. ASSUME NEW c \in Components, ~Emptied(h, c), hasComponent(h, c)
      PROVE  hasComponent(h, c)'
  <2>1. components[c][h.slot] # NoOwner
    BY <1>5 DEF hasComponent
  <2>2. components'[c][h.slot] # NoOwner
    <3>1. ASSUME NEW e \in LiveHandles, NEW d \in Components, Added(e, d)
          PROVE  components'[c][h.slot] # NoOwner
      <4>1. e.slot \in Slot /\ e # NoOwner
        BY <1>1, LiveIs, ManagerAssumptions
      <4>2. QED
        BY <1>1, <2>1, <3>1, <4>1 DEF Added
    <3>2. ASSUME NEW e \in LiveHandles, NEW d \in Components, Emptied(e, d)
          PROVE  components'[c][h.slot] # NoOwner
      <4>1. e.slot \in Slot
        BY <1>1, LiveIs
      <4>2. e # h \/ c # d
        BY <1>5, <3>2
      <4>3. e.slot # h.slot \/ c # d
        BY <1>1, <4>2, LiveOfSlot
      <4>4. QED
        BY <1>1, <2>1, <3>2, <4>1, <4>3 DEF Emptied
    <3>3. UNCHANGED components => components'[c][h.slot] # NoOwner
      BY <2>1
    <3>4. QED
      BY <3>1, <3>2, <3>3, WorldSteps
      DEF WorldUnchanged, Created, Freed, Joined, Left, Leaves
  <2>3. QED
    BY <1>4, <2>2 DEF hasComponent
<1>6. QED
  BY <1>2, <1>4, <1>5

LEMMA KeepsFit ==
  ASSUME ManagerInv, HookScope = "others", [ManagerNext]_vars,
         NEW h \in LiveHandles, ~Freed(h), \A c \in Components : ~Emptied(h, c),
         NEW s \in Systems, shouldProcessEntity(s, h)
  PROVE  shouldProcessEntity(s, h)'
<1>1. \A c \in Requires[s] : c \in Components
  BY ManagerAssumptions
<1>2. QED
  BY <1>1, KeepsComponents DEF shouldProcessEntity

(* The systems of an entity change only by its own hooks. *)
LEMMA KeepsLists ==
  ASSUME ManagerInv, HookScope = "others", [ManagerNext]_vars,
         NEW h \in Handle, NEW m \in Managers,
         \A s \in Systems : ManagerOf[s] = m => ~Joined(h, s) /\ ~Left(h, s)
  PROVE  SystemsOf(h, m)' = SystemsOf(h, m)
<1>1. ASSUME NEW e \in LiveHandles, NEW s \in Systems, Joined(e, s) \/ Left(e, s)
      PROVE  SystemsOf(h, m)' = SystemsOf(h, m)
  <2>1. e # h \/ ManagerOf[s] # m
    BY <1>1
  <2>2. PICK list : ListBecomes(ManagerOf[s], e, list)
    BY <1>1 DEF Joined, Left, Leaves
  <2>3. QED
    BY <2>1, <2>2 DEF ListBecomes, SystemsOf
<1>2. UNCHANGED entitySystems => SystemsOf(h, m)' = SystemsOf(h, m)
  BY DEF SystemsOf
<1>3. QED
  BY <1>1, <1>2, WorldSteps DEF WorldUnchanged, Created, Freed, Added, Emptied

LEMMA JoinsLists ==
  ASSUME ManagerInv, NEW e, NEW s, Joined(e, s), NEW h \in Handle, NEW r \in Systems
  PROVE  Lists(h, r)' <=> Lists(h, r) \/ (h = e /\ r = s)
BY ListsJoin DEF Joined, SubscriptionOf, ManagerInv

LEMMA LeavesLists ==
  ASSUME ManagerInv, NEW e, NEW s, Left(e, s), NEW h \in Handle, NEW r \in Systems
  PROVE  Lists(h, r)' <=> Lists(h, r) /\ ~(h = e /\ r = s)
<1>1. PICK i : Leaves(e, s, i)
  BY DEF Left
<1>2. QED
  BY <1>1, ListsLeave

LEMMA ListsChange ==
  ASSUME ManagerInv, HookScope = "others", [ManagerNext]_vars,
         NEW h \in Handle, NEW r \in Systems
  PROVE  /\ Lists(h, r)' => Lists(h, r) \/ Joined(h, r)
         /\ Lists(h, r) => Lists(h, r)' \/ Left(h, r)
<1>1. ASSUME NEW e \in LiveHandles, NEW s \in Systems, Joined(e, s)
      PROVE  /\ Lists(h, r)' => Lists(h, r) \/ Joined(h, r)
             /\ Lists(h, r) => Lists(h, r)'
  BY <1>1, JoinsLists
<1>2. ASSUME NEW e \in LiveHandles, NEW s \in Systems, Left(e, s)
      PROVE  /\ Lists(h, r)' => Lists(h, r)
             /\ Lists(h, r) => Lists(h, r)' \/ Left(h, r)
  BY <1>2, LeavesLists
<1>3. UNCHANGED entitySystems => (Lists(h, r)' <=> Lists(h, r))
  BY DEF Lists, SystemsOf
<1>4. QED
  BY <1>1, <1>2, <1>3, WorldSteps DEF WorldUnchanged, Created, Freed, Added, Emptied

-----------------------------------------------------------------------------
(* Operations keep what they rely on while others run inside them. *)

(* The step takes nothing away that the operation relies on. *)
Spares(f) ==
  f.op # "flushing" =>
    /\ ~Freed(f.entity)
    /\ f.op = "subscribing" => \A c \in Components : ~Emptied(f.entity, c)
    /\ f.op \in Hooks => ~Joined(f.entity, f.system) /\ ~Left(f.entity, f.system)
    /\ f.op = "checking" =>
         \/ f.manager = NoManager
         \/ \A s \in Systems : ~Joined(f.entity, s) /\ ~Left(f.entity, s)
    /\ f.op = "clearing" => \A s \in Systems : ~Joined(f.entity, s)

LEMMA FrameSpared ==
  ASSUME ManagerInv, HookScope = "others", [ManagerNext]_vars,
         NEW f \in Frame, FrameHolds(f), Spares(f)
  PROVE  FrameHolds(f)'
<1> DEFINE e == f.entity
<1>1. SUFFICES ASSUME f.op # "flushing"
      PROVE  /\ (e \in LiveHandles)'
             /\ f.op = "subscribing" =>
                  ~Lists(e, f.system)' /\ shouldProcessEntity(f.system, e)'
             /\ f.op = "unsubscribing" => Lists(e, f.system)'
             /\ f.op = "checking" =>
                  /\ f.at # 0
                  /\ f.inHook => /\ f.manager # NoManager
                                 /\ f.at \in 1 .. Len(SystemsOf(e, f.manager)')
             /\ f.op = "clearing" => \A s \in Systems : ~Lists(e, s)'
  BY DEF FrameHolds
<1>2. e \in Handle /\ e \in LiveHandles /\ ~Freed(e)
  BY <1>1, FrameIs DEF FrameHolds, Spares
<1>3. e \in LiveHandles'
  BY <1>2, KeepsComponents
<1>4. ASSUME f.op \in Hooks
      PROVE  f.system \in Systems /\ (Lists(e, f.system)' <=> Lists(e, f.system))
  <2>1. f.system \in Systems
    BY <1>4, FrameIs DEF SubscriptionFrame
  <2>2. QED
    BY <1>1, <1>2, <1>4, <2>1, ListsChange DEF Spares
<1>5. ASSUME f.op = "subscribing"
      PROVE  ~Lists(e, f.system)' /\ shouldProcessEntity(f.system, e)'
  BY <1>1, <1>2, <1>4, <1>5, KeepsFit DEF Spares, Hooks, FrameHolds
<1>6. ASSUME f.op = "unsubscribing" PROVE Lists(e, f.system)'
  BY <1>1, <1>4, <1>6 DEF Hooks, FrameHolds
<1>7. ASSUME f.op = "checking", f.inHook
      PROVE  f.at \in 1 .. Len(SystemsOf(e, f.manager)')
  <2>1. f \in CheckFrame /\ f.manager # NoManager /\ f.at \in 1 .. Len(SystemsOf(e, f.manager))
    BY <1>1, <1>7, FrameIs DEF FrameHolds
  <2>2. f.manager \in Managers
    BY <2>1 DEF CheckFrame
  <2>3. \A s \in Systems : ~Joined(e, s) /\ ~Left(e, s)
    BY <1>1, <1>7, <2>1 DEF Spares
  <2>4. SystemsOf(e, f.manager)' = SystemsOf(e, f.manager)
    BY <1>2, <2>2, <2>3, KeepsLists
  <2>5. QED
    BY <2>1, <2>4
<1>8. ASSUME f.op = "clearing", NEW s \in Systems PROVE ~Lists(e, s)'
  BY <1>1, <1>2, <1>8, ListsChange DEF Spares, FrameHolds
<1>9. f.op = "checking" => f.at # 0 /\ (f.inHook => f.manager # NoManager)
  BY <1>1 DEF FrameHolds
<1>10. QED
  BY <1>3, <1>5, <1>6, <1>7, <1>8, <1>9

LEMMA FrameSame ==
  ASSUME NEW f, FrameHolds(f), WorldUnchanged
  PROVE  FrameHolds(f)'
BY DEF FrameHolds, WorldUnchanged, entityVars, LiveHandles, HandleOf, Lists, SystemsOf,
   shouldProcessEntity, hasComponent, isActive

(* Every operation but the innermost spares the ones it was called in. *)
LEMMA InsideSpares ==
  ASSUME ManagerInv, NEW i \in 1 .. Len(stack), i < Len(stack)
  PROVE  Spares(stack[i])
<1> DEFINE f == stack[i]
<1>1. SUFFICES ASSUME f.op # "flushing" PROVE Spares(f)
  BY DEF Spares
<1>2. /\ stack # <<>> /\ Len(stack) \in 1 .. Len(stack) /\ Top = stack[Len(stack)]
      /\ Len(stack) \in Nat
  BY EachFrame, StackTop DEF ManagerInv
<1>3. MayEnclose(f, Top) /\ f \in Frame
  BY <1>2, EachFrame DEF ManagerInv, Nested
<1>4. ~Freed(f.entity)
  BY <1>1, <1>3 DEF MayEnclose, Freed, Running, WholeEntity
<1>5. ASSUME f.op = "subscribing", NEW c \in Components, Emptied(f.entity, c) PROVE FALSE
  <2> DEFINE k == Len(stack) - 1
  <2>1. Top.op = "removing" /\ Top.entity = f.entity
    BY <1>5 DEF Emptied, Running
  <2>2. Len(stack) # 1 /\ RemovedBy(stack[k], Top)
    BY <1>2, <2>1 DEF ManagerInv, Destructors
  <2>3. k \in 1 .. Len(stack) /\ (i # k => i < k)
    BY <1>2, <2>2
  <2>4. stack[k].op \in WholeEntity /\ stack[k].entity = f.entity
    BY <2>1, <2>2 DEF RemovedBy, WholeEntity
  <2>5. i # k
    BY <1>5, <2>4 DEF WholeEntity
  <2>6. QED
    BY <1>1, <2>3, <2>4, <2>5, AloneBelow DEF ManagerInv
<1>6. ASSUME NEW s, Joined(f.entity, s) \/ Left(f.entity, s)
      PROVE  /\ f.op \in Hooks => f.system # s
             /\ f.op = "checking" => f.manager = NoManager
             /\ f.op = "clearing" => ~Joined(f.entity, s)
  BY <1>1, <1>3, <1>6 DEF MayEnclose, Joined, Left, Running, Hooks, WholeEntity, EndsEntity
<1>7. QED
  BY <1>4, <1>5, <1>6 DEF Spares

(* Creating an entity and adding a component take nothing away. *)
LEMMA GrowthSpares ==
  ASSUME ManagerInv,
         \/ \E slot \in Slot : Created(slot)
         \/ \E e \in LiveHandles, c \in Components : Added(e, c),
         NEW f
  PROVE  Spares(f)
<1>1. stack \in Seq(Frame) /\ Len(stack) \in Nat /\ Len(stack') = Len(stack)
      /\ UNCHANGED entitySystems
  BY LenProperties DEF ManagerInv, ManagerTypeOK, Created, Added, SameFrames
<1>2. stack # <<>> => stack' # Below
  <2>1. \A n \in Nat : n # n - 1
    OBVIOUS
  <2>2. QED
    BY <1>1, <2>1, StackTop DEF ManagerInv
<1>3. \A e : ~Freed(e) /\ (\A c : ~Emptied(e, c)) /\ (\A s : ~Joined(e, s))
  BY <1>2 DEF Freed, Emptied, Joined, Running
<1>4. ASSUME NEW e, NEW s, Left(e, s) PROVE FALSE
  <2>1. PICK i : Leaves(e, s, i)
    BY <1>4 DEF Left
  <2>2. e \in Handle /\ s \in Systems /\ Lists(e, s)
    BY <2>1 DEF Leaves, SubscriptionOf, Lists, Contains
  <2>3. ~Lists(e, s)'
    BY <1>4, <2>2, LeavesLists
  <2>4. QED
    BY <1>1, <2>2, <2>3 DEF Lists, SystemsOf
<1>5. QED
  BY <1>3, <1>4 DEF Spares

LEMMA BelowKept ==
  ASSUME ManagerInv, HookScope = "others", [ManagerNext]_vars, stack # <<>>,
         NEW i \in 1 .. Len(Below), NEW f, f = Below[i]
  PROVE  FrameHolds(f)'
<1>1. /\ i \in 1 .. Len(stack) /\ i < Len(stack) /\ f = stack[i]
  BY StackTop DEF ManagerInv
<1>2. f \in Frame /\ FrameHolds(f) /\ Spares(f)
  BY <1>1, EachFrame, InsideSpares DEF ManagerInv, FramesHold
<1>3. QED
  BY <1>2, FrameSpared

(* The frames after a step that replaced the innermost one. *)
LEMMA ReplacedFrames ==
  ASSUME ManagerTypeOK, stack # <<>>, NEW g \in Frame
  PROVE  /\ Len(Append(Below, g)) = Len(stack) /\ Append(Below, g) \in Seq(Frame)
         /\ Append(Below, g)[Len(stack)] = g
         /\ \A i \in 1 .. Len(stack) - 1 : Append(Below, g)[i] = Below[i] /\ Below[i] = stack[i]
         /\ \A i \in 1 .. Len(stack) : i \in 1 .. Len(Below) \/ i = Len(stack)
BY StackTop, Pushed

LEMMA PushedFrames ==
  ASSUME ManagerTypeOK, stack # <<>>, NEW g \in Frame, NEW h \in Frame
  PROVE  /\ Len(Append(Append(Below, g), h)) = Len(stack) + 1
         /\ Append(Append(Below, g), h) \in Seq(Frame)
         /\ Append(Append(Below, g), h)[Len(stack)] = g
         /\ Append(Append(Below, g), h)[Len(stack) + 1] = h
         /\ \A i \in 1 .. Len(stack) - 1 :
              Append(Append(Below, g), h)[i] = Below[i] /\ Below[i] = stack[i]
         /\ \A i \in 1 .. Len(stack) + 1 :
              i \in 1 .. Len(Below) \/ i = Len(stack) \/ i = Len(stack) + 1
<1> DEFINE a == Append(Below, g)
<1>1. /\ Len(stack) \in Nat \ {0} /\ Len(Below) = Len(stack) - 1
      /\ a \in Seq(Frame) /\ Len(a) = Len(stack) /\ a[Len(stack)] = g
      /\ \A i \in 1 .. Len(stack) - 1 : a[i] = Below[i] /\ Below[i] = stack[i]
  BY StackTop, ReplacedFrames
<1> HIDE DEF a
<1>2. /\ Append(a, h) \in Seq(Frame) /\ Len(Append(a, h)) = Len(a) + 1
      /\ \A i \in 1 .. Len(a) : Append(a, h)[i] = a[i]
      /\ Append(a, h)[Len(a) + 1] = h
  BY <1>1, Pushed
<1>3. /\ Len(stack) \in 1 .. Len(a)
      /\ \A i \in 1 .. Len(stack) - 1 : i \in 1 .. Len(a)
      /\ \A i \in 1 .. Len(stack) + 1 :
           i \in 1 .. Len(Below) \/ i = Len(stack) \/ i = Len(stack) + 1
  BY <1>1
<1>4. QED
  BY <1>1, <1>2, <1>3 DEF a

LEMMA ReplacedHolds ==
  ASSUME ManagerInv, HookScope = "others", [ManagerNext]_vars, stack # <<>>,
         NEW g \in Frame, FrameHolds(g)', stack' = Append(Below, g)
  PROVE  FramesHold'
<1>1. /\ Len(stack') = Len(stack) /\ stack'[Len(stack)] = g
      /\ \A i \in 1 .. Len(stack) - 1 : stack'[i] = Below[i]
      /\ \A i \in 1 .. Len(stack) : i \in 1 .. Len(Below) \/ i = Len(stack)
      /\ Len(Below) = Len(stack) - 1
  BY ReplacedFrames, StackTop DEF ManagerInv
<1>2. ASSUME NEW i \in 1 .. Len(stack'), NEW f, f = stack'[i] PROVE FrameHolds(f)'
  BY <1>1, <1>2, BelowKept
<1>3. QED
  BY <1>2 DEF FramesHold

LEMMA PushedHolds ==
  ASSUME ManagerInv, HookScope = "others", [ManagerNext]_vars, stack # <<>>,
         NEW g \in Frame, FrameHolds(g)', NEW h \in Frame, FrameHolds(h)',
         stack' = Append(Append(Below, g), h)
  PROVE  FramesHold'
<1>1. /\ Len(stack') = Len(stack) + 1 /\ stack'[Len(stack)] = g /\ stack'[Len(stack) + 1] = h
      /\ \A i \in 1 .. Len(stack) - 1 : stack'[i] = Below[i]
      /\ \A i \in 1 .. Len(stack) + 1 :
           i \in 1 .. Len(Below) \/ i = Len(stack) \/ i = Len(stack) + 1
      /\ Len(Below) = Len(stack) - 1
  BY PushedFrames, StackTop DEF ManagerInv
<1>2. ASSUME NEW i \in 1 .. Len(stack'), NEW f, f = stack'[i] PROVE FrameHolds(f)'
  BY <1>1, <1>2, BelowKept
<1>3. QED
  BY <1>2 DEF FramesHold

(* Calls begun by user code leave the operations under way as they are. *)
LEMMA CallsHold ==
  ASSUME ManagerInv, HookScope = "others", [ManagerNext]_vars,
         NEW rest, SameFrames(stack, rest), Calls(rest)
  PROVE  FramesHold'
<1>1. /\ rest \in Seq(Frame) /\ Len(rest) = Len(stack) /\ stack \in Seq(Frame)
      /\ \A i \in 1 .. Len(stack) :
           rest[i] = stack[i] \/ rest[i].op = "flushing"
      /\ \A i \in 1 .. Len(stack) : stack[i] \in Frame /\ FrameHolds(stack[i])
  BY EachFrame DEF SameFrames, ManagerInv, ManagerTypeOK, FramesHold
<1>2. ASSUME NEW i \in 1 .. Len(stack), NEW f, f = rest[i], WorldUnchanged
      PROVE  FrameHolds(f)'
  <2>1. FrameHolds(f)
    BY <1>1, <1>2 DEF FrameHolds
  <2>2. QED
    BY <1>2, <2>1, FrameSame
<1>3. CASE stack' = rest /\ WorldUnchanged
  <2>1. ASSUME NEW i \in 1 .. Len(stack'), NEW f, f = stack'[i] PROVE FrameHolds(f)'
    BY <1>1, <1>2, <1>3, <2>1
  <2>2. QED
    BY <2>1 DEF FramesHold
<1>4. ASSUME NEW e \in LiveHandles, NEW c \in Components, Adds(e, c, rest)
      PROVE  FramesHold'
  <2>1. Added(e, c) /\ stack' = rest
    BY <1>4 DEF Adds, Added
  <2>2. ASSUME NEW i \in 1 .. Len(stack'), NEW f, f = stack'[i] PROVE FrameHolds(f)'
    <3>1. CASE f = stack[i]
      BY <1>1, <2>1, <2>2, <3>1, GrowthSpares, FrameSpared
    <3>2. CASE f.op = "flushing"
      BY <3>2 DEF FrameHolds
    <3>3. QED
      BY <1>1, <2>1, <2>2, <3>1, <3>2
  <2>3. QED
    BY <2>2 DEF FramesHold
<1>5. ASSUME NEW g \in Frame, Begins(g, rest) PROVE FramesHold'
  <2>1. stack' = Append(rest, g) /\ WorldUnchanged /\ FrameHolds(g)
    BY <1>5 DEF Begins
  <2>2. /\ Len(stack') = Len(stack) + 1 /\ stack'[Len(stack) + 1] = g
        /\ \A i \in 1 .. Len(stack) : stack'[i] = rest[i]
        /\ Len(stack) \in Nat
    BY <1>1, <2>1, Pushed
  <2>3. \A i \in 1 .. Len(stack') : i \in 1 .. Len(stack) \/ i = Len(stack) + 1
    BY <2>2
  <2>4. ASSUME NEW i \in 1 .. Len(stack'), NEW f, f = stack'[i] PROVE FrameHolds(f)'
    BY <1>2, <2>1, <2>2, <2>3, <2>4, FrameSame
  <2>5. QED
    BY <2>4 DEF FramesHold
<1>6. ASSUME NEW g \in Frame, NEW h \in Frame, BeginsRemoval(g, h, rest) PROVE FramesHold'
  <2> DEFINE a == Append(rest, g)
  <2>1. stack' = Append(a, h) /\ WorldUnchanged /\ FrameHolds(g) /\ FrameHolds(h)
    BY <1>1, <1>6, TwoPushed DEF BeginsRemoval
  <2>2. /\ Len(a) = Len(stack) + 1 /\ a[Len(stack) + 1] = g /\ a \in Seq(Frame)
        /\ \A i \in 1 .. Len(stack) : a[i] = rest[i]
        /\ Len(stack) \in Nat
    BY <1>1, Pushed
  <2> HIDE DEF a
  <2>3. /\ Len(stack') = Len(a) + 1 /\ stack'[Len(a) + 1] = h
        /\ \A i \in 1 .. Len(a) : stack'[i] = a[i]
    BY <2>1, <2>2, Pushed
  <2>4. \A i \in 1 .. Len(stack') :
          \/ i \in 1 .. Len(stack) /\ i \in 1 .. Len(a)
          \/ i = Len(stack) + 1 /\ i \in 1 .. Len(a)
          \/ i = Len(a) + 1
    BY <2>2, <2>3
  <2>5. ASSUME NEW i \in 1 .. Len(stack'), NEW f, f = stack'[i] PROVE FrameHolds(f)'
    <3>1. CASE i \in 1 .. Len(stack) /\ i \in 1 .. Len(a)
      BY <1>2, <2>1, <2>2, <2>3, <2>5, <3>1
    <3>2. CASE i = Len(stack) + 1 /\ i \in 1 .. Len(a)
      BY <2>1, <2>2, <2>3, <2>5, <3>2, FrameSame
    <3>3. CASE i = Len(a) + 1
      BY <2>1, <2>3, <2>5, <3>3, FrameSame
    <3>4. QED
      BY <2>4, <3>1, <3>2, <3>3
  <2>6. QED
    BY <2>5 DEF FramesHold
<1>7. QED
  BY <1>3, <1>4, <1>5, <1>6 DEF Calls

(* The operations of a frame that say nothing of lists or components. *)
LEMMA HoldsLive ==
  ASSUME NEW f,
         f.op = "destroying" \/ f.op = "removing" \/ (f.op = "checking" /\ f.at # 0 /\ ~f.inHook)
  PROVE  /\ f.entity \in LiveHandles => FrameHolds(f)
         /\ f.entity \in LiveHandles' => FrameHolds(f)'
BY DEF FrameHolds

LEMMA FramesNext ==
  ASSUME ManagerInv, HookScope = "others", [ManagerNext]_vars
  PROVE  FramesHold'
<1>1. /\ \A f \in CheckFrame : f \in Frame /\ f.op = "checking"
      /\ \A f \in DestroyFrame : f \in Frame /\ f.op = "destroying"
      /\ \A f \in ClearFrame : f \in Frame /\ f.op = "clearing"
      /\ \A f \in RemovalFrame : f \in Frame /\ f.op = "removing"
      /\ \A f \in SubscriptionFrame : f \in Frame
  BY DEF Frame, CheckFrame, DestroyFrame, ClearFrame, RemovalFrame, SubscriptionFrame
<1>2. ManagerTypeOK
  BY DEF ManagerInv
<1>3. ASSUME stack # <<>>, stack' = Below PROVE FramesHold'
  <2>1. ASSUME NEW i \in 1 .. Len(stack'), NEW f, f = stack'[i] PROVE FrameHolds(f)'
    BY <1>3, <2>1, BelowKept
  <2>2. QED
    BY <2>1 DEF FramesHold
<1>4. ASSUME stack # <<>>, Top.op # "flushing"
      PROVE  Top.entity \in LiveHandles /\ FrameHolds(Top)
  <2>1. Running(Top.op)
    BY <1>4 DEF Running
  <2>2. QED
    BY <1>4, <2>1, TopRuns DEF FrameHolds
<1>5. CASE CreateCall
  <2>1. /\ stack' = stack
        /\ \A i \in 1 .. Len(stack) : stack[i] \in Frame /\ FrameHolds(stack[i])
    BY <1>2, <1>5, EachFrame DEF CreateCall, managerVars, ManagerInv, FramesHold
  <2>2. \E slot \in Slot : Created(slot)
    BY <1>5, CallCreates
  <2>3. ASSUME NEW i \in 1 .. Len(stack'), NEW f, f = stack'[i] PROVE FrameHolds(f)'
    BY <2>1, <2>2, <2>3, GrowthSpares, FrameSpared
  <2>4. QED
    BY <2>3 DEF FramesHold
<1>6. CASE OnlyFlush(stack')
  BY <1>6 DEF OnlyFlush, FramesHold, FrameHolds
<1>7. CASE subscribeInternalReturns \/ unsubscribeReturns \/ removeReturns \/ checkReturns
             \/ destroyFreesSlot
  BY <1>3, <1>7 DEF subscribeInternalReturns, unsubscribeReturns, removeReturns, checkReturns,
     destroyFreesSlot, Running
<1>8. CASE checkNextManager
  <2>1. /\ stack # <<>> /\ Top \in CheckFrame /\ WorldUnchanged
        /\ \E g \in CheckFrame :
             g.entity = Top.entity /\ g.at = 1 /\ ~g.inHook /\ stack' = Append(Below, g)
    BY <1>8, ChecksNext
  <2>2. PICK g \in CheckFrame :
          g.entity = Top.entity /\ g.at = 1 /\ ~g.inHook /\ stack' = Append(Below, g)
    BY <2>1
  <2>3. FrameHolds(g)
    BY <1>1, <1>4, <2>1, <2>2, HoldsLive
  <2>4. QED
    BY <1>1, <2>1, <2>2, <2>3, FrameSame, ReplacedHolds
<1>9. CASE checkFindsUnfit
  <2>1. PICK g \in CheckFrame :
          /\ g.entity = Top.entity /\ g.manager = Top.manager
          /\ g.at \in Unfit(Top) /\ g.inHook /\ stack' = Append(Below, g)
    BY <1>9, ChecksUnfit
  <2>2. stack # <<>> /\ Top \in CheckFrame /\ Top.manager \in Managers /\ WorldUnchanged
    BY <1>9, ChecksUnfit
  <2>3. Top.entity \in LiveHandles /\ Top.at # 0 /\ Top.at \in Nat
    BY <1>1, <1>4, <2>2 DEF FrameHolds, CheckFrame
  <2>4. g.at \in Top.at .. Len(SystemsOf(Top.entity, Top.manager))
    BY <2>1 DEF Unfit
  <2>5. g.manager # NoManager
    BY <2>1, <2>2, ManagerAssumptions
  <2>6. Top.entity \in Handle
    BY <2>2 DEF CheckFrame
  <2>7. Len(SystemsOf(Top.entity, Top.manager)) \in Nat
    BY <1>2, <2>2, <2>6, ListsType
  <2>8. g.at \in 1 .. Len(SystemsOf(Top.entity, Top.manager)) /\ g.at # 0
    BY <2>3, <2>4, <2>7
  <2>9. FrameHolds(g)
    BY <1>1, <2>1, <2>3, <2>5, <2>8 DEF FrameHolds
  <2>10. QED
    BY <1>1, <2>1, <2>2, <2>9, FrameSame, ReplacedHolds
<1>10. CASE checkUnsubscribes
  <2>1. PICK g \in CheckFrame :
          g.entity = Top.entity /\ g.at = Top.at /\ ~g.inHook /\ stack' = Append(Below, g)
    BY <1>10, ChecksErase
  <2>2. stack # <<>> /\ Top \in CheckFrame
    BY <1>10, ChecksErase
  <2>3. UNCHANGED entityVars
    BY <1>10 DEF checkUnsubscribes
  <2>4. LiveHandles' = LiveHandles
    BY <2>3 DEF entityVars, LiveHandles, HandleOf
  <2>5. g.entity \in LiveHandles' /\ g.at # 0
    BY <1>1, <1>4, <2>1, <2>2, <2>4 DEF FrameHolds
  <2>6. FrameHolds(g)'
    BY <1>1, <2>1, <2>5, HoldsLive
  <2>7. QED
    BY <1>1, <2>1, <2>2, <2>6, ReplacedHolds
<1>11. CASE checkManagerDone
  <2>1. /\ stack # <<>> /\ Top \in CheckFrame /\ WorldUnchanged /\ Top.at # 0
        /\ \E g \in CheckFrame :
             g.entity = Top.entity /\ g.at = Top.at /\ ~g.inHook /\ stack' = Append(Below, g)
    BY <1>11, ChecksDone
  <2>2. PICK g \in CheckFrame :
          g.entity = Top.entity /\ g.at = Top.at /\ ~g.inHook /\ stack' = Append(Below, g)
    BY <2>1
  <2>3. FrameHolds(g)
    BY <1>1, <1>4, <2>1, <2>2, HoldsLive
  <2>4. QED
    BY <1>1, <2>1, <2>2, <2>3, FrameSame, ReplacedHolds
<1>12. CASE destroyNextManager
  <2>1. stack # <<>> /\ Top \in DestroyFrame /\ WorldUnchanged
    BY <1>12, DestroysNext
  <2>2. PICK g \in DestroyFrame : g.entity = Top.entity /\ stack' = Append(Below, g)
    BY <1>12, DestroysNext
  <2>3. FrameHolds(g)
    BY <1>1, <1>4, <2>1, <2>2, HoldsLive
  <2>4. QED
    BY <1>1, <2>1, <2>2, <2>3, FrameSame, ReplacedHolds
<1>13. CASE destroyUnsubscribes
  <2>1. stack # <<>> /\ Top \in DestroyFrame /\ WorldUnchanged
    BY <1>13, DestroysPending
  <2>2. PICK g \in DestroyFrame :
          /\ g.entity = Top.entity
          /\ \/ stack' = Append(Below, g)
             \/ \E h \in SubscriptionFrame :
                  /\ h.op = "unsubscribing" /\ h.entity = Top.entity
                  /\ h.system = Top.pending[1]
                  /\ Lists(Top.entity, Top.pending[1])
                  /\ stack' = Append(Append(Below, g), h)
    BY <1>13, DestroysPending
  <2>3. FrameHolds(g)' /\ Top.entity \in LiveHandles
    BY <1>1, <1>4, <2>1, <2>2, HoldsLive, FrameSame
  <2>4. ASSUME NEW h \in SubscriptionFrame,
               h.op = "unsubscribing" /\ h.entity = Top.entity /\ h.system = Top.pending[1],
               Lists(Top.entity, Top.pending[1])
        PROVE  FrameHolds(h)'
    <3>1. FrameHolds(h)
      BY <2>3, <2>4 DEF FrameHolds
    <3>2. QED
      BY <2>1, <3>1, FrameSame
  <2>5. QED
    BY <1>1, <2>1, <2>2, <2>3, <2>4, ReplacedHolds, PushedHolds
<1>14. CASE destroyLeftSystems
  <2>1. /\ stack # <<>> /\ Top \in DestroyFrame /\ WorldUnchanged
        /\ Top.pending = <<>> /\ Top.managers = {}
    BY <1>14, DestroysLeft
  <2>2. PICK g \in ClearFrame : g.entity = Top.entity /\ stack' = Append(Below, g)
    BY <1>14, DestroysLeft
  <2>3. Top = stack[Len(stack)] /\ Len(stack) \in 1 .. Len(stack)
    BY <1>2, <2>1, StackTop
  <2>4. \A k \in 1 .. Len(Top.pending) : FALSE
    BY <2>1
  <2>5. ASSUME NEW s \in Systems PROVE ~Lists(Top.entity, s)
    BY <1>1, <2>1, <2>3, <2>4 DEF ManagerInv, DestroysGoOn, StillToLeave
  <2>6. FrameHolds(g)
    BY <1>1, <1>4, <2>1, <2>2, <2>5 DEF FrameHolds
  <2>7. QED
    BY <1>1, <2>1, <2>2, <2>6, FrameSame, ReplacedHolds
<1>15. CASE removeEntityCallback
  <2>1. stack # <<>> /\ Top \in ClearFrame /\ WorldUnchanged
    BY <1>15, ClearsNext
  <2>2. PICK g \in ClearFrame :
          /\ g.entity = Top.entity
          /\ \/ stack' = Append(Below, g)
             \/ \E h \in RemovalFrame :
                  /\ h.entity = Top.entity
                  /\ stack' = Append(Append(Below, g), h)
    BY <1>15, ClearsNext
  <2>3. Top.entity \in LiveHandles /\ FrameHolds(Top) /\ Top.op = "clearing"
    BY <1>1, <1>4, <2>1
  <2>4. FrameHolds(g)
    BY <1>1, <2>2, <2>3 DEF FrameHolds
  <2>5. ASSUME NEW h \in RemovalFrame, h.entity = Top.entity PROVE FrameHolds(h)'
    BY <1>1, <2>1, <2>3, <2>5, HoldsLive, FrameSame
  <2>6. QED
    BY <1>1, <2>1, <2>2, <2>4, <2>5, FrameSame, ReplacedHolds, PushedHolds
<1>16. QED
  BY <1>5, <1>6, <1>7, <1>8, <1>9, <1>10, <1>11, <1>12, <1>13, <1>14, <1>15, CallsHold, Steps

-----------------------------------------------------------------------------
(* The lists, the bitmaps and the storages. *)

(* What a step makes of one list. *)
LEMMA ListSteps ==
  ASSUME ManagerInv, HookScope = "others", [ManagerNext]_vars,
         NEW m \in Managers, NEW h \in Handle
  PROVE  \/ SystemsOf(h, m)' = SystemsOf(h, m)
         \/ \E s \in Systems :
              /\ Joined(h, s) /\ ManagerOf[s] = m
              /\ SystemsOf(h, m)' = Append(SystemsOf(h, m), s)
         \/ \E s \in Systems, i \in 1 .. Len(SystemsOf(h, m)) :
              /\ Left(h, s) /\ ManagerOf[s] = m /\ SystemsOf(h, m)[i] = s
              /\ SystemsOf(h, m)' = RemoveAt(SystemsOf(h, m), i)
<1>1. ASSUME NEW s \in Systems, ManagerOf[s] = m, Joined(h, s)
      PROVE  SystemsOf(h, m)' = Append(SystemsOf(h, m), s)
  BY <1>1 DEF Joined, ListBecomes, SystemsOf
<1>2. ASSUME NEW s \in Systems, ManagerOf[s] = m, Left(h, s)
      PROVE  \E i \in 1 .. Len(SystemsOf(h, m)) :
               /\ SystemsOf(h, m)[i] = s
               /\ SystemsOf(h, m)' = RemoveAt(SystemsOf(h, m), i)
  <2>1. PICK i : Leaves(h, s, i)
    BY <1>2 DEF Left
  <2>2. /\ i \in 1 .. Len(SystemsOf(h, m)) /\ SystemsOf(h, m)[i] = s
        /\ ListBecomes(m, h, RemoveAt(SystemsOf(h, m), i))
    BY <1>2, <2>1 DEF Leaves
  <2>3. SystemsOf(h, m)' = RemoveAt(SystemsOf(h, m), i)
    BY <2>2 DEF ListBecomes, SystemsOf
  <2>4. QED
    BY <2>2, <2>3
<1>3. QED
  BY <1>1, <1>2, KeepsLists

LEMMA ListsOwnNext ==
  ASSUME ManagerInv, HookScope = "others", [ManagerNext]_vars
  PROVE  ListsOwn'
<1>1. ASSUME NEW m \in Managers, NEW e \in Handle, NEW list, list = SystemsOf(e, m)',
             NEW i \in 1 .. Len(list)
      PROVE  ManagerOf[list[i]] = m
  <2> DEFINE old == SystemsOf(e, m)
  <2>1. /\ old \in Seq(Systems) /\ Len(old) \in Nat
        /\ \A j \in 1 .. Len(old) : ManagerOf[old[j]] = m
    BY ListsType DEF ManagerInv, ListsOwn
  <2>2. CASE list = old
    BY <1>1, <2>1, <2>2
  <2>3. ASSUME NEW s \in Systems, ManagerOf[s] = m, list = Append(old, s)
        PROVE  ManagerOf[list[i]] = m
    <3>1. /\ Len(list) = Len(old) + 1 /\ list[Len(old) + 1] = s
          /\ \A j \in 1 .. Len(old) : list[j] = old[j]
      BY <2>1, <2>3, Pushed
    <3>2. i \in 1 .. Len(old) \/ i = Len(old) + 1
      BY <1>1, <2>1, <3>1
    <3>3. QED
      BY <2>1, <2>3, <3>1, <3>2
  <2>4. ASSUME NEW k \in 1 .. Len(old), list = RemoveAt(old, k)
        PROVE  ManagerOf[list[i]] = m
    <3>1. /\ Len(list) = Len(old) - 1
          /\ \A j \in 1 .. Len(old) - 1 : list[j] = IF j < k THEN old[j] ELSE old[j + 1]
      BY <2>1, <2>4, Removed
    <3>2. i \in 1 .. Len(old) - 1 /\ i \in 1 .. Len(old) /\ i + 1 \in 1 .. Len(old)
      BY <1>1, <2>1, <3>1
    <3>3. QED
      BY <2>1, <3>1, <3>2
  <2>5. QED
    BY <1>1, <2>2, <2>3, <2>4, ListSteps
<1>2. QED
  BY <1>1 DEF ListsOwn

LEMMA MirroredNext ==
  ASSUME ManagerInv, HookScope = "others", [ManagerNext]_vars
  PROVE  SubscriptionsMirrored'
<1>1. /\ ManagerTypeOK /\ SubscriptionsMirrored /\ EntityInv
      /\ subscribed \in [Systems -> SUBSET Slot] /\ aliveSlots \in SUBSET Slot
  BY DEF ManagerInv, ManagerTypeOK, EntityTypeOK
<1>2. /\ \A s \in Systems, e \in Handle :
           Lists(e, s) <=> e \in LiveHandles /\ e.slot \in subscribed[s]
      /\ \A s \in Systems : subscribed[s] \subseteq aliveSlots
  BY <1>1 DEF SubscriptionsMirrored
<1>3. \A h \in LiveHandles : h \in Handle /\ h.slot \in aliveSlots /\ h.slot \in Slot
  BY <1>1, LiveIs
<1>4. \A g, h \in LiveHandles : g.slot = h.slot => g = h
  BY <1>1, LiveOfSlot
<1>5. UNCHANGED entitySystems => \A e \in Handle, s \in Systems : Lists(e, s)' <=> Lists(e, s)
  BY DEF Lists, SystemsOf
<1>6. UNCHANGED entityVars => aliveSlots' = aliveSlots
  BY DEF entityVars
<1> DEFINE Mirrors == /\ \A s \in Systems, e \in Handle :
                           Lists(e, s)' <=> e \in LiveHandles' /\ e.slot \in subscribed'[s]
                      /\ \A s \in Systems : subscribed'[s] \subseteq aliveSlots'
<1>7. ASSUME UNCHANGED <<entityVars, subscribed, entitySystems>>, LiveHandles' = LiveHandles
      PROVE  Mirrors
  BY <1>2, <1>5, <1>6, <1>7
<1>8. ASSUME NEW slot \in Slot, Created(slot) PROVE Mirrors
  <2>1. /\ HandleOf(slot) \notin LiveHandles /\ HandleOf(slot).slot = slot
        /\ LiveHandles' = LiveHandles \cup {HandleOf(slot)}
    BY <1>8, Lives DEF HandleOf
  <2>2. /\ slot \notin aliveSlots /\ aliveSlots' = aliveSlots \cup {slot}
        /\ UNCHANGED <<subscribed, entitySystems>>
    BY <1>8 DEF Created
  <2>3. QED
    BY <1>2, <1>5, <2>1, <2>2
<1>9. ASSUME NEW x \in LiveHandles, Freed(x) PROVE Mirrors
  <2>1. LiveHandles' = LiveHandles \ {x}
    BY <1>9, Lives
  <2>2. FrameHolds(Top) /\ Top.op = "clearing" /\ Top.entity = x
    BY <1>9, TopRuns DEF Freed, Running
  <2>3. \A s \in Systems : ~Lists(x, s)
    BY <2>2 DEF FrameHolds
  <2>4. aliveSlots' = aliveSlots \ {x.slot} /\ UNCHANGED <<subscribed, entitySystems>>
    BY <1>1, <1>9, LiveIs, DestroyFacts DEF Freed
  <2>5. \A s \in Systems : x.slot \notin subscribed[s]
    BY <1>2, <1>3, <2>3
  <2>6. QED
    BY <1>2, <1>3, <1>5, <2>1, <2>3, <2>4, <2>5
<1>10. ASSUME NEW x \in LiveHandles, NEW r \in Systems, Joined(x, r) PROVE Mirrors
  <2>1. LiveHandles' = LiveHandles /\ aliveSlots' = aliveSlots
    BY <1>6, <1>10, Lives DEF Joined
  <2>2. \A e \in Handle, s \in Systems : Lists(e, s)' <=> Lists(e, s) \/ (e = x /\ s = r)
    BY <1>10, JoinsLists
  <2>3. subscribed' = [subscribed EXCEPT ![r] = @ \cup {x.slot}]
    BY <1>10 DEF Joined
  <2>4. \A s \in Systems : subscribed'[s] = IF s = r THEN subscribed[s] \cup {x.slot}
                                                     ELSE subscribed[s]
    BY <1>1, <2>3
  <2>5. \A e \in LiveHandles : e.slot = x.slot <=> e = x
    BY <1>4
  <2>6. ASSUME NEW s \in Systems, NEW e \in Handle
        PROVE  Lists(e, s)' <=> e \in LiveHandles' /\ e.slot \in subscribed'[s]
    <3>1. Lists(e, s) <=> e \in LiveHandles /\ e.slot \in subscribed[s]
      BY <1>2
    <3>2. Lists(e, s)' <=> Lists(e, s) \/ (e = x /\ s = r)
      BY <2>2
    <3>3. e.slot \in subscribed'[s]
            <=> e.slot \in subscribed[s] \/ (s = r /\ e.slot = x.slot)
      BY <2>4
    <3>4. QED
      BY <2>1, <2>5, <3>1, <3>2, <3>3
  <2>7. \A s \in Systems : subscribed'[s] \subseteq aliveSlots'
    BY <1>2, <1>3, <2>1, <2>4
  <2>8. QED
    BY <2>6, <2>7
<1>11. ASSUME NEW x \in LiveHandles, NEW r \in Systems, Left(x, r) PROVE Mirrors
  <2>1. LiveHandles' = LiveHandles /\ aliveSlots' = aliveSlots
    BY <1>6, <1>11, Lives DEF Left, Leaves
  <2>2. \A e \in Handle, s \in Systems : Lists(e, s)' <=> Lists(e, s) /\ ~(e = x /\ s = r)
    BY <1>11, LeavesLists
  <2>3. subscribed' = [subscribed EXCEPT ![r] = @ \ {x.slot}]
    BY <1>11 DEF Left, Leaves
  <2>4. \A s \in Systems : subscribed'[s] = IF s = r THEN subscribed[s] \ {x.slot}
                                                     ELSE subscribed[s]
    BY <1>1, <2>3
  <2>5. \A e \in LiveHandles : e.slot = x.slot <=> e = x
    BY <1>4
  <2>6. ASSUME NEW s \in Systems, NEW e \in Handle
        PROVE  Lists(e, s)' <=> e \in LiveHandles' /\ e.slot \in subscribed'[s]
    <3>1. Lists(e, s) <=> e \in LiveHandles /\ e.slot \in subscribed[s]
      BY <1>2
    <3>2. Lists(e, s)' <=> Lists(e, s) /\ ~(e = x /\ s = r)
      BY <2>2
    <3>3. e.slot \in subscribed'[s]
            <=> e.slot \in subscribed[s] /\ ~(s = r /\ e.slot = x.slot)
      BY <2>4
    <3>4. QED
      BY <2>1, <2>5, <3>1, <3>2, <3>3
  <2>7. \A s \in Systems : subscribed'[s] \subseteq aliveSlots'
    BY <1>2, <1>3, <2>1, <2>4
  <2>8. QED
    BY <2>6, <2>7
<1>12. Mirrors
  BY <1>7, <1>8, <1>9, <1>10, <1>11, Lives, WorldSteps DEF WorldUnchanged, Added, Emptied
<1>13. ASSUME NEW m \in Managers, NEW e \in Handle, NEW list, list = SystemsOf(e, m)'
      PROVE  IsInjective(list)
  <2>1. SystemsOf(e, m) \in Seq(Systems) /\ IsInjective(SystemsOf(e, m))
    BY <1>1, ListsType DEF SubscriptionsMirrored
  <2>2. ASSUME NEW s \in Systems, Joined(e, s), ManagerOf[s] = m
        PROVE  \A i \in 1 .. Len(SystemsOf(e, m)) : SystemsOf(e, m)[i] # s
    BY <2>2 DEF Joined, Lists, Contains
  <2>3. \/ list = SystemsOf(e, m)
        \/ \E s \in Systems :
             /\ list = Append(SystemsOf(e, m), s)
             /\ \A i \in 1 .. Len(SystemsOf(e, m)) : SystemsOf(e, m)[i] # s
        \/ \E i \in 1 .. Len(SystemsOf(e, m)) : list = RemoveAt(SystemsOf(e, m), i)
    BY <1>13, <2>2, ListSteps
  <2>4. QED
    BY <2>1, <2>3, PushedInjective, RemovedInjective
<1>14. QED
  BY <1>12, <1>13 DEF SubscriptionsMirrored

LEMMA NoStaleNext ==
  ASSUME ManagerInv, HookScope = "others", [ManagerNext]_vars
  PROVE  NoStaleComponents'
<1>1. /\ ManagerTypeOK /\ NoStaleComponents /\ EntityInv
      /\ components \in [Components -> [Slot -> Handle \cup {NoOwner}]]
      /\ generations \in [Slot -> 0 .. MaxGeneration]
  BY DEF ManagerInv, ManagerTypeOK, EntityTypeOK
<1>2. UNCHANGED entityVars =>
        aliveSlots' = aliveSlots /\ \A slot \in Slot : HandleOf(slot)' = HandleOf(slot)
  BY DEF entityVars, HandleOf
<1>3. ASSUME UNCHANGED <<entityVars, components>> PROVE NoStaleComponents'
  BY <1>1, <1>2, <1>3 DEF NoStaleComponents
<1>4. ASSUME NEW new \in Slot, Created(new) PROVE NoStaleComponents'
  <2>1. /\ aliveSlots' = aliveSlots \cup {new} /\ components' = components
        /\ \A slot \in Slot : HandleOf(slot)' = HandleOf(slot)
    BY <1>4 DEF Created, HandleOf
  <2>2. QED
    BY <1>1, <2>1 DEF NoStaleComponents
<1>5. ASSUME NEW e \in LiveHandles, NEW d \in Components, Added(e, d) PROVE NoStaleComponents'
  <2>1. /\ e.slot \in Slot /\ e.slot \in aliveSlots /\ e = HandleOf(e.slot)
        /\ components' = [components EXCEPT ![d][e.slot] = e] /\ UNCHANGED entityVars
    BY <1>1, <1>5, LiveIs DEF Added
  <2>2. \A c \in Components, slot \in Slot :
          components'[c][slot] = IF c = d /\ slot = e.slot THEN e ELSE components[c][slot]
    BY <1>1, <2>1
  <2>3. QED
    BY <1>1, <1>2, <2>1, <2>2 DEF NoStaleComponents
<1>6. ASSUME NEW e \in LiveHandles, NEW d \in Components, Emptied(e, d)
      PROVE  NoStaleComponents'
  <2>1. /\ e.slot \in Slot
        /\ components' = [components EXCEPT ![d][e.slot] = NoOwner] /\ UNCHANGED entityVars
    BY <1>1, <1>6, LiveIs DEF Emptied
  <2>2. \A c \in Components, slot \in Slot :
          components'[c][slot] = IF c = d /\ slot = e.slot THEN NoOwner ELSE components[c][slot]
    BY <1>1, <2>1
  <2>3. QED
    BY <1>1, <1>2, <2>1, <2>2 DEF NoStaleComponents
<1>7. ASSUME NEW e \in LiveHandles, Freed(e) PROVE NoStaleComponents'
  <2>1. /\ stack # <<>> /\ Top.op = "clearing" /\ Top.entity = e /\ Top.storages = {}
        /\ components' = components
    BY <1>7 DEF Freed, Running
  <2>2. Top = stack[Len(stack)] /\ Len(stack) \in 1 .. Len(stack)
    BY <1>1, <2>1, StackTop
  <2>3. \A c \in Components : components[c][e.slot] = NoOwner
    BY <2>1, <2>2 DEF ManagerInv, DestroysGoOn, StillToRemove
  <2>4. /\ aliveSlots' = aliveSlots \ {e.slot} /\ e.slot \in Slot
        /\ generations' = [generations EXCEPT ![e.slot] = @ + 1]
    BY <1>1, <1>7, LiveIs, DestroyFacts DEF Freed
  <2>5. \A slot \in Slot : slot # e.slot => HandleOf(slot)' = HandleOf(slot)
    BY <1>1, <2>4 DEF HandleOf
  <2>6. QED
    BY <1>1, <2>1, <2>3, <2>4, <2>5 DEF NoStaleComponents
<1>8. QED
  BY <1>3, <1>4, <1>5, <1>6, <1>7, WorldSteps DEF WorldUnchanged, Joined, Left, Leaves

-----------------------------------------------------------------------------
(* A destroy gets to every system and component the entity has. *)

EndHolds(frames, i) ==
  /\ frames[i].op = "destroying" =>
       \A s \in Systems : Lists(frames[i].entity, s) => StillToLeave(frames, i, s)
  /\ frames[i].op = "clearing" =>
       \A c \in Components :
         components[c][frames[i].entity.slot] # NoOwner => StillToRemove(frames, i, c)

(* Nothing is given to an entity that dies. *)
LEMMA NothingGained ==
  ASSUME ManagerInv, HookScope = "others", [ManagerNext]_vars,
         NEW i \in 1 .. Len(stack), NEW e, e = stack[i].entity
  PROVE  /\ stack[i].op = "destroying" =>
              e \in Handle /\ \A s \in Systems : Lists(e, s)' => Lists(e, s)
         /\ stack[i].op = "clearing" =>
              \A c \in Components : components'[c][e.slot] # NoOwner => components[c][e.slot] # NoOwner
<1>1. /\ stack[i] \in Frame /\ FrameHolds(stack[i]) /\ ManagerTypeOK
      /\ Len(stack) \in 1 .. Len(stack) /\ Top = stack[Len(stack)] /\ Len(stack) \in Nat
      /\ components \in [Components -> [Slot -> Handle \cup {NoOwner}]]
  BY EachFrame, StackTop DEF ManagerInv, FramesHold, ManagerTypeOK
<1>2. ASSUME stack[i].op \in EndsEntity PROVE e \in LiveHandles /\ e \in Handle /\ e.slot \in Slot
  BY <1>1, <1>2, LiveIs DEF FrameHolds, EndsEntity
<1>3. ASSUME stack[i].op = "destroying", NEW s \in Systems, Joined(e, s) PROVE FALSE
  <2>1. Top.op = "subscribing" /\ Top.entity = e
    BY <1>3 DEF Joined, Running
  <2>2. i < Len(stack)
    BY <1>1, <1>3, <2>1
  <2>3. MayEnclose(stack[i], Top)
    BY <1>1, <2>2 DEF ManagerInv, Nested
  <2>4. QED
    BY <1>3, <2>1, <2>3 DEF MayEnclose, EndsEntity
<1>4. ASSUME stack[i].op = "destroying"
      PROVE  e \in Handle /\ \A s \in Systems : Lists(e, s)' => Lists(e, s)
  BY <1>2, <1>3, <1>4, ListsChange DEF EndsEntity
<1>5. ASSUME stack[i].op = "clearing", NEW c \in Components, components'[c][e.slot] # NoOwner
      PROVE  components[c][e.slot] # NoOwner
  <2>1. e \in LiveHandles /\ e.slot \in Slot
    BY <1>2, <1>5 DEF EndsEntity
  <2>2. ASSUME NEW h \in LiveHandles, NEW d \in Components, Added(h, d)
        PROVE  components[c][e.slot] # NoOwner
    <3>1. h # e
      BY <1>5, <2>2 DEF Added, Working
    <3>2. h.slot # e.slot /\ h.slot \in Slot
      BY <1>1, <2>1, <3>1, LiveIs, LiveOfSlot
    <3>3. QED
      BY <1>1, <1>5, <2>1, <2>2, <3>2 DEF Added
  <2>3. ASSUME NEW h \in LiveHandles, NEW d \in Components, Emptied(h, d)
        PROVE  components[c][e.slot] # NoOwner
    <3>1. h.slot \in Slot
      BY <1>1, LiveIs
    <3>2. QED
      BY <1>1, <1>5, <2>1, <2>3, <3>1 DEF Emptied
  <2>4. UNCHANGED components => components[c][e.slot] # NoOwner
    BY <1>5
  <2>5. QED
    BY <2>2, <2>3, <2>4, WorldSteps DEF WorldUnchanged, Created, Freed, Joined, Left, Leaves
<1>6. QED
  BY <1>4, <1>5

(* What was still to be done by a frame that stays is still to be done, or  *)
(* was done by the hook or the destructor that has returned to it.           *)
LEMMA EndsGoOn ==
  ASSUME ManagerInv, HookScope = "others", [ManagerNext]_vars,
         NEW i \in 1 .. Len(stack), NEW after, after[i] = stack[i],
         \/ i = Len(stack)
         \/ i # Len(stack) /\ stack[i + 1].op \notin {"unsubscribing", "removing"}
         \/ i # Len(stack) /\ i # Len(after) /\ after[i + 1] = stack[i + 1]
         \/ i + 1 = Len(stack) /\ (unsubscribeReturns \/ removeReturns)
  PROVE  EndHolds(after, i)'
<1> DEFINE f == stack[i]
           e == f.entity
<1>1. /\ f \in Frame /\ FrameHolds(f) /\ ManagerTypeOK
      /\ Len(stack) \in Nat /\ Top = stack[Len(stack)] /\ i \in Nat
      /\ components \in [Components -> [Slot -> Handle \cup {NoOwner}]]
  BY EachFrame, StackTop DEF ManagerInv, FramesHold, ManagerTypeOK
<1>2. PICK h : h = e
  OBVIOUS
<1>3. ASSUME f.op = "destroying", NEW s \in Systems, Lists(h, s)'
      PROVE  StillToLeave(after, i, s)
  <2>1. Lists(h, s) /\ h \in Handle
    BY <1>2, <1>3, NothingGained
  <2>2. StillToLeave(stack, i, s)
    BY <1>2, <1>3, <2>1 DEF ManagerInv, DestroysGoOn
  <2>3. CASE \/ ManagerOf[s] \in f.managers
             \/ \E k \in 1 .. Len(f.pending) : f.pending[k] = s
    BY <2>3 DEF StillToLeave
  <2>4. CASE /\ i # Len(stack)
             /\ stack[i + 1].op = "unsubscribing"
             /\ stack[i + 1].entity = e
             /\ stack[i + 1].system = s
    <3>1. CASE i # Len(after) /\ after[i + 1] = stack[i + 1]
      BY <2>4, <3>1 DEF StillToLeave
    <3>2. CASE i + 1 = Len(stack) /\ (unsubscribeReturns \/ removeReturns)
      <4>1. Top.op = "unsubscribing" /\ Top.entity = h /\ Top.system = s
        BY <1>1, <1>2, <2>4, <3>2
      <4>2. unsubscribeReturns
        BY <3>2, <4>1 DEF removeReturns, Running
      <4>3. PICK k \in Nat : Leaves(h, s, k)
        BY <4>1, <4>2, Unsubscribes
      <4>4. ~Lists(h, s)'
        BY <2>1, <4>3, ListsLeave
      <4>5. QED
        BY <1>3, <4>4
    <3>3. QED
      BY <2>4, <3>1, <3>2
  <2>5. QED
    BY <2>2, <2>3, <2>4 DEF StillToLeave
<1>4. ASSUME f.op = "clearing", NEW c \in Components, components'[c][h.slot] # NoOwner
      PROVE  StillToRemove(after, i, c)
  <2>1. components[c][h.slot] # NoOwner /\ h \in LiveHandles /\ h.slot \in Slot
    BY <1>1, <1>2, <1>4, NothingGained, LiveIs DEF FrameHolds
  <2>2. StillToRemove(stack, i, c)
    BY <1>2, <1>4, <2>1 DEF ManagerInv, DestroysGoOn
  <2>3. CASE c \in f.storages
    BY <2>3 DEF StillToRemove
  <2>4. CASE /\ i # Len(stack)
             /\ stack[i + 1].op = "removing"
             /\ stack[i + 1].entity = e
             /\ stack[i + 1].component = c
    <3>1. CASE i # Len(after) /\ after[i + 1] = stack[i + 1]
      BY <2>4, <3>1 DEF StillToRemove
    <3>2. CASE i + 1 = Len(stack) /\ (unsubscribeReturns \/ removeReturns)
      <4>1. Top.op = "removing" /\ Top.entity = h /\ Top.component = c
        BY <1>1, <1>2, <2>4, <3>2
      <4>2. removeReturns
        BY <3>2, <4>1 DEF unsubscribeReturns, Running
      <4>3. components' = [components EXCEPT ![c][h.slot] = NoOwner]
        BY <4>1, <4>2 DEF removeReturns
      <4>4. components'[c][h.slot] = NoOwner
        BY <1>1, <2>1, <4>3
      <4>5. QED
        BY <1>4, <4>4
    <3>3. QED
      BY <2>4, <3>1, <3>2
  <2>5. QED
    BY <2>2, <2>3, <2>4 DEF StillToRemove
<1>5. QED
  BY <1>2, <1>3, <1>4 DEF EndHolds

(* Frames that are not the destruction of an entity owe it nothing. *)
LEMMA EndsNothing ==
  ASSUME NEW frames, NEW i, frames[i].op \notin EndsEntity
  PROVE  EndHolds(frames, i)'
BY DEF EndHolds, EndsEntity

(* The frames below the innermost one, when it is replaced or left. *)
LEMMA BelowGoesOn ==
  ASSUME ManagerInv, HookScope = "others", [ManagerNext]_vars, stack # <<>>,
         NEW after, Len(after) \in Nat, Len(stack) - 1 <= Len(after),
         \A k \in 1 .. Len(stack) - 1 : after[k] = stack[k],
         \/ unsubscribeReturns \/ removeReturns
         \/ Top.op \notin {"unsubscribing", "removing"},
         NEW i \in 1 .. Len(stack) - 1
  PROVE  EndHolds(after, i)'
<1>1. /\ Len(stack) \in Nat \ {0} /\ Top = stack[Len(stack)]
      /\ i \in 1 .. Len(stack) /\ i # Len(stack) /\ after[i] = stack[i]
  BY StackTop DEF ManagerInv
<1>2. CASE i + 1 = Len(stack)
  BY <1>1, <1>2, EndsGoOn
<1>3. CASE i + 1 # Len(stack)
  <2>1. i + 1 \in 1 .. Len(stack) - 1 /\ i # Len(after)
    BY <1>1, <1>3
  <2>2. QED
    BY <1>1, <2>1, EndsGoOn
<1>4. QED
  BY <1>2, <1>3

LEMMA EndsTogether ==
  ASSUME NEW after, after = stack', \A i \in 1 .. Len(after) : EndHolds(after, i)'
  PROVE  DestroysGoOn'
BY DEF DestroysGoOn, EndHolds

LEMMA ReplacedGoesOn ==
  ASSUME ManagerInv, HookScope = "others", [ManagerNext]_vars, stack # <<>>,
         Top.op \in WholeEntity, NEW g \in Frame, stack' = Append(Below, g),
         NEW after, after = stack', NEW n, n = Len(stack), EndHolds(after, n)'
  PROVE  DestroysGoOn'
<1>1. /\ n \in Nat \ {0} /\ Len(after) = n
      /\ \A i \in 1 .. n - 1 : after[i] = stack[i]
      /\ \A i \in 1 .. n : i \in 1 .. n - 1 \/ i = n
  BY ReplacedFrames, StackTop DEF ManagerInv
<1>2. Top.op \notin {"unsubscribing", "removing"}
  BY DEF WholeEntity
<1>3. Len(after) \in Nat /\ Len(stack) - 1 <= Len(after)
  BY <1>1
<1>4. ASSUME NEW i \in 1 .. n - 1 PROVE EndHolds(after, i)'
  BY <1>1, <1>2, <1>3, <1>4, BelowGoesOn
<1>5. QED
  BY <1>1, <1>4, EndsTogether

LEMMA PushedGoesOn ==
  ASSUME ManagerInv, HookScope = "others", [ManagerNext]_vars, stack # <<>>,
         Top.op \in WholeEntity, NEW g \in Frame, NEW h \in Frame, h.op \notin EndsEntity,
         stack' = Append(Append(Below, g), h),
         NEW after, after = stack', NEW n, n = Len(stack), EndHolds(after, n)'
  PROVE  DestroysGoOn'
<1>1. /\ n \in Nat \ {0} /\ Len(after) = n + 1 /\ after[n + 1] = h
      /\ \A i \in 1 .. n - 1 : after[i] = stack[i]
      /\ \A i \in 1 .. n + 1 : i \in 1 .. n - 1 \/ i = n \/ i = n + 1
  BY PushedFrames, StackTop DEF ManagerInv
<1>2. Top.op \notin {"unsubscribing", "removing"}
  BY DEF WholeEntity
<1>3. Len(after) \in Nat /\ Len(stack) - 1 <= Len(after)
  BY <1>1
<1>4. ASSUME NEW i \in 1 .. n - 1 PROVE EndHolds(after, i)'
  BY <1>1, <1>2, <1>3, <1>4, BelowGoesOn
<1>5. EndHolds(after, n + 1)'
  BY <1>1, EndsNothing
<1>6. QED
  BY <1>1, <1>4, <1>5, EndsTogether

LEMMA CallsGoOn ==
  ASSUME ManagerInv, HookScope = "others", [ManagerNext]_vars,
         NEW rest, SameFrames(stack, rest), Calls(rest)
  PROVE  DestroysGoOn'
<1>1. /\ rest \in Seq(Frame) /\ Len(rest) = Len(stack) /\ stack \in Seq(Frame) /\ Len(stack) \in Nat
      /\ \A i \in 1 .. Len(stack) :
           rest[i] = stack[i] \/ (stack[i].op = "flushing" /\ rest[i].op = "flushing")
  BY LenProperties DEF SameFrames, ManagerInv, ManagerTypeOK
<1>2. ASSUME NEW after, Len(after) \in Nat, Len(stack) <= Len(after),
             \A i \in 1 .. Len(stack) : after[i] = rest[i],
             NEW i \in 1 .. Len(stack)
      PROVE  EndHolds(after, i)'
  <2>1. CASE after[i].op = "flushing"
    BY <2>1, EndsNothing DEF EndsEntity
  <2>2. CASE after[i] = stack[i] /\ i = Len(stack)
    BY <2>2, EndsGoOn
  <2>3. CASE after[i] = stack[i] /\ i # Len(stack)
    <3>1. i + 1 \in 1 .. Len(stack) /\ i # Len(after)
      BY <1>1, <1>2, <2>3
    <3>2. after[i + 1] = stack[i + 1] \/ stack[i + 1].op = "flushing"
      BY <1>1, <1>2, <3>1
    <3>3. QED
      BY <2>3, <3>1, <3>2, EndsGoOn
  <2>4. QED
    BY <1>1, <1>2, <2>1, <2>2, <2>3
<1>3. PICK after : after = stack'
  OBVIOUS
<1>4. CASE stack' = rest
  BY <1>1, <1>2, <1>3, <1>4, EndsTogether
<1>5. ASSUME NEW g \in Frame, Begins(g, rest) PROVE DestroysGoOn'
  <2>1. stack' = Append(rest, g) /\ (g.op \in Hooks \/ (g.op = "destroying" /\ g.managers = Managers))
    BY <1>5 DEF Begins
  <2>2. /\ Len(after) = Len(stack) + 1 /\ after[Len(stack) + 1] = g
        /\ \A i \in 1 .. Len(stack) : after[i] = rest[i]
    BY <1>1, <1>3, <2>1, Pushed
  <2>3. \A i \in 1 .. Len(after) : i \in 1 .. Len(stack) \/ i = Len(stack) + 1
    BY <1>1, <2>2
  <2>4. PICK n : n = Len(stack) + 1
    OBVIOUS
  <2>5. EndHolds(after, n)'
    <3>1. CASE g.op \in Hooks
      BY <2>2, <2>4, <3>1, EndsNothing DEF Hooks, EndsEntity
    <3>2. CASE g.op = "destroying" /\ g.managers = Managers
      <4>1. \A s \in Systems : StillToLeave(after, n, s)
        BY <2>2, <2>4, <3>2, OwnerManager DEF StillToLeave
      <4>2. QED
        BY <2>2, <2>4, <3>2, <4>1 DEF EndHolds
    <3>3. QED
      BY <2>1, <3>1, <3>2
  <2>6. ASSUME NEW i \in 1 .. Len(stack) PROVE EndHolds(after, i)'
    <3>1. Len(after) \in Nat /\ Len(stack) <= Len(after)
      BY <1>1, <2>2
    <3>2. QED
      BY <1>2, <2>2, <2>6, <3>1
  <2>7. QED
    BY <1>3, <2>3, <2>4, <2>5, <2>6, EndsTogether
<1>6. ASSUME NEW g \in Frame, NEW h \in Frame, BeginsRemoval(g, h, rest) PROVE DestroysGoOn'
  <2> DEFINE a == Append(rest, g)
  <2>1. stack' = Append(a, h) /\ g.op = "checking" /\ h.op = "removing"
    BY <1>1, <1>6, TwoPushed DEF BeginsRemoval
  <2>2. /\ Len(a) = Len(stack) + 1 /\ a[Len(stack) + 1] = g /\ a \in Seq(Frame)
        /\ \A i \in 1 .. Len(stack) : a[i] = rest[i]
    BY <1>1, Pushed
  <2> HIDE DEF a
  <2>3. /\ Len(after) = Len(a) + 1 /\ after[Len(a) + 1] = h
        /\ \A i \in 1 .. Len(a) : after[i] = a[i]
    BY <1>3, <2>1, <2>2, Pushed
  <2>4. /\ \A i \in 1 .. Len(after) :
             \/ i \in 1 .. Len(stack)
             \/ i = Len(stack) + 1 /\ i \in 1 .. Len(a)
             \/ i = Len(a) + 1
        /\ \A i \in 1 .. Len(stack) : i \in 1 .. Len(a)
    BY <1>1, <2>2, <2>3
  <2>5. \A i \in 1 .. Len(stack) : after[i] = rest[i]
    BY <2>2, <2>3, <2>4
  <2>6. ASSUME NEW i \in 1 .. Len(stack) PROVE EndHolds(after, i)'
    <3>1. Len(after) \in Nat /\ Len(stack) <= Len(after)
      BY <1>1, <2>2, <2>3
    <3>2. QED
      BY <1>2, <2>5, <2>6, <3>1
  <2>7. ASSUME NEW i \in 1 .. Len(after), ~(i \in 1 .. Len(stack)) PROVE EndHolds(after, i)'
    <3>1. after[i] = g \/ after[i] = h
      BY <2>2, <2>3, <2>4, <2>7
    <3>2. QED
      BY <2>1, <3>1, EndsNothing DEF EndsEntity
  <2>8. QED
    BY <1>3, <2>6, <2>7, EndsTogether
<1>7. QED
  BY <1>4, <1>5, <1>6 DEF Calls, Adds

LEMMA DestroysNextGoOn ==
  ASSUME ManagerInv, HookScope = "others", [ManagerNext]_vars
  PROVE  DestroysGoOn'
<1>1. /\ \A f \in CheckFrame : f \in Frame /\ f.op = "checking"
      /\ \A f \in DestroyFrame : f \in Frame /\ f.op = "destroying"
      /\ \A f \in ClearFrame : f \in Frame /\ f.op = "clearing"
      /\ \A f \in RemovalFrame : f \in Frame /\ f.op = "removing"
      /\ \A f \in SubscriptionFrame : f \in Frame
  BY DEF Frame, CheckFrame, DestroyFrame, ClearFrame, RemovalFrame, SubscriptionFrame
<1>2. ManagerTypeOK
  BY DEF ManagerInv
<1>3. PICK after, n : after = stack' /\ n = Len(stack)
  OBVIOUS
<1>4. ASSUME stack # <<>>, stack' = Below,
             \/ unsubscribeReturns \/ removeReturns
             \/ Top.op \notin {"unsubscribing", "removing"}
      PROVE  DestroysGoOn'
  <2>1. /\ Len(after) = Len(stack) - 1 /\ Len(stack) \in Nat \ {0}
        /\ \A i \in 1 .. Len(stack) - 1 : after[i] = stack[i]
    BY <1>2, <1>3, <1>4, StackTop
  <2>2. Len(after) \in Nat /\ Len(stack) - 1 <= Len(after)
    BY <2>1
  <2>3. ASSUME NEW i \in 1 .. Len(after) PROVE EndHolds(after, i)'
    BY <1>4, <2>1, <2>2, <2>3, BelowGoesOn
  <2>4. QED
    BY <1>3, <2>3, EndsTogether
<1>5. ASSUME stack # <<>>, Top.op \in WholeEntity, NEW g \in CheckFrame,
             stack' = Append(Below, g)
      PROVE  DestroysGoOn'
  <2>1. after[n] = g /\ g.op \notin EndsEntity
    BY <1>1, <1>2, <1>3, <1>5, ReplacedFrames DEF EndsEntity
  <2>2. EndHolds(after, n)'
    BY <2>1, EndsNothing
  <2>3. QED
    BY <1>1, <1>3, <1>5, <2>2, ReplacedGoesOn
<1>6. CASE CreateCall
  <2>1. stack' = stack
    BY <1>6 DEF CreateCall, managerVars
  <2>2. ASSUME NEW i \in 1 .. Len(after) PROVE EndHolds(after, i)'
    BY <1>3, <2>1, <2>2, EndsGoOn
  <2>3. QED
    BY <1>3, <2>2, EndsTogether
<1>7. CASE OnlyFlush(stack')
  BY <1>7 DEF OnlyFlush, DestroysGoOn
<1>8. CASE subscribeInternalReturns \/ unsubscribeReturns \/ removeReturns \/ checkReturns
             \/ destroyFreesSlot
  BY <1>4, <1>8 DEF subscribeInternalReturns, unsubscribeReturns, removeReturns, checkReturns,
     destroyFreesSlot, Running
<1>9. CASE checkNextManager
  BY <1>1, <1>5, <1>9, ChecksNext DEF WholeEntity
<1>10. CASE checkFindsUnfit
  BY <1>1, <1>5, <1>10, ChecksUnfit DEF WholeEntity
<1>11. CASE checkUnsubscribes
  BY <1>1, <1>5, <1>11, ChecksErase DEF WholeEntity
<1>12. CASE checkManagerDone
  BY <1>1, <1>5, <1>12, ChecksDone DEF WholeEntity
<1>13. ASSUME stack # <<>>, Top \in DestroyFrame
       PROVE  \A s \in Systems : Lists(Top.entity, s) =>
                \/ ManagerOf[s] \in Top.managers
                \/ \E k \in 1 .. Len(Top.pending) : Top.pending[k] = s
  BY <1>1, <1>2, <1>13, StackTop DEF ManagerInv, DestroysGoOn, StillToLeave
<1>14. ASSUME stack # <<>>, Top \in ClearFrame
       PROVE  \A c \in Components : components[c][Top.entity.slot] # NoOwner => c \in Top.storages
  BY <1>1, <1>2, <1>14, StackTop DEF ManagerInv, DestroysGoOn, StillToRemove
<1>15. ASSUME WorldUnchanged
       PROVE  /\ \A e, s : Lists(e, s)' <=> Lists(e, s)
              /\ components' = components
  BY <1>15 DEF WorldUnchanged, Lists, SystemsOf
<1>16. CASE destroyNextManager
  <2>1. PICK m \in Top.managers, g \in DestroyFrame :
          /\ g.entity = Top.entity /\ g.managers = Top.managers \ {m}
          /\ g.pending = SystemsOf(Top.entity, m)
          /\ stack' = Append(Below, g)
    BY <1>16, DestroysNext
  <2>2. stack # <<>> /\ Top \in DestroyFrame /\ Top.pending = <<>> /\ WorldUnchanged
    BY <1>16, DestroysNext
  <2>3. after[n] = g /\ g \in Frame /\ g.op = "destroying"
    BY <1>1, <1>2, <1>3, <2>1, <2>2, ReplacedFrames
  <2>4. ASSUME NEW s \in Systems, Lists(g.entity, s) PROVE StillToLeave(after, n, s)
    <3>1. ManagerOf[s] \in Top.managers
      BY <1>13, <2>1, <2>2, <2>4
    <3>2. ManagerOf[s] = m => \E k \in 1 .. Len(g.pending) : g.pending[k] = s
      BY <2>1, <2>4 DEF Lists, Contains
    <3>3. QED
      BY <2>1, <2>3, <3>1, <3>2 DEF StillToLeave
  <2>5. EndHolds(after, n)'
    BY <1>15, <2>2, <2>3, <2>4 DEF EndHolds
  <2>6. QED
    BY <1>1, <1>3, <2>1, <2>2, <2>3, <2>5, ReplacedGoesOn DEF WholeEntity
<1>17. CASE destroyUnsubscribes
  <2>1. /\ stack # <<>> /\ Top \in DestroyFrame /\ WorldUnchanged
        /\ Len(Top.pending) \in Nat \ {0}
    BY <1>17, DestroysPending
  <2>2. PICK g \in DestroyFrame :
          /\ g.entity = Top.entity /\ g.managers = Top.managers
          /\ Len(g.pending) = Len(Top.pending) - 1
          /\ \A i \in 1 .. Len(g.pending) : g.pending[i] = Top.pending[i + 1]
          /\ \/ ~Lists(Top.entity, Top.pending[1]) /\ stack' = Append(Below, g)
             \/ \E h \in SubscriptionFrame :
                  /\ h.op = "unsubscribing" /\ h.entity = Top.entity
                  /\ h.system = Top.pending[1]
                  /\ Lists(Top.entity, Top.pending[1])
                  /\ stack' = Append(Append(Below, g), h)
    BY <1>17, DestroysPending
  <2>3. g \in Frame /\ g.op = "destroying" /\ Top.op \in WholeEntity
    BY <1>1, <2>1 DEF WholeEntity
  <2>4. ASSUME NEW s \in Systems, Lists(g.entity, s)
        PROVE  \/ ManagerOf[s] \in g.managers
               \/ \E k \in 1 .. Len(g.pending) : g.pending[k] = s
               \/ s = Top.pending[1]
    <3>1. CASE ManagerOf[s] \in Top.managers
      BY <2>2, <3>1
    <3>2. ASSUME NEW k \in 1 .. Len(Top.pending), Top.pending[k] = s, k # 1
          PROVE  \E j \in 1 .. Len(g.pending) : g.pending[j] = s
      <4>1. k - 1 \in 1 .. Len(g.pending) /\ k - 1 + 1 = k
        BY <2>1, <2>2, <3>2
      <4>2. g.pending[k - 1] = s
        BY <2>2, <3>2, <4>1
      <4>3. QED
        BY <4>1, <4>2
    <3>3. QED
      BY <1>13, <2>1, <2>2, <2>4, <3>1, <3>2
  <2>5. CASE ~Lists(Top.entity, Top.pending[1]) /\ stack' = Append(Below, g)
    <3>1. after[n] = g
      BY <1>2, <1>3, <2>1, <2>3, <2>5, ReplacedFrames
    <3>2. ASSUME NEW s \in Systems, Lists(g.entity, s) PROVE StillToLeave(after, n, s)
      BY <2>2, <2>4, <2>5, <3>1, <3>2 DEF StillToLeave
    <3>3. EndHolds(after, n)'
      BY <1>15, <2>1, <2>3, <3>1, <3>2 DEF EndHolds
    <3>4. QED
      BY <1>3, <2>1, <2>3, <2>5, <3>3, ReplacedGoesOn
  <2>6. ASSUME NEW h \in SubscriptionFrame,
               h.op = "unsubscribing" /\ h.entity = Top.entity /\ h.system = Top.pending[1],
               stack' = Append(Append(Below, g), h)
        PROVE  DestroysGoOn'
    <3>1. h \in Frame /\ h.op \notin EndsEntity
      BY <1>1, <2>6 DEF EndsEntity
    <3>2. after[n] = g /\ after[n + 1] = h /\ Len(after) = n + 1 /\ n \in Nat
      BY <1>2, <1>3, <2>1, <2>3, <2>6, <3>1, PushedFrames, StackTop
    <3>3. n # Len(after)
      BY <3>2
    <3>4. ASSUME NEW s \in Systems, Lists(g.entity, s) PROVE StillToLeave(after, n, s)
      BY <2>2, <2>4, <2>6, <3>2, <3>3, <3>4 DEF StillToLeave
    <3>5. EndHolds(after, n)'
      BY <1>15, <2>1, <2>3, <3>2, <3>4 DEF EndHolds
    <3>6. QED
      BY <1>3, <2>1, <2>3, <2>6, <3>1, <3>5, PushedGoesOn
  <2>7. QED
    BY <2>2, <2>5, <2>6
<1>18. CASE destroyLeftSystems
  <2>1. PICK g \in ClearFrame :
          g.entity = Top.entity /\ g.storages = Components /\ stack' = Append(Below, g)
    BY <1>18, DestroysLeft
  <2>2. stack # <<>> /\ Top \in DestroyFrame
    BY <1>18, DestroysLeft
  <2>3. after[n] = g /\ g \in Frame /\ g.op = "clearing"
    BY <1>1, <1>2, <1>3, <2>1, <2>2, ReplacedFrames
  <2>4. EndHolds(after, n)'
    BY <2>1, <2>3 DEF EndHolds, StillToRemove
  <2>5. QED
    BY <1>1, <1>3, <2>1, <2>2, <2>3, <2>4, ReplacedGoesOn DEF WholeEntity
<1>19. CASE removeEntityCallback
  <2>1. stack # <<>> /\ Top \in ClearFrame /\ WorldUnchanged
    BY <1>19, ClearsNext
  <2>2. PICK c \in Top.storages, g \in ClearFrame :
          /\ g.entity = Top.entity /\ g.storages = Top.storages \ {c}
          /\ \/ components[c][Top.entity.slot] = NoOwner /\ stack' = Append(Below, g)
             \/ \E h \in RemovalFrame :
                  /\ h.entity = Top.entity /\ h.component = c
                  /\ stack' = Append(Append(Below, g), h)
    BY <1>19, ClearsNext
  <2>3. g \in Frame /\ g.op = "clearing" /\ Top.op \in WholeEntity
    BY <1>1, <2>1 DEF WholeEntity
  <2>4. \A d \in Components : components[d][g.entity.slot] # NoOwner => d \in g.storages \/ d = c
    BY <1>14, <2>1, <2>2
  <2>5. CASE components[c][Top.entity.slot] = NoOwner /\ stack' = Append(Below, g)
    <3>1. after[n] = g
      BY <1>2, <1>3, <2>1, <2>3, <2>5, ReplacedFrames
    <3>2. EndHolds(after, n)'
      BY <1>15, <2>1, <2>2, <2>3, <2>4, <2>5, <3>1 DEF EndHolds, StillToRemove
    <3>3. QED
      BY <1>3, <2>1, <2>3, <2>5, <3>2, ReplacedGoesOn
  <2>6. ASSUME NEW h \in RemovalFrame, h.entity = Top.entity, h.component = c,
               stack' = Append(Append(Below, g), h)
        PROVE  DestroysGoOn'
    <3>1. h \in Frame /\ h.op = "removing" /\ h.op \notin EndsEntity
      BY <1>1, <2>6 DEF EndsEntity
    <3>2. after[n] = g /\ after[n + 1] = h /\ Len(after) = n + 1 /\ n \in Nat
      BY <1>2, <1>3, <2>1, <2>3, <2>6, <3>1, PushedFrames, StackTop
    <3>3. n # Len(after)
      BY <3>2
    <3>4. EndHolds(after, n)'
      BY <1>15, <2>1, <2>2, <2>3, <2>4, <2>6, <3>1, <3>2, <3>3 DEF EndHolds, StillToRemove
    <3>5. QED
      BY <1>3, <2>1, <2>3, <2>6, <3>1, <3>4, PushedGoesOn
  <2>7. QED
    BY <2>2, <2>5, <2>6
<1>20. QED
  BY <1>6, <1>7, <1>8, <1>9, <1>10, <1>11, <1>12, <1>16, <1>17, <1>18, <1>19, CallsGoOn, Steps

-----------------------------------------------------------------------------
(* A subscribed entity has what its systems require, or is still checked. *)

(* Calls leave the operations under way on the stack. *)
LEMMA CallsKeep ==
  ASSUME ManagerInv, NEW rest, SameFrames(stack, rest), Calls(rest),
         NEW i \in 1 .. Len(stack), stack[i].op # "flushing"
  PROVE  i \in 1 .. Len(stack') /\ stack'[i] = stack[i]
<1>1. /\ rest \in Seq(Frame) /\ Len(rest) = Len(stack) /\ Len(stack) \in Nat /\ rest[i] = stack[i]
  BY EachFrame DEF SameFrames, ManagerInv
<1>2. CASE stack' = rest
  BY <1>1, <1>2
<1>3. ASSUME NEW g \in Frame, stack' = Append(rest, g)
      PROVE  i \in 1 .. Len(stack') /\ stack'[i] = stack[i]
  <2>1. Len(stack') = Len(stack) + 1 /\ \A k \in 1 .. Len(stack) : stack'[k] = rest[k]
    BY <1>1, <1>3, Pushed
  <2>2. i \in 1 .. Len(stack')
    BY <1>1, <2>1
  <2>3. QED
    BY <1>1, <2>1, <2>2
<1>4. ASSUME NEW g \in Frame, NEW h \in Frame, stack' = rest \o <<g, h>>
      PROVE  i \in 1 .. Len(stack') /\ stack'[i] = stack[i]
  <2> DEFINE a == Append(rest, g)
  <2>1. stack' = Append(a, h)
    BY <1>1, <1>4, TwoPushed
  <2>2. /\ Len(a) = Len(stack) + 1 /\ a \in Seq(Frame)
        /\ \A k \in 1 .. Len(stack) : a[k] = rest[k]
    BY <1>1, Pushed
  <2> HIDE DEF a
  <2>3. /\ Len(Append(a, h)) = Len(a) + 1
        /\ \A k \in 1 .. Len(a) : Append(a, h)[k] = a[k]
    BY <2>2, Pushed
  <2>4. i \in 1 .. Len(a) /\ i \in 1 .. Len(a) + 1
    BY <1>1, <2>2
  <2>5. QED
    BY <1>1, <2>1, <2>2, <2>3, <2>4
<1>5. QED
  BY <1>2, <1>3, <1>4 DEF Calls, Adds, Begins, BeginsRemoval

(* Only the innermost operation is left or goes on. *)
LEMMA BelowStays ==
  ASSUME ManagerInv, HookScope = "others", [ManagerNext]_vars, NEW i \in 1 .. Len(stack),
         i # Len(stack), stack[i].op # "flushing"
  PROVE  i \in 1 .. Len(stack') /\ stack'[i] = stack[i]
<1>1. /\ stack # <<>> /\ Len(stack) \in Nat \ {0} /\ i \in 1 .. Len(stack) - 1
      /\ Len(Below) = Len(stack) - 1
      /\ \A k \in 1 .. Len(stack) - 1 : Below[k] = stack[k]
      /\ ManagerTypeOK
  BY EachFrame, StackTop DEF ManagerInv
<1>2. ASSUME stack' = Below PROVE i \in 1 .. Len(stack') /\ stack'[i] = stack[i]
  BY <1>1, <1>2
<1>3. ASSUME NEW g \in Frame, stack' = Append(Below, g)
      PROVE  i \in 1 .. Len(stack') /\ stack'[i] = stack[i]
  BY <1>1, <1>3, ReplacedFrames
<1>4. ASSUME NEW g \in Frame, NEW h \in Frame, stack' = Append(Append(Below, g), h)
      PROVE  i \in 1 .. Len(stack') /\ stack'[i] = stack[i]
  BY <1>1, <1>4, PushedFrames
<1>5. /\ CheckFrame \subseteq Frame /\ DestroyFrame \subseteq Frame /\ ClearFrame \subseteq Frame
      /\ RemovalFrame \subseteq Frame /\ SubscriptionFrame \subseteq Frame
  BY DEF Frame
<1>6. ASSUME NEW rest, SameFrames(stack, rest), Calls(rest)
      PROVE  i \in 1 .. Len(stack') /\ stack'[i] = stack[i]
  BY <1>6, CallsKeep
<1>7. CASE CreateCall
  BY <1>7 DEF CreateCall, managerVars
<1>8. CASE OnlyFlush(stack)
  BY <1>8 DEF OnlyFlush
<1>9. CASE subscribeInternalReturns \/ unsubscribeReturns \/ removeReturns \/ checkReturns
             \/ destroyFreesSlot
  BY <1>2, <1>9 DEF subscribeInternalReturns, unsubscribeReturns, removeReturns, checkReturns,
     destroyFreesSlot
<1>10. CASE checkNextManager \/ checkFindsUnfit \/ checkUnsubscribes \/ checkManagerDone
  BY <1>3, <1>5, <1>10, ChecksNext, ChecksUnfit, ChecksErase, ChecksDone
<1>11. CASE destroyNextManager \/ destroyLeftSystems
  BY <1>3, <1>5, <1>11, DestroysNext, DestroysLeft
<1>12. CASE destroyUnsubscribes \/ removeEntityCallback
  BY <1>3, <1>4, <1>5, <1>12, DestroysPending, ClearsNext
<1>13. QED
  BY <1>6, <1>7, <1>8, <1>9, <1>10, <1>11, <1>12, Steps

LEMMA FitOrChecked ==
  ASSUME ManagerInv, NEW h \in Handle, NEW s \in Systems, Lists(h, s)
  PROVE  /\ h \in LiveHandles
         /\ \/ shouldProcessEntity(s, h)
            \/ \E i \in 1 .. Len(stack) : StillToCheck(stack[i], h, s)
<1>1. h \in LiveHandles /\ h.slot \in subscribed[s]
  BY DEF ManagerInv, SubscriptionsMirrored
<1>2. h = HandleOf(h.slot)
  BY <1>1, LiveIs DEF ManagerInv
<1>3. \A x : x = HandleOf(h.slot) =>
        \/ shouldProcessEntity(s, x)
        \/ \E i \in 1 .. Len(stack) : StillToCheck(stack[i], x, s)
  BY <1>1 DEF ManagerInv, SubscribedHaveRequired
<1>4. QED
  BY <1>1, <1>2, <1>3

(* A walk that stays under way still checks what it was to check. *)
LEMMA CheckKept ==
  ASSUME ManagerInv, HookScope = "others", [ManagerNext]_vars,
         NEW f \in Frame, NEW h \in Handle, NEW s \in Systems, StillToCheck(f, h, s),
         Spares(f) \/ WorldUnchanged
  PROVE  StillToCheck(f, h, s)'
<1>1. f.op = "checking" /\ f.entity = h /\ ManagerOf[s] \in Managers
  BY OwnerManager DEF StillToCheck
<1>2. CASE ManagerOf[s] \in f.managers
  BY <1>1, <1>2 DEF StillToCheck
<1>3. CASE /\ f.manager = ManagerOf[s]
           /\ \E i \in f.at .. Len(SystemsOf(h, f.manager)) : SystemsOf(h, f.manager)[i] = s
  <2>1. f.manager \in Managers /\ f.manager # NoManager
    BY <1>1, <1>3, ManagerAssumptions
  <2>2. SystemsOf(h, f.manager)' = SystemsOf(h, f.manager)
    <3>1. CASE Spares(f)
      BY <1>1, <2>1, <3>1, KeepsLists DEF Spares
    <3>2. CASE WorldUnchanged
      BY <3>2 DEF WorldUnchanged, SystemsOf
    <3>3. QED
      BY <3>1, <3>2
  <2>3. QED
    BY <1>1, <1>3, <2>2 DEF StillToCheck
<1>4. QED
  BY <1>2, <1>3 DEF StillToCheck

(* What the walk does with the systems it is still to check. *)
LEMMA WalkChecks ==
  ASSUME ManagerInv, HookScope = "others", [ManagerNext]_vars,
         \/ checkNextManager \/ checkFindsUnfit \/ checkUnsubscribes
         \/ checkManagerDone \/ checkReturns,
         NEW h \in Handle, NEW s \in Systems, Lists(h, s), Lists(h, s)',
         StillToCheck(Top, h, s)
  PROVE  \/ shouldProcessEntity(s, h) /\ WorldUnchanged
         \/ \E g \in CheckFrame : stack' = Append(Below, g) /\ StillToCheck(g, h, s)'
<1> DEFINE m == ManagerOf[s]
           list == SystemsOf(h, m)
<1>1. /\ Top.entity = h /\ m \in Managers /\ m # NoManager
      /\ \/ m \in Top.managers
         \/ Top.manager = m /\ \E i \in Top.at .. Len(list) : list[i] = s
  BY OwnerManager, ManagerAssumptions DEF StillToCheck
<1>2. list \in Seq(Systems) /\ Len(list) \in Nat
  BY <1>1, ListsType DEF ManagerInv
<1>3. \A f \in CheckFrame : f.op = "checking" /\ f.at \in Nat
  BY DEF CheckFrame
<1>4. WorldUnchanged => list' = list
  BY DEF WorldUnchanged, SystemsOf
<1>5. CASE checkNextManager
  <2>1. PICK k \in Top.managers, g \in CheckFrame :
          /\ g.entity = Top.entity /\ g.managers = Top.managers \ {k} /\ g.manager = k
          /\ g.at = 1 /\ stack' = Append(Below, g)
    BY <1>5, ChecksNext
  <2>2. Top.manager = NoManager /\ WorldUnchanged
    BY <1>5, ChecksNext
  <2>3. m \in Top.managers
    BY <1>1, <2>2
  <2>4. \E i \in 1 .. Len(list') : list'[i] = s
    BY <1>4, <2>2 DEF Lists, Contains
  <2>5. StillToCheck(g, h, s)'
    BY <1>1, <1>3, <2>1, <2>3, <2>4 DEF StillToCheck
  <2>6. QED
    BY <2>1, <2>5
<1>6. CASE checkFindsUnfit
  <2>1. PICK g \in CheckFrame :
          /\ g.entity = Top.entity /\ g.managers = Top.managers /\ g.manager = Top.manager
          /\ g.at \in Unfit(Top) /\ (\A i \in Unfit(Top) : g.at <= i)
          /\ stack' = Append(Below, g)
    BY <1>6, ChecksUnfit
  <2>2. WorldUnchanged /\ Top \in CheckFrame
    BY <1>6, ChecksUnfit
  <2>3. CASE m \in Top.managers
    BY <1>1, <1>3, <2>1, <2>3 DEF StillToCheck
  <2>4. ASSUME Top.manager = m, NEW i \in Top.at .. Len(list), list[i] = s,
               ~shouldProcessEntity(s, h)
        PROVE  StillToCheck(g, h, s)'
    <3>1. i \in Unfit(Top)
      BY <1>1, <2>4 DEF Unfit
    <3>2. i \in g.at .. Len(list)
      BY <1>2, <1>3, <2>1, <2>2, <2>4, <3>1
    <3>3. QED
      BY <1>1, <1>3, <1>4, <2>1, <2>2, <2>4, <3>2 DEF StillToCheck
  <2>5. QED
    BY <1>1, <2>1, <2>2, <2>3, <2>4
<1>7. CASE checkUnsubscribes
  <2>1. PICK g \in CheckFrame :
          /\ g.entity = Top.entity /\ g.managers = Top.managers /\ g.manager = Top.manager
          /\ g.at = Top.at /\ stack' = Append(Below, g)
    BY <1>7, ChecksErase
  <2>2. CASE m \in Top.managers
    BY <1>1, <1>3, <2>1, <2>2 DEF StillToCheck
  <2>3. ASSUME Top.manager = m, NEW i \in Top.at .. Len(list), list[i] = s
        PROVE  StillToCheck(g, h, s)'
    <3> DEFINE at == Top.at
               r == list[at]
    <3>1. Leaves(h, r, at) /\ ManagerOf[r] = m
      BY <1>1, <1>7, <2>3, Erases
    <3>2. at \in 1 .. Len(list)
      BY <1>1, <1>7, <2>3, ChecksErase
    <3>3. list' = RemoveAt(list, at)
      BY <1>1, <3>1 DEF Leaves, ListBecomes, SystemsOf
    <3>4. s # r
      BY <3>1, ListsLeave
    <3>5. i # at
      BY <2>3, <3>4
    <3>6. /\ i - 1 \in at .. Len(list) - 1 /\ i - 1 \in 1 .. Len(list) - 1
          /\ ~(i - 1 < at) /\ i - 1 + 1 = i
      BY <1>2, <2>3, <3>2, <3>5
    <3> HIDE DEF list
    <3>7. /\ Len(list') = Len(list) - 1
          /\ \A j \in 1 .. Len(list) - 1 : list'[j] = IF j < at THEN list[j] ELSE list[j + 1]
      BY <1>2, <3>2, <3>3, Removed
    <3>8. list'[i - 1] = s /\ i - 1 \in g.at .. Len(list')
      BY <2>1, <2>3, <3>6, <3>7
    <3>9. \E j \in g.at .. Len(list') : list'[j] = s
      BY <3>8
    <3>10. QED
      BY <1>1, <1>3, <2>1, <2>3, <3>9 DEF StillToCheck, list
  <2>4. QED
    BY <1>1, <2>1, <2>2, <2>3
<1>8. CASE checkManagerDone
  <2>1. PICK g \in CheckFrame :
          g.entity = Top.entity /\ g.managers = Top.managers /\ stack' = Append(Below, g)
    BY <1>8, ChecksDone
  <2>2. WorldUnchanged /\ Unfit(Top) = {}
    BY <1>8, ChecksDone
  <2>3. CASE m \in Top.managers
    BY <1>1, <1>3, <2>1, <2>3 DEF StillToCheck
  <2>4. ASSUME Top.manager = m, NEW i \in Top.at .. Len(list), list[i] = s
        PROVE  shouldProcessEntity(s, h)
    BY <1>1, <2>2, <2>4 DEF Unfit
  <2>5. QED
    BY <1>1, <2>1, <2>2, <2>3, <2>4
<1>9. CASE checkReturns
  BY <1>1, <1>9 DEF checkReturns
<1>10. QED
  BY <1>5, <1>6, <1>7, <1>8, <1>9

LEMMA RequiredNext ==
  ASSUME ManagerInv, HookScope = "others", [ManagerNext]_vars
  PROVE  SubscribedHaveRequired'
<1> DEFINE Covered(h, s) ==
             \/ shouldProcessEntity(s, h)
             \/ \E i \in 1 .. Len(stack) : StillToCheck(stack[i], h, s)
<1>1. ManagerTypeOK
  BY DEF ManagerInv
<1>2. ASSUME NEW h \in Handle, NEW s \in Systems, h \in LiveHandles', Lists(h, s)'
      PROVE  Covered(h, s)'
  <2>1. PICK after : after = stack'
    OBVIOUS
  <2>2. SUFFICES ASSUME ~shouldProcessEntity(s, h)'
        PROVE  \E j \in 1 .. Len(after) : StillToCheck(after[j], h, s)'
    BY <2>1
  <2>3. ~Freed(h)
    BY <1>2, Lives DEF Freed
  <2>4. ~Joined(h, s)
    <3>1. SUFFICES ASSUME Joined(h, s) PROVE FALSE
      OBVIOUS
    <3>2. shouldProcessEntity(s, h) /\ h \in LiveHandles /\ Running("subscribing")
      BY <3>1 DEF Joined, SubscriptionOf
    <3>3. \A c \in Components : ~Emptied(h, c)
      BY <3>2 DEF Emptied, Running
    <3>4. QED
      BY <2>2, <2>3, <3>2, <3>3, KeepsFit
  <2>5. Lists(h, s)
    BY <1>2, <2>4, ListsChange
  <2>6. /\ h \in LiveHandles
        /\ shouldProcessEntity(s, h) \/ \E i \in 1 .. Len(stack) : StillToCheck(stack[i], h, s)
    BY <2>5, FitOrChecked
  <2>7. ASSUME NEW i \in 1 .. Len(stack), StillToCheck(stack[i], h, s),
               Spares(stack[i]) \/ WorldUnchanged,
               i \in 1 .. Len(after), after[i] = stack[i]
        PROVE  \E j \in 1 .. Len(after) : StillToCheck(after[j], h, s)'
    <3>1. PICK f \in Frame : f = stack[i]
      BY <1>1, EachFrame
    <3>2. StillToCheck(f, h, s)'
      BY <2>7, <3>1, CheckKept
    <3>3. after[i] = f
      BY <2>7, <3>1
    <3>4. QED
      BY <2>7, <3>2, <3>3
  <2>8. ASSUME NEW i \in 1 .. Len(stack), i # Len(stack), StillToCheck(stack[i], h, s)
        PROVE  \E j \in 1 .. Len(after) : StillToCheck(after[j], h, s)'
    <3>1. stack[i].op # "flushing" /\ i < Len(stack)
      BY <1>1, <2>8, EachFrame DEF StillToCheck
    <3>2. QED
      BY <2>1, <2>7, <2>8, <3>1, BelowStays, InsideSpares
  <2>9. ASSUME NEW c \in Components, Emptied(h, c)
        PROVE  \E j \in 1 .. Len(after) : StillToCheck(after[j], h, s)'
    <3> DEFINE k == Len(stack) - 1
    <3>1. stack # <<>> /\ Top.op = "removing" /\ Top.entity = h
      BY <2>9 DEF Emptied, Running
    <3>2. Len(stack) \in Nat \ {0} /\ Top = stack[Len(stack)] /\ Len(stack) \in 1 .. Len(stack)
      BY <1>1, <3>1, StackTop
    <3>3. Len(stack) # 1 /\ RemovedBy(stack[k], Top)
      BY <3>1, <3>2 DEF ManagerInv, Destructors
    <3>4. k \in 1 .. Len(stack) /\ k # Len(stack)
      <4>1. \A n \in Nat \ {0} : n # 1 => n - 1 \in 1 .. n /\ n - 1 # n
        OBVIOUS
      <4>2. QED
        BY <3>2, <3>3, <4>1, Zenon
    <3>5. stack[k].entity = h /\ FrameHolds(stack[k])
      BY <3>1, <3>3, <3>4 DEF RemovedBy, ManagerInv, FramesHold
    <3>6. stack[k].op = "checking" /\ stack[k].managers = Managers
      BY <2>5, <3>3, <3>5 DEF RemovedBy, FrameHolds
    <3>7. StillToCheck(stack[k], h, s)
      BY <3>5, <3>6, OwnerManager DEF StillToCheck
    <3>8. QED
      BY <2>8, <3>4, <3>7
  <2>10. shouldProcessEntity(s, h) => \E c \in Components : Emptied(h, c)
    BY <2>2, <2>3, <2>6, KeepsFit
  <2>11. SUFFICES ASSUME ~shouldProcessEntity(s, h),
                         NEW i \in 1 .. Len(stack), StillToCheck(stack[i], h, s), i = Len(stack)
         PROVE  \E j \in 1 .. Len(after) : StillToCheck(after[j], h, s)'
    BY <2>6, <2>8, <2>9, <2>10
  <2>12. stack # <<>> /\ Top = stack[i] /\ Top.op = "checking" /\ Top \in Frame
    BY <1>1, <2>11, EachFrame, StackTop DEF StillToCheck
  <2>13. ASSUME NEW rest, SameFrames(stack, rest), Calls(rest)
         PROVE  \E j \in 1 .. Len(after) : StillToCheck(after[j], h, s)'
    <3>1. i \in 1 .. Len(after) /\ after[i] = stack[i]
      BY <2>1, <2>12, <2>13, CallsKeep
    <3>2. WorldUnchanged \/ Spares(stack[i])
      <4>1. ASSUME NEW e \in LiveHandles, NEW c \in Components, Adds(e, c, rest)
            PROVE  Added(e, c)
        BY <2>13, <4>1 DEF Adds, Added
      <4>2. QED
        BY <2>13, <4>1, GrowthSpares DEF Calls, Begins, BeginsRemoval
    <3>3. QED
      BY <2>7, <2>11, <3>1, <3>2
  <2>14. CASE CreateCall
    <3>1. stack' = stack
      BY <2>14 DEF CreateCall, managerVars
    <3>2. QED
      BY <2>1, <2>7, <2>11, <2>14, <3>1, CallCreates, GrowthSpares
  <2>15. CASE checkNextManager \/ checkFindsUnfit \/ checkUnsubscribes
                \/ checkManagerDone \/ checkReturns
    <3>1. \E g \in CheckFrame : stack' = Append(Below, g) /\ StillToCheck(g, h, s)'
      BY <1>2, <2>5, <2>11, <2>12, <2>15, WalkChecks
    <3>2. PICK g \in CheckFrame : stack' = Append(Below, g) /\ StillToCheck(g, h, s)'
      BY <3>1
    <3>3. g \in Frame
      BY DEF Frame
    <3>4. Len(after) = Len(stack) /\ after[Len(stack)] = g
      BY <1>1, <2>1, <2>12, <3>2, <3>3, ReplacedFrames
    <3>5. i \in 1 .. Len(after) /\ after[i] = g
      BY <2>11, <3>4
    <3>6. QED
      BY <3>2, <3>5
  <2>16. CASE OnlyFlush(stack)
    BY <2>11, <2>12, <2>16 DEF OnlyFlush
  <2>17. CASE subscribeInternalReturns \/ unsubscribeReturns \/ removeReturns
                \/ destroyNextManager \/ destroyUnsubscribes \/ destroyLeftSystems
                \/ removeEntityCallback \/ destroyFreesSlot
    BY <2>12, <2>17 DEF subscribeInternalReturns, unsubscribeReturns, removeReturns,
       destroyNextManager, destroyUnsubscribes, destroyLeftSystems, removeEntityCallback,
       destroyFreesSlot, Running
  <2>18. QED
    BY <2>13, <2>14, <2>15, <2>16, <2>17, Steps
<1>3. ManagerTypeOK' /\ SubscriptionsMirrored'
  BY ManagerTypesNext, MirroredNext
<1>4. ASSUME NEW s \in Systems, NEW slot \in subscribed'[s]
      PROVE  \E h \in Handle :
               h = HandleOf(slot)' /\ h \in LiveHandles' /\ Lists(h, s)'
  <2>1. slot \in aliveSlots' /\ slot \in Slot /\ generations' \in [Slot -> 0 .. MaxGeneration]
    BY <1>3, <1>4 DEF SubscriptionsMirrored, ManagerTypeOK, EntityTypeOK
  <2>2. PICK h : h = HandleOf(slot)'
    OBVIOUS
  <2>3. h \in LiveHandles' /\ h.slot = slot /\ h \in Handle
    BY <2>1, <2>2, EntityBounds DEF LiveHandles, HandleOf, Handle, Generation
  <2>4. Lists(h, s)'
    BY <1>3, <1>4, <2>3 DEF SubscriptionsMirrored
  <2>5. QED
    BY <2>2, <2>3, <2>4
<1>5. ASSUME NEW s \in Systems, NEW slot \in subscribed'[s], NEW h, h = HandleOf(slot)',
             Covered(h, s)'
      PROVE  Covered(HandleOf(slot), s)'
  BY <1>5
<1>6. QED
  BY <1>2, <1>4, <1>5 DEF SubscribedHaveRequired

-----------------------------------------------------------------------------
(* The theorems. *)

LEMMA InitManagerInv == ManagerInit => ManagerInv
<1> SUFFICES ASSUME ManagerInit PROVE ManagerInv
  OBVIOUS
<1>1. EntityInv /\ aliveSlots = {} /\ LiveHandles = {}
  BY InitEntityInv DEF ManagerInit, EntityInit, LiveHandles
<1>2. /\ components = [c \in Components |-> [slot \in Slot |-> NoOwner]]
      /\ subscribed = [s \in Systems |-> {}]
      /\ entitySystems = [m \in Managers |-> [e \in Handle |-> <<>>]]
      /\ deferred = [m \in Managers |-> <<>>]
      /\ stack = <<>>
  BY DEF ManagerInit
<1>3. ManagerTypeOK
  BY <1>1, <1>2 DEF ManagerTypeOK, EntityInv
<1>4. Len(stack) = 0
  BY <1>2
<1>5. Nested(stack) /\ Destructors(stack) /\ FramesHold /\ DestroysGoOn
  BY <1>4 DEF Nested, Destructors, FramesHold, DestroysGoOn
<1>6. \A m \in Managers, e \in Handle :
        SystemsOf(e, m) = <<>> /\ Len(SystemsOf(e, m)) = 0 /\ DOMAIN SystemsOf(e, m) = {}
  BY <1>2 DEF SystemsOf
<1>7. ListsOwn
  BY <1>6 DEF ListsOwn
<1>8. \A s \in Systems, e \in Handle : ~Lists(e, s)
  BY <1>6, OwnerManager DEF Lists, Contains
<1>9. SubscriptionsMirrored
  BY <1>1, <1>2, <1>6, <1>8 DEF SubscriptionsMirrored, IsInjective
<1>10. NoStaleComponents /\ SubscribedHaveRequired
  BY <1>2 DEF NoStaleComponents, SubscribedHaveRequired
<1>11. QED
  BY <1>1, <1>3, <1>5, <1>7, <1>9, <1>10 DEF ManagerInv

LEMMA NextManagerInv ==
  ASSUME ManagerInv, HookScope = "others", [ManagerNext]_vars PROVE ManagerInv'
<1>1. Nested(stack)' /\ Destructors(stack)'
  BY StackNext DEF StackHolds
<1>2. QED
  BY <1>1, ManagerTypesNext, FramesNext, DestroysNextGoOn, ListsOwnNext, MirroredNext,
     NoStaleNext, RequiredNext DEF ManagerInv

(* The inductive invariant: types, the nesting of unfinished operations,    *)
(* what each of them relies on, and the agreement of lists, bitmaps,         *)
(* storages and entities.                                                     *)
THEOREM ManagerInvariant == ASSUME HookScope = "others" PROVE ManagerSpec => []ManagerInv
<1>1. ManagerInv /\ [ManagerNext]_vars => ManagerInv'
  BY NextManagerInv
<1>2. QED
  BY <1>1, InitManagerInv, PTL DEF ManagerSpec

(* Types of the state. *)
THEOREM ManagerTypes == ASSUME HookScope = "others" PROVE ManagerSpec => []ManagerTypeOK
<1>1. ManagerInv => ManagerTypeOK
  BY DEF ManagerInv
<1>2. QED
  BY <1>1, ManagerInvariant, PTL

(* The bitmap a system iterates and the list of each entity agree, whatever  *)
(* the hooks of other entities did meanwhile.                                 *)
THEOREM SubscriptionsAreMirrored ==
  ASSUME HookScope = "others" PROVE ManagerSpec => []SubscriptionsMirrored
<1>1. ManagerInv => SubscriptionsMirrored
  BY DEF ManagerInv
<1>2. QED
  BY <1>1, ManagerInvariant, PTL

(* A recycled slot starts without the components of its former occupants. *)
THEOREM NoComponentsAreStale ==
  ASSUME HookScope = "others" PROVE ManagerSpec => []NoStaleComponents
<1>1. ManagerInv => NoStaleComponents
  BY DEF ManagerInv
<1>2. QED
  BY <1>1, ManagerInvariant, PTL

(* A subscribed entity has what its systems require, or the removal under   *)
(* way has still to check it.                                                *)
THEOREM SubscribedEntitiesFit ==
  ASSUME HookScope = "others" PROVE ManagerSpec => []SubscribedHaveRequired
<1>1. ManagerInv => SubscribedHaveRequired
  BY DEF ManagerInv
<1>2. QED
  BY <1>1, ManagerInvariant, PTL

(* The hooks of one system for one entity alternate and never overlap. *)
THEOREM HooksDoAlternate == ASSUME HookScope = "others" PROVE ManagerSpec => []HooksAlternate
<1>1. ASSUME ManagerInv, NEW s \in Systems, NEW e \in LiveHandles
      PROVE  LET entering == HookCalls(e, s, "subscribing")
                 leaving == HookCalls(e, s, "unsubscribing")
             IN  /\ Cardinality(entering \cup leaving) <= 1
                 /\ entering # {} => ~Lists(e, s)
                 /\ leaving # {} => Lists(e, s)
  <2> DEFINE calls == HookCalls(e, s, "subscribing") \cup HookCalls(e, s, "unsubscribing")
  <2>1. \A i \in 1 .. Len(stack) : FrameHolds(stack[i]) /\ stack[i] \in Frame
    BY <1>1, EachFrame DEF ManagerInv, FramesHold
  <2>2. ASSUME NEW i \in calls
        PROVE  /\ i \in 1 .. Len(stack) /\ stack[i].entity = e /\ stack[i].op # "flushing"
               /\ \/ stack[i].op \in Hooks /\ stack[i].system = s
                  \/ stack[i].op = "checking" /\ stack[i].manager # NoManager
    BY <2>1, <2>2 DEF HookCalls, Hooks, FrameHolds
  <2>3. ASSUME NEW i \in calls, NEW j \in calls, i < j PROVE FALSE
    <3>1. MayEnclose(stack[i], stack[j])
      BY <1>1, <2>2, <2>3 DEF ManagerInv, Nested
    <3>2. QED
      BY <2>2, <2>3, <3>1 DEF MayEnclose, Hooks, WholeEntity
  <2>4. \A i \in calls, j \in calls : i = j
    <3>1. \A i \in calls : i \in Nat
      <4>1. \A i \in 1 .. Len(stack) : i \in Nat
        BY <1>1, EachFrame
      <4>2. QED
        BY <2>2, <4>1
    <3>2. \A i, j \in Nat : i < j \/ j < i \/ i = j
      OBVIOUS
    <3>3. QED
      BY <2>3, <3>1, <3>2
  <2>5. Cardinality(calls) <= 1
    <3> HIDE DEF calls
    <3>1. CASE calls = {}
      BY <3>1, FS_EmptySet
    <3>2. ASSUME NEW i \in calls PROVE Cardinality(calls) <= 1
      <4>1. calls = {i}
        BY <2>4, <3>2
      <4>2. QED
        BY <4>1, FS_Singleton
    <3>3. QED
      BY <3>1, <3>2
  <2>6. ASSUME NEW i \in HookCalls(e, s, "subscribing") PROVE ~Lists(e, s)
    BY <2>1, <2>6 DEF HookCalls, FrameHolds
  <2>7. ASSUME NEW i \in HookCalls(e, s, "unsubscribing") PROVE Lists(e, s)
    <3>1. CASE stack[i].op = "unsubscribing" /\ stack[i].entity = e /\ stack[i].system = s
      BY <2>1, <2>7, <3>1 DEF HookCalls, FrameHolds
    <3>2. CASE /\ stack[i].op = "checking" /\ stack[i].inHook /\ stack[i].entity = e
               /\ SystemsOf(e, stack[i].manager)[stack[i].at] = s
      <4> DEFINE m == stack[i].manager
                 at == stack[i].at
      <4>1. i \in 1 .. Len(stack) /\ stack[i] \in CheckFrame
        BY <2>1, <2>7, <3>2, FrameIs DEF HookCalls
      <4>2. m \in Managers /\ at \in 1 .. Len(SystemsOf(e, m)) /\ e \in Handle
        BY <2>1, <3>2, <4>1 DEF FrameHolds, CheckFrame
      <4>3. ManagerOf[s] = m
        BY <1>1, <3>2, <4>2 DEF ManagerInv, ListsOwn
      <4>4. QED
        BY <3>2, <4>2, <4>3 DEF Lists, Contains
    <3>3. QED
      BY <2>7, <3>1, <3>2 DEF HookCalls
  <2>8. QED
    BY <2>5, <2>6, <2>7
<1>2. ManagerInv => HooksAlternate
  BY <1>1 DEF HooksAlternate
<1>3. QED
  BY <1>2, ManagerInvariant, PTL

(* An entity loses components, subscriptions and its life only in an         *)
(* operation on itself.                                                       *)
THEOREM LossesAreTheirOwn == ASSUME HookScope = "others" PROVE ManagerSpec => LossesAreOwn
<1>1. ASSUME ManagerInv, [ManagerNext]_vars, NEW e \in LiveHandles,
             \/ e \notin LiveHandles'
             \/ \E c \in Components : hasComponent(e, c) /\ ~hasComponent(e, c)'
             \/ \E s \in Systems : e.slot \in subscribed[s] /\ e.slot \notin subscribed'[s]
      PROVE  ActsFor(e)
  <2>1. CASE Freed(e) \/ \E c \in Components : Emptied(e, c)
    BY <2>1 DEF Freed, Emptied, Running, ActsFor
  <2>2. ASSUME NEW s \in Systems, e.slot \in subscribed[s] /\ e.slot \notin subscribed'[s]
        PROVE  ActsFor(e)
    <3>1. subscribed \in [Systems -> SUBSET Slot]
      BY <1>1 DEF ManagerInv, ManagerTypeOK
    <3>2. PICK x \in LiveHandles, r \in Systems : Left(x, r)
      BY <1>1, <2>2, <3>1, WorldSteps
      DEF WorldUnchanged, Created, Freed, Added, Emptied, Joined
    <3>3. subscribed' = [subscribed EXCEPT ![r] = @ \ {x.slot}]
      BY <3>2 DEF Left, Leaves
    <3>4. e.slot = x.slot
      BY <2>2, <3>1, <3>3
    <3>5. e = x
      BY <1>1, <3>4, LiveOfSlot DEF ManagerInv
    <3>6. QED
      BY <3>2, <3>5 DEF Left, Running, ActsFor
  <2>3. QED
    BY <1>1, <2>1, <2>2, KeepsComponents
<1>2. ManagerInv /\ [ManagerNext]_vars
        => [\A e \in LiveHandles :
              \/ e \notin LiveHandles'
              \/ \E c \in Components : hasComponent(e, c) /\ ~hasComponent(e, c)'
              \/ \E s \in Systems : e.slot \in subscribed[s] /\ e.slot \notin subscribed'[s]
              => ActsFor(e)]_vars
  BY <1>1
<1>3. QED
  BY <1>2, ManagerInvariant, PTL DEF ManagerSpec, LossesAreOwn

(* A slot that is freed is in no system's bitmap: an iteration never meets   *)
(* the slot of a dead entity.                                                 *)
THEOREM FreedSlotsAreUnsubscribed ==
  ASSUME HookScope = "others" PROVE ManagerSpec => FreedSlotUnsubscribed
<1>1. ManagerInv /\ [ManagerNext]_vars
        => [\A slot \in aliveSlots \ aliveSlots' :
              \A s \in Systems : slot \notin subscribed'[s]]_vars
  BY NextManagerInv DEF ManagerInv, SubscriptionsMirrored
<1>2. QED
  BY <1>1, ManagerInvariant, PTL DEF ManagerSpec, FreedSlotUnsubscribed

(* Structural changes use EntityManager as its specification allows, so     *)
(* what is proved of it holds of the composition: its handles are issued     *)
(* once.                                                                       *)
THEOREM ManagerUsesEntityManager == ASSUME HookScope = "others" PROVE ManagerSpec => EntitySpec
<1>1. ManagerInit => EntityInit
  BY DEF ManagerInit
<1>2. ManagerInv /\ [ManagerNext]_vars => [EntityNext]_entityVars
  BY EntityStep
<1>3. QED
  BY <1>1, <1>2, ManagerInvariant, PTL DEF ManagerSpec, EntitySpec

-----------------------------------------------------------------------------
(* The world of EntityWorld. *)

HasOf(e) == {c \in Components : hasComponent(e, c)}
SubsOf(e) == {s \in Systems : e \in LiveHandles /\ e.slot \in subscribed[s]}

(* An entity has a component when its slot holds the one added for it, and   *)
(* the slot-keyed bitmaps say what its lists say.                             *)
LEMMA HasIs ==
  ASSUME ManagerInv, NEW h \in Handle, NEW c \in Components
  PROVE  hasComponent(h, c) <=> components[c][h.slot] = h
<1>1. /\ ManagerTypeOK /\ NoStaleComponents /\ h.slot \in Slot /\ h # NoOwner
      /\ components \in [Components -> [Slot -> Handle \cup {NoOwner}]]
  BY ManagerAssumptions DEF ManagerInv, ManagerTypeOK, Handle
<1>2. ASSUME hasComponent(h, c) PROVE components[c][h.slot] = h
  <2>1. h \in LiveHandles /\ components[c][h.slot] # NoOwner
    BY <1>1, <1>2, ActiveIs DEF hasComponent
  <2>2. h = HandleOf(h.slot)
    BY <1>1, <2>1, LiveIs
  <2>3. QED
    BY <1>1, <2>1, <2>2 DEF NoStaleComponents
<1>3. ASSUME components[c][h.slot] = h PROVE hasComponent(h, c)
  <2>1. h.slot \in aliveSlots /\ h = HandleOf(h.slot)
    BY <1>1, <1>3 DEF NoStaleComponents
  <2>2. isActive(h)
    BY <2>1 DEF isActive, HandleOf
  <2>3. QED
    BY <1>1, <1>3, <2>2 DEF hasComponent
<1>4. QED
  BY <1>2, <1>3

LEMMA SubsIs == ASSUME ManagerInv, NEW h \in Handle PROVE SubsOf(h) = {s \in Systems : Lists(h, s)}
BY DEF ManagerInv, SubscriptionsMirrored, SubsOf

LEMMA NextHasIs ==
  ASSUME NEW h \in Handle, NEW c \in Components
  PROVE  (ManagerInv => (hasComponent(h, c) <=> components[c][h.slot] = h))'
<1>1. ManagerInv => (hasComponent(h, c) <=> components[c][h.slot] = h)
  BY HasIs
<1>2. QED
  BY <1>1, PTL

LEMMA NextSubsIs ==
  ASSUME ManagerInv', NEW h \in Handle
  PROVE  SubsOf(h)' = {s \in Systems : Lists(h, s)'}
<1>1. ManagerInv' => SubscriptionsMirrored'
  BY DEF ManagerInv
<1>2. QED
  BY <1>1 DEF SubscriptionsMirrored, SubsOf

LEMMA HasKept ==
  ASSUME ManagerInv, ManagerInv', UNCHANGED components, NEW h \in Handle
  PROVE  HasOf(h)' = HasOf(h)
<1>1. ASSUME NEW c \in Components PROVE hasComponent(h, c)' <=> hasComponent(h, c)
  <2>1. hasComponent(h, c) <=> components[c][h.slot] = h
    BY HasIs
  <2>2. hasComponent(h, c)' <=> components'[c][h.slot] = h
    BY NextHasIs
  <2>3. QED
    BY <2>1, <2>2
<1>2. QED
  BY <1>1 DEF HasOf

LEMMA HasChanges ==
  ASSUME ManagerInv, ManagerInv', NEW e \in LiveHandles, NEW c \in Components, NEW h \in Handle
  PROVE  /\ Added(e, c) => HasOf(h)' = IF h = e THEN HasOf(h) \cup {c} ELSE HasOf(h)
         /\ Emptied(e, c) => HasOf(h)' = IF h = e THEN HasOf(h) \ {c} ELSE HasOf(h)
<1>1. /\ components \in [Components -> [Slot -> Handle \cup {NoOwner}]]
      /\ e \in Handle /\ e.slot \in Slot /\ h.slot \in Slot /\ e # NoOwner /\ h # NoOwner
      /\ ManagerTypeOK
  BY LiveIs, ManagerAssumptions DEF ManagerInv, ManagerTypeOK, Handle
<1>2. ASSUME NEW d \in Components
      PROVE  /\ hasComponent(h, d) <=> components[d][h.slot] = h
             /\ hasComponent(h, d)' <=> components'[d][h.slot] = h
  <2>1. hasComponent(h, d) <=> components[d][h.slot] = h
    BY HasIs
  <2>2. hasComponent(h, d)' <=> components'[d][h.slot] = h
    BY NextHasIs
  <2>3. QED
    BY <2>1, <2>2
<1>3. ASSUME NEW d \in Components, hasComponent(h, d), h.slot = e.slot PROVE h = e
  <2>1. h \in LiveHandles
    BY <1>1, <1>3, ActiveIs DEF hasComponent
  <2>2. QED
    BY <1>1, <1>3, <2>1, LiveOfSlot
<1>4. ASSUME Added(e, c), NEW d \in Components
      PROVE  hasComponent(h, d)' <=> hasComponent(h, d) \/ (h = e /\ d = c)
  <2>1. components'[d][h.slot] = IF d = c /\ h.slot = e.slot THEN e ELSE components[d][h.slot]
    BY <1>1, <1>4 DEF Added
  <2>2. QED
    BY <1>2, <1>3, <2>1
<1>5. ASSUME Emptied(e, c), NEW d \in Components
      PROVE  hasComponent(h, d)' <=> hasComponent(h, d) /\ ~(h = e /\ d = c)
  <2>1. components'[d][h.slot] = IF d = c /\ h.slot = e.slot THEN NoOwner
                                 ELSE components[d][h.slot]
    BY <1>1, <1>5 DEF Emptied
  <2>2. QED
    BY <1>1, <1>2, <1>3, <2>1
<1>6. QED
  BY <1>4, <1>5 DEF HasOf

LEMMA SubsChange ==
  ASSUME ManagerInv, ManagerInv', NEW e \in LiveHandles, NEW s \in Systems, NEW h \in Handle
  PROVE  /\ UNCHANGED entitySystems => SubsOf(h)' = SubsOf(h)
         /\ Joined(e, s) => SubsOf(h)' = IF h = e THEN SubsOf(h) \cup {s} ELSE SubsOf(h)
         /\ Left(e, s) => SubsOf(h)' = IF h = e THEN SubsOf(h) \ {s} ELSE SubsOf(h)
<1>1. SubsOf(h) = {r \in Systems : Lists(h, r)}
  BY SubsIs
<1>2. SubsOf(h)' = {r \in Systems : Lists(h, r)'}
  BY NextSubsIs
<1>3. UNCHANGED entitySystems => \A r \in Systems : Lists(h, r)' <=> Lists(h, r)
  BY DEF Lists, SystemsOf
<1>4. Joined(e, s) => \A r \in Systems : Lists(h, r)' <=> Lists(h, r) \/ (h = e /\ r = s)
  BY JoinsLists
<1>5. Left(e, s) => \A r \in Systems : Lists(h, r)' <=> Lists(h, r) /\ ~(h = e /\ r = s)
  BY LeavesLists
<1>6. QED
  BY <1>1, <1>2, <1>3, <1>4, <1>5

(* A dying entity has left its systems and lost its components. *)
LEMMA FreedIsBare ==
  ASSUME ManagerInv, NEW e \in LiveHandles, Freed(e)
  PROVE  SubsOf(e) = {} /\ HasOf(e) = {}
<1>1. /\ stack # <<>> /\ Top.op = "clearing" /\ Top.entity = e /\ Top.storages = {}
      /\ ManagerTypeOK /\ e \in Handle
  BY LiveIs DEF Freed, Running, ManagerInv
<1>2. Top = stack[Len(stack)] /\ Len(stack) \in 1 .. Len(stack)
  BY <1>1, StackTop
<1>3. \A c \in Components : components[c][e.slot] = NoOwner
  BY <1>1, <1>2 DEF ManagerInv, DestroysGoOn, StillToRemove
<1>4. \A s \in Systems : ~Lists(e, s)
  BY <1>1, <1>2 DEF ManagerInv, FramesHold, FrameHolds
<1>5. QED
  BY <1>1, <1>3, <1>4, SubsIs DEF HasOf, hasComponent

(* Every step is one of EntityWorld's, or changes nothing there. *)
LEMMA WorldStep ==
  ASSUME ManagerInv, ManagerInv', HookScope = "others", [ManagerNext]_vars
  PROVE  [World!WorldNext]_(World!worldVars)
<1> DEFINE has == [e \in Handle |-> HasOf(e)]
           subs == [e \in Handle |-> SubsOf(e)]
<1>1. World!Handle = Handle
  BY DEF World!Handle, Handle
<1>2. /\ UNCHANGED components => has' = has
      /\ UNCHANGED entitySystems => subs' = subs
  <2>1. UNCHANGED components => \A h \in Handle : HasOf(h)' = HasOf(h)
    BY HasKept
  <2>2. UNCHANGED entitySystems => \A h \in Handle : SubsOf(h)' = SubsOf(h)
    <3>1. ASSUME UNCHANGED entitySystems, NEW h \in Handle PROVE SubsOf(h)' = SubsOf(h)
      <4>1. SubsOf(h) = {r \in Systems : Lists(h, r)} /\ SubsOf(h)' = {r \in Systems : Lists(h, r)'}
        BY SubsIs, NextSubsIs
      <4>2. \A r \in Systems : Lists(h, r)' <=> Lists(h, r)
        BY <3>1 DEF Lists, SystemsOf
      <4>3. QED
        BY <4>1, <4>2
    <3>2. QED
      BY <3>1
  <2>3. QED
    BY <2>1, <2>2
<1>3. ASSUME NEW slot \in Slot, Created(slot) PROVE World!CreateEntity(HandleOf(slot))
  <2>1. /\ HandleOf(slot) \notin issued /\ slot \notin aliveSlots
        /\ LiveHandles' = LiveHandles \cup {HandleOf(slot)}
        /\ issued' = issued \cup {HandleOf(slot)}
        /\ has' = has /\ subs' = subs
    BY <1>2, <1>3, Lives DEF Created
  <2>2. \A other \in LiveHandles : other.slot # HandleOf(slot).slot
    BY <2>1 DEF LiveHandles, HandleOf
  <2>3. QED
    BY <2>1, <2>2 DEF World!CreateEntity, World!Create, HasOf, SubsOf
<1>4. ASSUME NEW e \in LiveHandles, e \in Handle, Freed(e) PROVE World!DestroyEntity(e)
  <2>1. subs[e] = {} /\ has[e] = {}
    BY <1>4, FreedIsBare
  <2>2. /\ LiveHandles' = LiveHandles \ {e} /\ issued' = issued
        /\ has' = has /\ subs' = subs
    BY <1>2, <1>4, Lives, DestroyFacts DEF Freed, ManagerInv, destroyEntity, entityVars
  <2>3. QED
    BY <1>4, <2>1, <2>2 DEF World!DestroyEntity, World!Destroy, HasOf, SubsOf
<1>5. ASSUME NEW e \in LiveHandles, e \in Handle, NEW c \in Components, Added(e, c) \/ Emptied(e, c)
      PROVE  World!AddComponent(e, c) \/ World!RemoveComponent(e, c)
  <2>1. LiveHandles' = LiveHandles /\ issued' = issued /\ subs' = subs
    BY <1>2, <1>5, Lives DEF Added, Emptied, entityVars
  <2>2. /\ Added(e, c) => has' = [has EXCEPT ![e] = has[e] \cup {c}]
        /\ Emptied(e, c) => has' = [has EXCEPT ![e] = has[e] \ {c}]
    <3>1. \A h \in Handle :
            /\ Added(e, c) => HasOf(h)' = IF h = e THEN HasOf(h) \cup {c} ELSE HasOf(h)
            /\ Emptied(e, c) => HasOf(h)' = IF h = e THEN HasOf(h) \ {c} ELSE HasOf(h)
      BY HasChanges
    <3>2. QED
      BY <1>5, <3>1
  <2>3. QED
    BY <1>5, <2>1, <2>2
    DEF World!AddComponent, World!RemoveComponent, World!ChangeComponents, HasOf, SubsOf
<1>6. ASSUME NEW e \in LiveHandles, e \in Handle, NEW s \in Systems, Joined(e, s) \/ Left(e, s)
      PROVE  World!Subscribe(e, s) \/ World!Unsubscribe(e, s)
  <2>1. LiveHandles' = LiveHandles /\ issued' = issued /\ has' = has
    BY <1>2, <1>6, Lives DEF Joined, Left, Leaves, entityVars
  <2>2. /\ Joined(e, s) => subs' = [subs EXCEPT ![e] = subs[e] \cup {s}]
        /\ Left(e, s) => subs' = [subs EXCEPT ![e] = subs[e] \ {s}]
    <3>1. \A h \in Handle :
            /\ Joined(e, s) => SubsOf(h)' = IF h = e THEN SubsOf(h) \cup {s} ELSE SubsOf(h)
            /\ Left(e, s) => SubsOf(h)' = IF h = e THEN SubsOf(h) \ {s} ELSE SubsOf(h)
      BY SubsChange
    <3>2. QED
      BY <1>6, <3>1
  <2>3. Joined(e, s) => Requires[s] \subseteq has[e]
    BY <1>6, ManagerAssumptions DEF Joined, shouldProcessEntity, HasOf
  <2>4. QED
    BY <1>6, <2>1, <2>2, <2>3
    DEF World!Subscribe, World!Unsubscribe, World!ChangeSubscriptions, HasOf, SubsOf
<1>7. WorldUnchanged => UNCHANGED World!worldVars
  <2>1. WorldUnchanged => LiveHandles' = LiveHandles /\ issued' = issued /\ has' = has /\ subs' = subs
    BY <1>2, Lives DEF WorldUnchanged, entityVars
  <2>2. QED
    BY <2>1 DEF World!worldVars, HasOf, SubsOf
<1>8. \A e \in LiveHandles : e \in Handle
  BY LiveIs DEF ManagerInv
<1>9. \A slot \in Slot : Created(slot) => HandleOf(slot) \in Handle
  BY Lives
<1> HIDE DEF has, subs
<1>10. QED
  BY <1>1, <1>3, <1>4, <1>5, <1>6, <1>7, <1>8, <1>9, WorldSteps DEF World!WorldNext

(* Behind slots that are recycled, hooks that nest and commands that wait,   *)
(* there is the world of EntityWorld: a fresh entity is bare, a change names *)
(* one live entity, one joins a system only with the components it requires, *)
(* and dies only when it has left every system and lost every component.      *)
THEOREM ManagerImplementsWorld ==
  ASSUME HookScope = "others" PROVE ManagerSpec => ImplementsWorld
<1>1. ManagerInit => World!WorldInit
  <2>1. SUFFICES ASSUME ManagerInit PROVE World!WorldInit
    OBVIOUS
  <2>2. aliveSlots = {} /\ issued = {} /\ LiveHandles = {}
    BY <2>1 DEF ManagerInit, EntityInit, LiveHandles
  <2>3. \A e \in Handle, c \in Components : ~hasComponent(e, c)
    BY <2>2 DEF hasComponent, isActive
  <2>4. QED
    BY <2>2, <2>3 DEF World!WorldInit, World!Init, World!Handle, Handle
<1>2. ManagerInv /\ ManagerInv' /\ [ManagerNext]_vars => [World!WorldNext]_(World!worldVars)
  BY WorldStep
<1>3. QED
  BY <1>1, <1>2, ManagerInvariant, PTL DEF ManagerSpec, ImplementsWorld, World!WorldSpec
=============================================================================
