---------------------------- MODULE EntityManager ----------------------------
(***************************************************************************)
(* Entitys/EntityManager.hpp: entity slots and their recycling.             *)
(*                                                                          *)
(* Every public operation runs as one critical section of _mutex, so each   *)
(* is one atomic step whatever number of threads call it.  Callers hold     *)
(* handles for as long as they like, so destroyEntity is enumerated over    *)
(* every handle ever issued and Entity::invalid().                          *)
(***************************************************************************)
EXTENDS Integers, SequencesExt

CONSTANTS
  MaxSlots,          \* bound: slots the model may allocate
  MaxGeneration,     \* bound: times one slot may be recycled
  GenerationModulus  \* range of the uint32_t generation: 2^32 in the code

(* No slot is recycled so often that its 32-bit generation wraps. *)
ASSUME EntityBounds ==
  /\ MaxSlots \in Nat
  /\ MaxGeneration \in Nat
  /\ GenerationModulus \in Nat
  /\ MaxGeneration < GenerationModulus

VARIABLES
  generations,   \* _generations: current generation of each slot
  slotCapacity,  \* _generations.size(): slots ever allocated
  freeSlots,     \* _freeSlots: the free list, a stack
  aliveSlots,    \* _aliveSlots: the slots of active entities
  issued         \* history: every handle createEntity has returned

entityVars == <<generations, slotCapacity, freeSlots, aliveSlots, issued>>

Slot == 0 .. MaxSlots - 1
Generation == 0 .. GenerationModulus - 1
Handle == [slot : Slot, generation : Generation]

(* Entity::invalid(): its slot is one no bitmap ever holds. *)
InvalidHandle == [slot |-> MaxSlots, generation |-> 0]

(* The handles a caller can pass in. *)
AnyHandle == issued \cup {InvalidHandle}

AllocatedSlots == 0 .. slotCapacity - 1

HandleOf(slot) == [slot |-> slot, generation |-> generations[slot]]

(* Mutant: the generation is not compared. *)
slotInUse(e) == e.slot \in aliveSlots

isActive(e) == e.slot \in aliveSlots /\ generations[e.slot] = e.generation

(* The handles of the active entities: what forEachActiveEntity snapshots. *)
LiveHandles == {HandleOf(slot) : slot \in aliveSlots}

-----------------------------------------------------------------------------
EntityInit ==
  /\ generations = [slot \in Slot |-> 0]
  /\ slotCapacity = 0
  /\ freeSlots = <<>>
  /\ aliveSlots = {}
  /\ issued = {}

(* Mutant: destroyEntity does not advance the generation. *)
SameGeneration(g) == g

(* ++_generations[slot], a uint32_t. *)
NextGeneration(g) == IF g + 1 = GenerationModulus THEN 0 ELSE g + 1

(* Mutant: the recycled slot stays on the free list. *)
KeepFreeSlot(free) == free

(* _freeSlots.pop_back(). *)
PopFreeSlot(free) == Front(free)

(* createEntity takes the most recently freed slot ... *)
RecycleSlot ==
  /\ freeSlots # <<>>
  /\ LET slot == Last(freeSlots) IN
       /\ aliveSlots' = aliveSlots \cup {slot}
       /\ issued' = issued \cup {HandleOf(slot)}
  /\ freeSlots' = PopFreeSlot(freeSlots)
  /\ UNCHANGED <<generations, slotCapacity>>

(* ... and grows the vectors only when no slot is free. *)
AllocateSlot ==
  /\ freeSlots = <<>>
  /\ slotCapacity < MaxSlots
  /\ slotCapacity' = slotCapacity + 1
  /\ aliveSlots' = aliveSlots \cup {slotCapacity}
  /\ issued' = issued \cup {HandleOf(slotCapacity)}
  /\ UNCHANGED <<generations, freeSlots>>

createEntity == RecycleSlot \/ AllocateSlot

(* A stale or invalid handle returns early; a live one is retired. *)
destroyEntity(e) ==
  IF isActive(e)
  THEN /\ generations[e.slot] < MaxGeneration
       /\ freeSlots' = Append(freeSlots, e.slot)
       /\ generations' = [generations EXCEPT ![e.slot] = NextGeneration(@)]
       /\ aliveSlots' = aliveSlots \ {e.slot}
       /\ UNCHANGED <<slotCapacity, issued>>
  ELSE UNCHANGED entityVars

EntityNext ==
  \/ createEntity
  \/ \E e \in AnyHandle : destroyEntity(e)

EntitySpec == EntityInit /\ [][EntityNext]_entityVars

-----------------------------------------------------------------------------
FreeSlotSet == {freeSlots[i] : i \in 1 .. Len(freeSlots)}

(* Types of the state: one generation per slot, a free list of slots. *)
EntityTypeOK ==
  /\ generations \in [Slot -> 0 .. MaxGeneration]
  /\ slotCapacity \in 0 .. MaxSlots
  /\ freeSlots \in Seq(Slot)
  /\ aliveSlots \in SUBSET Slot
  /\ issued \in SUBSET Handle

(* Every slot ever allocated is either alive or on the free list, never     *)
(* both, and the free list names no slot twice: nothing leaks and nothing   *)
(* can be handed to two entities.  (createEntity / destroyEntity keep        *)
(* _generations, _freeSlots and _aliveSlots in step.)                        *)
SlotsPartitioned ==
  /\ \A i, j \in 1 .. Len(freeSlots) : freeSlots[i] = freeSlots[j] => i = j
  /\ FreeSlotSet \cap aliveSlots = {}
  /\ FreeSlotSet \cup aliveSlots = AllocatedSlots

(* A handle that was handed out is live exactly until its slot's generation *)
(* moves past it; a handle of a slot never allocated does not exist.  This   *)
(* is the doc of Entity.hpp: a handle to a recycled slot is detectably stale.*)
IssuedHandlesDated ==
  /\ LiveHandles \subseteq issued
  /\ \A e \in issued :
       /\ e.slot \in AllocatedSlots
       /\ e.generation <= generations[e.slot]
       /\ e.generation = generations[e.slot] => e.slot \in aliveSlots

(* A handle that becomes active was never handed out before: no caller's    *)
(* old handle comes back to life when createEntity recycles its slot.        *)
NoHandleRevived ==
  [][\A e \in LiveHandles' \ LiveHandles : e \notin issued]_entityVars

(* destroyEntity ends the life its handle names and no other: called with a *)
(* stale handle it spares the entity that now occupies the slot.            *)
DestroyIsExact ==
  [][\A e \in AnyHandle :
       destroyEntity(e) => LiveHandles' = LiveHandles \ {e}]_entityVars

(* createEntity grows _generations only when every slot is in use, so the   *)
(* slot table never exceeds the peak number of simultaneous entities.       *)
GrowsOnlyWhenFull ==
  [][slotCapacity' # slotCapacity => aliveSlots = AllocatedSlots]_entityVars

(* The manager implements the allocator of HandleAllocator: every operation *)
(* is one of its steps, or no step at all.                                  *)
Allocator == INSTANCE HandleAllocator WITH live <- LiveHandles

ImplementsAllocator == Allocator!Spec
=============================================================================
