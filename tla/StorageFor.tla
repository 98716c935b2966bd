------------------------------ MODULE StorageFor ------------------------------
(***************************************************************************)
(* ComponentManager::StorageFor: a component type is kept in one of the two *)
(* storages, by its policy, and its users do not see which.                  *)
(***************************************************************************)
EXTENDS StorageCalls

CONSTANTS MaxIndices, BlockSize, Reservations

ASSUME StorageForAssumptions ==
  /\ MaxIndices \in Nat
  /\ BlockSize \in Nat \ {0}
  /\ Reservations \subseteq Nat

VARIABLES
  policy,                                    \* ComponentStorageTraits::policy
  pages, entries, taken, size,               \* of a SparseComponentStorage
  storesData, tables, blocks, blockLive, liveCount  \* of a ComponentColumn

Sparse == INSTANCE SparseComponentStorage
Column == INSTANCE ComponentColumn

sparseOnly == <<pages, entries, taken, size>>
columnOnly == <<storesData, tables, blocks, blockLive, liveCount>>
storageVars == <<policy, sparseOnly, columnOnly, presence, objects, pc, frame>>

(* A storage the type does not have. *)
NoSparse == pages = {} /\ entries = <<>> /\ taken = {} /\ size = 0
NoColumn ==
  storesData = FALSE /\ tables = {} /\ blocks = {} /\ blockLive = <<>> /\ liveCount = 0

StorageInit ==
  \/ policy = "sparse" /\ Sparse!SparseInit /\ NoColumn
  \/ policy = "column" /\ Column!ColumnInit /\ NoSparse

StorageNext ==
  /\ UNCHANGED policy
  /\ \/ policy = "sparse" /\ Sparse!SparseNext /\ UNCHANGED columnOnly
     \/ policy = "column" /\ Column!ColumnNext /\ UNCHANGED sparseOnly

StorageSpec == StorageInit /\ [][StorageNext]_storageVars

-----------------------------------------------------------------------------
(* Memory is owned: an object lives exactly where a present slot, or a      *)
(* thread that is about to publish or has just withdrawn one, says so.  With *)
(* several threads at work nothing is leaked, constructed over, or destroyed *)
(* twice, and the storage's destructor leaves none (SparseComponentStorage   *)
(* and ComponentColumn: addComponent, removeComponent).                       *)
ObjectsOwned ==
  IF policy = "sparse" THEN Sparse!SparseObjectsOwned ELSE Column!ColumnObjectsOwned

(* A column's size() and the live count of each of its blocks are exact once *)
(* no call is under way, and never wrap below zero, whatever markPresent and  *)
(* markAbsent of other slots come between.                                    *)
LiveCountsSettle == policy = "column" => Column!ColumnCountsSettle

Store == INSTANCE ComponentStore WITH
  contents <- IF policy = "sparse" THEN Sparse!SparseContents ELSE Column!ColumnContents,
  calls <- [t \in Threads |-> CallOf(t)]

(* Either storage is the partial function of ComponentStore: what is added   *)
(* for a slot is what is found there until it is removed, at one instant of   *)
(* each call, and work on other slots (growth, recycled indices, blocks       *)
(* installed by two threads at once) changes nothing.                          *)
ImplementsStore == Store!Spec
=============================================================================
