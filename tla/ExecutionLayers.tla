--------------------------- MODULE ExecutionLayers ---------------------------
(***************************************************************************)
(* The scheduling side of Systems/SystemManager.hpp with                    *)
(* SystemRegistration.hpp: systems are registered and declare what they     *)
(* read, write, precede and follow; update() turns the declarations into    *)
(* layers of systems that run in parallel and keeps the result until a      *)
(* declaration makes it dirty.                                              *)
(***************************************************************************)
EXTENDS Integers, SequencesExt

CONSTANTS
  Types,            \* system types
  Components,       \* component types
  NeedComponents,   \* types with requiredComponentCount() > 0
  MaxSystems,       \* bound: systems registered
  MaxDeclarations   \* bound: declarations made

ASSUME SchedulingAssumptions ==
  /\ NeedComponents \subseteq Types
  /\ MaxSystems \in Nat
  /\ MaxDeclarations \in Nat

VARIABLES
  systemCore,  \* SystemCore: the type of each system, in registration order
  metadata,    \* _schedulingMetadata of each type
  dirty,       \* _executionOrderDirty
  layers,      \* _executionLayers: sets of positions in systemCore
  aborted      \* std::abort was called

schedulingVars == <<systemCore, metadata, dirty, layers, aborted>>

Metadata == [reads : SUBSET Components, writes : SUBSET Components,
             before : SUBSET Types, after : SUBSET Types]

NoDeclarations == [reads |-> {}, writes |-> {}, before |-> {}, after |-> {}]

Indices == 1 .. Len(systemCore)
Registered == ToSet(systemCore)
Of(i) == metadata[systemCore[i]]

-----------------------------------------------------------------------------
(* resolveExecutionSequence. *)

(* typeToIndex: of several instances of a type, the last. *)
IndexOf(type) == CHOOSE i \in Indices : systemCore[i] = type /\
                   \A j \in Indices : systemCore[j] = type => j <= i

(* A writer of a component goes before its readers. *)
DataEdges ==
  {e \in Indices \X Indices :
     e[1] # e[2] /\ Of(e[1]).writes \cap Of(e[2]).reads # {}}

BeforeEdges == UNION {{<<i, IndexOf(type)>> : type \in Of(i).before} : i \in Indices}
AfterEdges == UNION {{<<IndexOf(type), i>> : type \in Of(i).after} : i \in Indices}

Edges == DataEdges \cup BeforeEdges \cup AfterEdges

Ready(done) ==
  {i \in Indices \ done : \A j \in Indices : <<j, i>> \in Edges => j \in done}

(* Kahn's algorithm, a layer at a time: the systems processed after n layers. *)
Processed ==
  LET processed[n \in 0 .. Len(systemCore)] ==
        IF n = 0 THEN {} ELSE processed[n - 1] \cup Ready(processed[n - 1])
  IN  processed

WritesOf(layer) == UNION {Of(i).writes : i \in layer}

(* Mutant: only the last sublayer is tried. *)
PlaceLast(sublayers, i) ==
  IF sublayers = <<>> \/ WritesOf(Last(sublayers)) \cap Of(i).writes # {}
  THEN Append(sublayers, {i})
  ELSE [sublayers EXCEPT ![Len(sublayers)] = @ \cup {i}]

(* Mutant: a sublayer is open to a system its last member does not conflict with. *)
OpenToNeighbour(sublayer, i) ==
  Of(CHOOSE j \in sublayer : \A k \in sublayer : k <= j).writes \cap Of(i).writes = {}

Open(sublayer, i) == WritesOf(sublayer) \cap Of(i).writes = {}

(* Each system joins the first sublayer that writes nothing it writes. *)
Place(sublayers, i) ==
  LET open == {s \in DOMAIN sublayers : Open(sublayers[s], i)}
  IN  IF open = {}
      THEN Append(sublayers, {i})
      ELSE [sublayers EXCEPT ![Min(open)] = @ \cup {i}]

(* The sublayers of a layer once its systems up to the n-th are placed. *)
Split(layer) ==
  LET sublayers[n \in 0 .. Len(systemCore)] ==
        IF n = 0 THEN <<>>
        ELSE IF n \in layer THEN Place(sublayers[n - 1], n) ELSE sublayers[n - 1]
  IN  sublayers[Len(systemCore)]

ResolvedLayers ==
  LET processed == Processed
      resolved[n \in 0 .. Len(systemCore)] ==
        IF n = 0 THEN <<>>
        ELSE resolved[n - 1] \o Split(processed[n] \ processed[n - 1])
  IN  resolved[Len(systemCore)]

UndeclaredAccess ==
  \E type \in Registered \cap NeedComponents :
    metadata[type].reads = {} /\ metadata[type].writes = {}

UnknownTarget ==
  \E type \in Registered :
    ~(metadata[type].before \cup metadata[type].after \subseteq Registered)

(* Mutant: a cycle goes unnoticed. *)
NoCycleDetected == FALSE

CycleDetected == Processed[Len(systemCore)] # Indices

-----------------------------------------------------------------------------
SchedulingInit ==
  /\ systemCore = <<>>
  /\ metadata = [type \in Types |-> NoDeclarations]
  /\ dirty = TRUE
  /\ layers = <<>>
  /\ aborted = FALSE

(* Mutant: the new system leaves the resolved layers in use. *)
addSystemQuietly(type) ==
  /\ ~aborted
  /\ Len(systemCore) < MaxSystems
  /\ systemCore' = Append(systemCore, type)
  /\ UNCHANGED <<metadata, dirty, layers, aborted>>

addSystem(type) ==
  /\ ~aborted
  /\ Len(systemCore) < MaxSystems
  /\ systemCore' = Append(systemCore, type)
  /\ dirty' = TRUE
  /\ UNCHANGED <<metadata, layers, aborted>>

Declarations ==
  LET size(type) == Cardinality(metadata[type].reads)
                      + Cardinality(metadata[type].writes)
                      + Cardinality(metadata[type].before)
                      + Cardinality(metadata[type].after)
  IN  FoldSet(LAMBDA type, sum : sum + size(type), 0, Types)

(* Mutant: the declaration leaves the resolved layers in use. *)
declareQuietly(type, declared) ==
  /\ ~aborted
  /\ type \in Registered
  /\ metadata' = [metadata EXCEPT ![type] = declared]
  /\ Declarations' <= MaxDeclarations
  /\ UNCHANGED <<systemCore, dirty, layers, aborted>>

declare(type, declared) ==
  /\ ~aborted
  /\ type \in Registered
  /\ metadata' = [metadata EXCEPT ![type] = declared]
  /\ Declarations' <= MaxDeclarations
  /\ dirty' = TRUE
  /\ UNCHANGED <<systemCore, layers, aborted>>

reads(type, c) ==
  declare(type, [metadata[type] EXCEPT !.reads = @ \cup {c}])
writes(type, c) ==
  declare(type, [metadata[type] EXCEPT !.writes = @ \cup {c}])
before(type, other) ==
  declare(type, [metadata[type] EXCEPT !.before = @ \cup {other}])
after(type, other) ==
  declare(type, [metadata[type] EXCEPT !.after = @ \cup {other}])

(* Without systems there is nothing to resolve and the flag stays up. *)
resolveExecutionSequence ==
  /\ ~aborted
  /\ dirty
  /\ IF systemCore = <<>>
     THEN layers' = <<>> /\ UNCHANGED <<dirty, aborted>>
     ELSE IF UndeclaredAccess \/ UnknownTarget \/ CycleDetected
     THEN aborted' = TRUE /\ UNCHANGED <<dirty, layers>>
     ELSE layers' = ResolvedLayers /\ dirty' = FALSE /\ UNCHANGED aborted
  /\ UNCHANGED <<systemCore, metadata>>

SchedulingNext ==
  \/ \E type \in Types :
       \/ addSystem(type)
       \/ \E c \in Components : reads(type, c) \/ writes(type, c)
       \/ \E other \in Types : before(type, other) \/ after(type, other)
  \/ resolveExecutionSequence

SchedulingSpec == SchedulingInit /\ [][SchedulingNext]_schedulingVars

-----------------------------------------------------------------------------
(* Types of the state. *)
SchedulingTypeOK ==
  /\ systemCore \in Seq(Types)
  /\ metadata \in [Types -> Metadata]
  /\ dirty \in BOOLEAN
  /\ layers \in Seq(SUBSET (1 .. MaxSystems))
  /\ aborted \in BOOLEAN

(* The layers an update runs are those in force while nothing is dirty. *)
InForce == ~dirty

LayerOf(i) == CHOOSE n \in DOMAIN layers : i \in layers[n]

(* Every registered system runs exactly once per update, whenever it was    *)
(* registered and whatever was declared since the layers were last resolved.*)
EverySystemOnce ==
  InForce =>
    \A i \in Indices : Cardinality({n \in DOMAIN layers : i \in layers[n]}) = 1

(* Systems that run in parallel touch no component that one of them writes: *)
(* the layers of an update are free of the data races the declarations name.*)
LayersRaceFree ==
  InForce =>
    \A n \in DOMAIN layers : \A i, j \in layers[n] :
      i # j => Of(i).writes \cap (Of(j).reads \cup Of(j).writes) = {}

(* A reader runs after the writers of what it reads, a system after those   *)
(* it names in after() and before those it names in before(): the layers     *)
(* respect every declared constraint (SystemRegistration).  A name stands    *)
(* for the instance of the type registered last, as it does in the code;      *)
(* nothing orders the earlier ones.                                           *)
OrderRespected ==
  InForce =>
    \A i, j \in Indices :
      \/ i # j /\ Of(i).writes \cap Of(j).reads # {}
      \/ systemCore[j] \in Of(i).before /\ j = IndexOf(systemCore[j])
      \/ systemCore[i] \in Of(j).after /\ i = IndexOf(systemCore[i])
      => LayerOf(i) < LayerOf(j)

(* How deep each system lies in the declared order: one more than the       *)
(* deepest system it is constrained to follow.                                *)
Depths ==
  {depth \in [Indices -> Indices] :
     /\ \A edge \in Edges : depth[edge[1]] < depth[edge[2]]
     /\ \A i \in Indices : depth[i] # 1 =>
          \E j \in Indices : <<j, i>> \in Edges /\ depth[j] = depth[i] - 1}

(* Systems run by depth.  A system may wait for any that is less deep,      *)
(* whether or not it has to follow that one; for one as deep as itself it     *)
(* waits only where a system registered earlier, in the same layer as that    *)
(* one, writes what it writes; it never waits for a deeper one (the split of  *)
(* layers in resolveExecutionSequence).                                        *)
LayeredByDepth ==
  InForce =>
    \E depth \in Depths :
      \A i, j \in Indices :
        LayerOf(j) < LayerOf(i) =>
          \/ depth[j] < depth[i]
          \/ /\ depth[j] = depth[i]
             /\ \E k \in layers[LayerOf(j)] :
                  k < i /\ Of(k).writes \cap Of(i).writes # {}

(* The declarations have a schedule: some ranking of the systems satisfies  *)
(* every constraint.                                                         *)
Schedulable ==
  /\ ~UndeclaredAccess
  /\ ~UnknownTarget
  /\ \E rank \in [Indices -> Indices] :
       \A edge \in Edges : rank[edge[1]] < rank[edge[2]]

(* update() aborts on exactly the declarations no schedule satisfies, or    *)
(* that name an unregistered system or hide what a system accesses.          *)
AbortsIffUnschedulable ==
  [][dirty /\ systemCore # <<>> /\ UNCHANGED <<systemCore, metadata>>
       => aborted' = ~Schedulable]_schedulingVars
=============================================================================
