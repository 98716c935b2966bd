---------------------------- MODULE GeneralManager ----------------------------
(***************************************************************************)
(* GeneralManager.hpp with the subscription side of SystemManager.hpp and   *)
(* DeferredChangeQueueImpl.hpp: structural changes, the hooks they call and *)
(* the queues that postpone them.                                           *)
(*                                                                          *)
(* One thread makes structural changes.  What interleaves is the user code  *)
(* inside the onEntitySubscribed / onEntityUnsubscribed hooks and inside     *)
(* the destructors of components, which may call any operation before the   *)
(* one that called it resumes.  "stack" is the call stack of unfinished      *)
(* operations: user code runs when it is empty or when its top frame has     *)
(* called user code, and otherwise the top frame takes its next step.        *)
(***************************************************************************)
EXTENDS EntityManager

CONSTANTS
  Managers,    \* names of the system managers
  Systems,     \* system types, each registered once
  Components,  \* component types
  ManagerOf,   \* [Systems -> Managers]: _systemTypeToManager
  Requires,    \* [Systems -> SUBSET Components]: RequiredComponents
  NoManager,   \* not a manager
  NoOwner,     \* not a handle
  HookScope,   \* what hooks and destructors may change, see MayChange
  MaxDepth,    \* bound: length of the call stack
  MaxQueue     \* bound: deferred commands queued at once

ASSUME ManagerAssumptions ==
  /\ ManagerOf \in [Systems -> Managers]
  /\ Requires \in [Systems -> SUBSET Components]
  /\ NoManager \notin Managers
  /\ NoOwner \notin Handle
  /\ HookScope \in {"others", "same"}
  /\ MaxDepth \in Nat
  /\ MaxQueue \in Nat

VARIABLES
  components,     \* presence bit and value of each storage: the handle the
                  \* component in a slot was added for, or NoOwner
  subscribed,     \* SystemToEntities: bitmap of slots of each system
  entitySystems,  \* EntityToSystems of each manager: systems of each handle
  deferred,       \* _deferredQueues: commands of each manager's queue
  stack           \* unfinished operations, the innermost last

managerVars == <<components, subscribed, entitySystems, deferred, stack>>
vars == <<generations, slotCapacity, freeSlots, aliveSlots, issued,
          components, subscribed, entitySystems, deferred, stack>>

-----------------------------------------------------------------------------
(* Structural changes as data: what a caller asks for and a queue stores.   *)
Destroys == [kind : {"destroy"}, entity : Handle]
ComponentCommands == [kind : {"add", "remove"}, entity : Handle, component : Components]
SystemCommands == [kind : {"subscribe", "unsubscribe"}, entity : Handle, system : Systems]
Command == Destroys \cup ComponentCommands \cup SystemCommands

(* Operations in progress.  "subscribing" and "unsubscribing" are inside    *)
(* their hook, "removing" is inside the destructor of the component, and    *)
(* "checking" is in a hook when inHook; the others call no user code        *)
(* themselves.  "clearing" is removeEntity of a destroy.                     *)
SubscriptionFrame ==
  [op : {"subscribing", "unsubscribing"}, entity : Handle, system : Systems]
CheckFrame ==
  [op : {"checking"}, entity : Handle, managers : SUBSET Managers,
   manager : Managers \cup {NoManager}, at : Nat, inHook : BOOLEAN]
DestroyFrame ==
  [op : {"destroying"}, entity : Handle, managers : SUBSET Managers,
   pending : Seq(Systems)]
RemovalFrame == [op : {"removing"}, entity : Handle, component : Components]
ClearFrame == [op : {"clearing"}, entity : Handle, storages : SUBSET Components]
FlushFrame == [op : {"flushing"}, batch : Seq(Command)]
Frame == SubscriptionFrame \cup CheckFrame \cup DestroyFrame
           \cup RemovalFrame \cup ClearFrame \cup FlushFrame

Top == Last(stack)
Below == Front(stack)
Running(op) == stack # <<>> /\ Top.op = op

InUserCode(frame) ==
  \/ frame.op \in {"subscribing", "unsubscribing", "removing"}
  \/ frame.op = "checking" /\ frame.inHook

UserCodeRuns == stack # <<>> => InUserCode(Top)

(* An operation on e has not finished. *)
Busy(e) == \E i \in 1 .. Len(stack) :
             stack[i].op # "flushing" /\ stack[i].entity = e

Working(e, ops) == \E i \in 1 .. Len(stack) :
                     stack[i].op \in ops /\ stack[i].entity = e

(* A hook of system s for e is running. *)
HookedOn(e, s) == \E i \in 1 .. Len(stack) :
                    /\ stack[i].op \in {"subscribing", "unsubscribing"}
                    /\ stack[i].entity = e
                    /\ stack[i].system = s

(* The destructor of component c of e is running. *)
Dying(e, c) == \E i \in 1 .. Len(stack) :
                 /\ stack[i].op = "removing"
                 /\ stack[i].entity = e
                 /\ stack[i].component = c

(* checkEntitySubscriptions is walking the list of e. *)
Walked(e) == \E i \in 1 .. Len(stack) :
               /\ stack[i].op = "checking"
               /\ stack[i].entity = e
               /\ stack[i].manager # NoManager

(* What hooks and destructors are taken to do to an entity that operations  *)
(* are unfinished on.  Under "others" they neither destroy it nor remove     *)
(* its components, leave its subscription to their own system alone,         *)
(* subscribe it to nothing while it dies, and do not change the list         *)
(* checkEntitySubscriptions walks; under "same" only the last holds.  In     *)
(* both they give no component to an entity that is being cleared, subscribe *)
(* it to nothing, and give none of its own type to an entity from within the *)
(* component's destructor.                                                   *)
MayChange(command) ==
  LET e == command.entity IN
    \/ /\ command.kind = "add"
       /\ ~Working(e, {"clearing"})
       /\ ~Dying(e, command.component)
    \/ ~Busy(e)
    \/ /\ HookScope = "same"
       /\ command.kind # "add"
       /\ ~Walked(e)
       /\ command.kind = "subscribe" => ~Working(e, {"clearing"})
    \/ /\ command.kind \in {"subscribe", "unsubscribe"}
       /\ ~HookedOn(e, command.system)
       /\ ~Walked(e)
       /\ command.kind = "subscribe" => ~Working(e, {"destroying", "clearing"})

-----------------------------------------------------------------------------
ManagerInit ==
  /\ EntityInit
  /\ components = [c \in Components |-> [slot \in Slot |-> NoOwner]]
  /\ subscribed = [s \in Systems |-> {}]
  /\ entitySystems = [m \in Managers |-> [e \in Handle |-> <<>>]]
  /\ deferred = [m \in Managers |-> <<>>]
  /\ stack = <<>>

hasComponent(e, c) == isActive(e) /\ components[c][e.slot] # NoOwner

(* SystemCore::shouldProcessEntity. *)
shouldProcessEntity(s, e) == \A c \in Requires[s] : hasComponent(e, c)

SystemsOf(e, m) == entitySystems[m][e]
Lists(e, s) == Contains(SystemsOf(e, ManagerOf[s]), s)

(* Every operation below continues the call stack "rest": the stack of the  *)
(* caller, or that of a flush without the command being applied.            *)
addComponentImmediate(e, c, rest) ==
  /\ components' = IF isActive(e)
                   THEN [components EXCEPT ![c][e.slot] = e]
                   ELSE components
  /\ stack' = rest
  /\ UNCHANGED <<entityVars, subscribed, entitySystems, deferred>>

(* The component is destroyed, then every manager re-checks the entity. *)
removeComponentImmediate(e, c, rest) ==
  /\ stack' = IF hasComponent(e, c)
              THEN rest \o <<[op |-> "checking", entity |-> e, managers |-> Managers,
                              manager |-> NoManager, at |-> 1, inHook |-> FALSE],
                            [op |-> "removing", entity |-> e, component |-> c]>>
              ELSE rest
  /\ UNCHANGED <<entityVars, components, subscribed, entitySystems, deferred>>

(* Mutants: subscribing checks neither the requirements nor the list. *)
subscribeUnfit(e, s, rest) ==
  /\ stack' = IF isActive(e) /\ ~Lists(e, s)
              THEN Append(rest, [op |-> "subscribing", entity |-> e, system |-> s])
              ELSE rest
  /\ UNCHANGED <<entityVars, components, subscribed, entitySystems, deferred>>

subscribeTwice(e, s, rest) ==
  /\ stack' = IF isActive(e) /\ shouldProcessEntity(s, e)
              THEN Append(rest, [op |-> "subscribing", entity |-> e, system |-> s])
              ELSE rest
  /\ UNCHANGED <<entityVars, components, subscribed, entitySystems, deferred>>

(* onEntitySubscribed is called before anything is recorded. *)
subscribeEntityImmediate(e, s, rest) ==
  /\ stack' = IF isActive(e) /\ shouldProcessEntity(s, e) /\ ~Lists(e, s)
              THEN Append(rest, [op |-> "subscribing", entity |-> e, system |-> s])
              ELSE rest
  /\ UNCHANGED <<entityVars, components, subscribed, entitySystems, deferred>>

unsubscribeEntityImmediate(e, s, rest) ==
  /\ stack' = IF isActive(e) /\ Lists(e, s)
              THEN Append(rest, [op |-> "unsubscribing", entity |-> e, system |-> s])
              ELSE rest
  /\ UNCHANGED <<entityVars, components, subscribed, entitySystems, deferred>>

(* Mutant: the entity is destroyed without leaving its systems. *)
destroySubscribed(e, rest) ==
  /\ stack' = IF isActive(e)
              THEN Append(rest, [op |-> "destroying", entity |-> e,
                                 managers |-> {}, pending |-> <<>>])
              ELSE rest
  /\ UNCHANGED <<entityVars, components, subscribed, entitySystems, deferred>>

destroyEntityImmediate(e, rest) ==
  /\ stack' = IF isActive(e)
              THEN Append(rest, [op |-> "destroying", entity |-> e,
                                 managers |-> Managers, pending |-> <<>>])
              ELSE rest
  /\ UNCHANGED <<entityVars, components, subscribed, entitySystems, deferred>>

Perform(command, rest) ==
  \/ /\ command.kind = "add"
     /\ addComponentImmediate(command.entity, command.component, rest)
  \/ /\ command.kind = "remove"
     /\ removeComponentImmediate(command.entity, command.component, rest)
  \/ /\ command.kind = "subscribe"
     /\ subscribeEntityImmediate(command.entity, command.system, rest)
  \/ /\ command.kind = "unsubscribe"
     /\ unsubscribeEntityImmediate(command.entity, command.system, rest)
  \/ /\ command.kind = "destroy"
     /\ destroyEntityImmediate(command.entity, rest)

-----------------------------------------------------------------------------
(* User code, in the main program or in a hook. *)
Commands ==
  [kind : {"destroy"}, entity : AnyHandle]
    \cup [kind : {"add", "remove"}, entity : AnyHandle, component : Components]
    \cup [kind : {"subscribe", "unsubscribe"}, entity : AnyHandle, system : Systems]

(* Bound: an entity is destroyed only while its slot may still be recycled. *)
WithinBounds(command) ==
  command.kind = "destroy" /\ isActive(command.entity)
    => generations[command.entity.slot] < MaxGeneration

CreateCall ==
  /\ UserCodeRuns
  /\ createEntity
  /\ UNCHANGED managerVars

ImmediateCall(command) ==
  /\ UserCodeRuns
  /\ Len(stack) < MaxDepth
  /\ MayChange(command)
  /\ WithinBounds(command)
  /\ Perform(command, stack)

(* DeferredChangeQueue: a change to an inactive entity is not queued. *)
DeferredCall(m, command) ==
  /\ UserCodeRuns
  /\ MapThenSumSet(LAMBDA n : Len(deferred[n]), Managers) < MaxQueue
  /\ WithinBounds(command)
  /\ isActive(command.entity)
  /\ deferred' = [deferred EXCEPT ![m] = Append(@, command)]
  /\ UNCHANGED <<entityVars, components, subscribed, entitySystems, stack>>

-----------------------------------------------------------------------------
(* A hook or a destructor returns to the operation that called it. *)

subscribeInternalReturns ==
  /\ Running("subscribing")
  /\ LET e == Top.entity
         s == Top.system
     IN  /\ subscribed' = [subscribed EXCEPT ![s] = @ \cup {e.slot}]
         /\ entitySystems' = [entitySystems EXCEPT ![ManagerOf[s]][e] = Append(@, s)]
  /\ stack' = Below
  /\ UNCHANGED <<entityVars, components, deferred>>

unsubscribeReturns ==
  /\ Running("unsubscribing")
  /\ LET e == Top.entity
         s == Top.system
     IN  /\ subscribed' = [subscribed EXCEPT ![s] = @ \ {e.slot}]
         /\ entitySystems' = [entitySystems EXCEPT ![ManagerOf[s]][e] = RemoveFirst(@, s)]
  /\ stack' = Below
  /\ UNCHANGED <<entityVars, components, deferred>>

(* The presence bit outlives the object. *)
removeReturns ==
  /\ Running("removing")
  /\ components' = [components EXCEPT ![Top.component][Top.entity.slot] = NoOwner]
  /\ stack' = Below
  /\ UNCHANGED <<entityVars, subscribed, entitySystems, deferred>>

-----------------------------------------------------------------------------
(* checkEntitySubscriptions of every manager: the loop of                   *)
(* removeComponentImmediate.  "at" is the iterator.                         *)

(* Positions of the walked list, from the iterator on, whose system no      *)
(* longer accepts the entity.                                                *)
Unfit(frame) ==
  {i \in frame.at .. Len(SystemsOf(frame.entity, frame.manager)) :
     ~shouldProcessEntity(SystemsOf(frame.entity, frame.manager)[i], frame.entity)}

checkNextManager ==
  /\ Running("checking")
  /\ ~Top.inHook
  /\ Top.manager = NoManager
  /\ \E m \in Top.managers :
       stack' = Append(Below, [Top EXCEPT !.managers = @ \ {m}, !.manager = m, !.at = 1])
  /\ UNCHANGED <<entityVars, components, subscribed, entitySystems, deferred>>

(* The iterator passes the systems that still accept the entity and calls   *)
(* onEntityUnsubscribed of the first that does not.                         *)
checkFindsUnfit ==
  /\ Running("checking")
  /\ ~Top.inHook
  /\ Top.manager # NoManager
  /\ Unfit(Top) # {}
  /\ stack' = Append(Below, [Top EXCEPT !.at = Min(Unfit(Top)), !.inHook = TRUE])
  /\ UNCHANGED <<entityVars, components, subscribed, entitySystems, deferred>>

(* Mutant: the iterator skips the element after the erased one. *)
iteratorSkips(at) == at + 1

(* it = entitySystems.erase(it). *)
iteratorAfterErase(at) == at

checkUnsubscribes ==
  /\ Running("checking")
  /\ Top.inHook
  /\ LET e == Top.entity
         s == SystemsOf(e, Top.manager)[Top.at]
     IN  /\ subscribed' = [subscribed EXCEPT ![s] = @ \ {e.slot}]
         /\ entitySystems' =
              [entitySystems EXCEPT ![Top.manager][e] = RemoveAt(@, Top.at)]
  /\ stack' = Append(Below, [Top EXCEPT !.inHook = FALSE,
                                        !.at = iteratorAfterErase(@)])
  /\ UNCHANGED <<entityVars, components, deferred>>

checkManagerDone ==
  /\ Running("checking")
  /\ ~Top.inHook
  /\ Top.manager # NoManager
  /\ Unfit(Top) = {}
  /\ stack' = Append(Below, [Top EXCEPT !.manager = NoManager])
  /\ UNCHANGED <<entityVars, components, subscribed, entitySystems, deferred>>

checkReturns ==
  /\ Running("checking")
  /\ Top.manager = NoManager
  /\ Top.managers = {}
  /\ stack' = Below
  /\ UNCHANGED <<entityVars, components, subscribed, entitySystems, deferred>>

-----------------------------------------------------------------------------
(* destroyEntityImmediate. *)

(* unsubscribeFromAll copies the list of one manager's systems ... *)
destroyNextManager ==
  /\ Running("destroying")
  /\ Top.pending = <<>>
  /\ \E m \in Top.managers :
       stack' = Append(Below, [Top EXCEPT !.managers = @ \ {m},
                                          !.pending = SystemsOf(Top.entity, m)])
  /\ UNCHANGED <<entityVars, components, subscribed, entitySystems, deferred>>

(* ... and calls unsubscribe on each, which skips the ones left meanwhile.  *)
destroyUnsubscribes ==
  /\ Running("destroying")
  /\ Top.pending # <<>>
  /\ LET e == Top.entity
         s == Head(Top.pending)
         rest == Append(Below, [Top EXCEPT !.pending = Tail(@)])
     IN  stack' = IF Lists(e, s)
                  THEN Append(rest, [op |-> "unsubscribing", entity |-> e, system |-> s])
                  ELSE rest
  /\ UNCHANGED <<entityVars, components, subscribed, entitySystems, deferred>>

(* Mutant: no storage is asked to clear the slot. *)
removeNothing(e) == [op |-> "clearing", entity |-> e, storages |-> {}]

(* ComponentManager::removeEntity copies the callbacks of the storages; a   *)
(* storage that does not exist yet is one that holds nothing.                *)
removeEntity(e) == [op |-> "clearing", entity |-> e, storages |-> Components]

destroyLeftSystems ==
  /\ Running("destroying")
  /\ Top.pending = <<>>
  /\ Top.managers = {}
  /\ stack' = Append(Below, removeEntity(Top.entity))
  /\ UNCHANGED <<entityVars, components, subscribed, entitySystems, deferred>>

(* Each callback removes the component if its storage has one. *)
removeEntityCallback ==
  /\ Running("clearing")
  /\ \E c \in Top.storages :
       LET rest == Append(Below, [Top EXCEPT !.storages = @ \ {c}]) IN
         stack' = IF components[c][Top.entity.slot] # NoOwner
                  THEN Append(rest, [op |-> "removing", entity |-> Top.entity,
                                     component |-> c])
                  ELSE rest
  /\ UNCHANGED <<entityVars, components, subscribed, entitySystems, deferred>>

destroyFreesSlot ==
  /\ Running("clearing")
  /\ Top.storages = {}
  /\ destroyEntity(Top.entity)
  /\ stack' = Below
  /\ UNCHANGED <<components, subscribed, entitySystems, deferred>>

-----------------------------------------------------------------------------
(* flushDeferred, called by update() between systems: swaps the queue away  *)
(* and applies the commands outside the lock, in order.                      *)
flushDeferred(m) ==
  /\ stack = <<>>
  /\ deferred[m] # <<>>
  /\ stack' = <<[op |-> "flushing", batch |-> deferred[m]]>>
  /\ deferred' = [deferred EXCEPT ![m] = <<>>]
  /\ UNCHANGED <<entityVars, components, subscribed, entitySystems>>

flushExecutes ==
  /\ Running("flushing")
  /\ Top.batch # <<>>
  /\ Perform(Head(Top.batch), Append(Below, [Top EXCEPT !.batch = Tail(@)]))

flushReturns ==
  /\ Running("flushing")
  /\ Top.batch = <<>>
  /\ stack' = Below
  /\ UNCHANGED <<entityVars, components, subscribed, entitySystems, deferred>>

ManagerNext ==
  \/ CreateCall
  \/ \E command \in Commands : ImmediateCall(command)
  \/ \E m \in Managers, command \in Commands : DeferredCall(m, command)
  \/ subscribeInternalReturns
  \/ unsubscribeReturns
  \/ checkNextManager \/ checkFindsUnfit \/ checkUnsubscribes
  \/ checkManagerDone \/ checkReturns
  \/ removeReturns
  \/ destroyNextManager \/ destroyUnsubscribes \/ destroyLeftSystems
  \/ removeEntityCallback \/ destroyFreesSlot
  \/ \E m \in Managers : flushDeferred(m)
  \/ flushExecutes \/ flushReturns

ManagerSpec == ManagerInit /\ [][ManagerNext]_vars

-----------------------------------------------------------------------------
(* Types of the state. *)
ManagerTypeOK ==
  /\ EntityTypeOK
  /\ components \in [Components -> [Slot -> Handle \cup {NoOwner}]]
  /\ subscribed \in [Systems -> SUBSET Slot]
  /\ entitySystems \in [Managers -> [Handle -> Seq(Systems)]]
  /\ deferred \in [Managers -> Seq(Command)]
  /\ stack \in Seq(Frame)

(* "Tracks bidirectional entity-system subscriptions" (SystemManager): the  *)
(* bitmap a system iterates and the list of each live entity say the same,  *)
(* no list names a system twice, and a dead entity is listed nowhere.        *)
SubscriptionsMirrored ==
  /\ \A s \in Systems, e \in Handle :
       Lists(e, s) <=> e \in LiveHandles /\ e.slot \in subscribed[s]
  /\ \A s \in Systems : subscribed[s] \subseteq aliveSlots
  /\ \A m \in Managers, e \in Handle : IsInjective(SystemsOf(e, m))

(* A slot holds only components added for the entity that lives in it now:  *)
(* a recycled slot starts empty.                                            *)
NoStaleComponents ==
  \A c \in Components, slot \in Slot :
    components[c][slot] # NoOwner =>
      slot \in aliveSlots /\ components[c][slot] = HandleOf(slot)

(* The walk of removeComponentImmediate has not reached system s of e yet.  *)
StillToCheck(frame, e, s) ==
  /\ frame.op = "checking"
  /\ frame.entity = e
  /\ \/ ManagerOf[s] \in frame.managers
     \/ /\ frame.manager = ManagerOf[s]
        /\ \E i \in frame.at .. Len(SystemsOf(e, frame.manager)) :
             SystemsOf(e, frame.manager)[i] = s

(* An entity is subscribed only while it has the components the system      *)
(* requires, save for the systems that the removal of a component has still *)
(* to check: whatever systems read through the bitmap join is there.         *)
SubscribedHaveRequired ==
  \A s \in Systems : \A slot \in subscribed[s] :
    \/ shouldProcessEntity(s, HandleOf(slot))
    \/ \E i \in 1 .. Len(stack) : StillToCheck(stack[i], HandleOf(slot), s)

HookCalls(e, s, op) ==
  {i \in 1 .. Len(stack) :
     \/ stack[i].op = op /\ stack[i].entity = e /\ stack[i].system = s
     \/ /\ op = "unsubscribing"
        /\ stack[i].op = "checking"
        /\ stack[i].inHook
        /\ stack[i].entity = e
        /\ SystemsOf(e, stack[i].manager)[stack[i].at] = s}

(* The lifecycle of ISystemCore: for one entity and system, the two hooks   *)
(* alternate.  onEntitySubscribed runs once and while not subscribed,       *)
(* onEntityUnsubscribed once and while still subscribed, never both.        *)
HooksAlternate ==
  \A s \in Systems, e \in LiveHandles :
    LET entering == HookCalls(e, s, "subscribing")
        leaving == HookCalls(e, s, "unsubscribing")
    IN  /\ Cardinality(entering \cup leaving) <= 1
        /\ entering # {} => ~Lists(e, s)
        /\ leaving # {} => Lists(e, s)

(* Whose operation is running when a step takes something from an entity.   *)
ActsFor(e) ==
  \/ stack # <<>> /\ Top.op # "flushing" /\ Top.entity = e
  \/ stack' # <<>> /\ Last(stack').op = "checking" /\ Last(stack').entity = e

(* However calls nest and slots are recycled meanwhile, an entity loses a   *)
(* component, a subscription or its life only in an operation on itself.    *)
LossesAreOwn ==
  [][\A e \in LiveHandles :
       \/ e \notin LiveHandles'
       \/ \E c \in Components : hasComponent(e, c) /\ ~hasComponent(e, c)'
       \/ \E s \in Systems : e.slot \in subscribed[s] /\ e.slot \notin subscribed'[s]
       => ActsFor(e)]_vars

(* The comment on destroyEntityImmediate: "Unsubscribes from systems,       *)
(* removes components, then frees the slot."  A slot is in no system's       *)
(* bitmap when it is freed.                                                  *)
FreedSlotUnsubscribed ==
  [][\A slot \in aliveSlots \ aliveSlots' :
       \A s \in Systems : slot \notin subscribed'[s]]_vars

(* The slot-keyed state implements the handle-keyed world of EntityWorld.   *)
World == INSTANCE EntityWorld WITH
  live <- LiveHandles,
  Component <- Components,
  System <- Systems,
  Required <- Requires,
  has <- [e \in Handle |-> {c \in Components : hasComponent(e, c)}],
  subs <- [e \in Handle |->
             {s \in Systems : e \in LiveHandles /\ e.slot \in subscribed[s]}]

ImplementsWorld == World!WorldSpec
=============================================================================
