# Orhescyon in TLA+

Orhescyon is a header-only entity component system for C++20. This directory
holds TLA+ modules for its core, the TLC configurations that check them and
TLAPS proofs, for every value of the constants, of all the safety properties and
refinements that the passing runs check. Paths below are under
`src/include/Orhescyon/`.

## 1. The system

A `GeneralManager` owns an `EntityManager`, a `ComponentManager`, any number of
named `SystemManager`s, a `DeferredChangeQueue`, a `ContextManager` and a job
system. User systems derive from `SystemCore`, iterate the entities subscribed
to them in `update()`, and get hooks when an entity is subscribed or
unsubscribed.

| Component | State | Operations | Must be right |
|---|---|---|---|
| `Entitys/EntityManager` | generation of each slot, free list, bitmap of live slots | createEntity, destroyEntity, isActive, forEachActiveEntity | a stale handle never names another entity; no slot leaks or is shared |
| `Entitys/SlotBitmap` | growing table of atomic words, bit count | set, clear, test, word, reserveSlots | no bit lost while the table grows; the count settles |
| `Components/StablePool` | blocks, tagged head of a lock-free free list, counters | allocate, deallocate, at | one owner per index under any interleaving; counters never underflow |
| `Components/ComponentColumn`, `SparseComponentStorage` | blocks or pool, presence bitmap | add, remove, has, get | presence bit set exactly while the object lives |
| `Components/ComponentManager` | registry of storages | getOrCreateStorage, removeEntity | one storage per type; a dead entity leaves none of its components |
| `Systems/SystemManager`, subscriptions | bitmap of slots per system, list of systems per entity | subscribe, unsubscribe, unsubscribeFromAll, checkEntitySubscriptions | both sides agree; a subscribed entity has what the system requires |
| `Systems/SystemManager`, scheduling | systems, declarations, dirty flag, layers | addSystem, before/after/reads/writes, resolveExecutionSequence | parallel systems do not race; declared order holds; a stale schedule is never run |
| `Systems/SystemManager`, update | layer in progress | updateSystems | layers are barriers; the queue is flushed after each |
| `Deferred/DeferredChangeQueue` | a command queue per manager | five commands, flushDeferred | every command once, in order, and only to the entity it named |
| `Jobs/JobPool`, `JobGroup`, `JobResult` | workers, task queue, counter per call | submit, submitAsync, parallelFor, wait, destructor | no lost wakeup; waits end with all work done; the destructor joins |
| `Jobs/DefaultJobSystem` | pool, thread-local flag | parallelFor | nested calls do not exhaust the workers |
| `Views/ComponentView` | the words and slots still to visit | join of bitmaps, sequential and parallel | each matching entity once, with its current handle |
| `Contexts/ContextManager` | entity per context type | registerContext, getContext | a context names a live entity |

How they interact. `update(name)` calls `SystemManager::updateSystems`, which
resolves the layers if they are dirty, runs each layer (a single system
directly, several through `IJobSystem::parallelFor`) and then calls
`flushDeferred`, whose commands call the immediate operations of
`GeneralManager`. Those change entities, components and subscriptions and call
the subscription hooks and the destructors of components, which may call any
operation again, an update of another manager included. Structural changes
belong to one thread; systems that run in parallel may create entities, iterate
views and issue deferred commands (`EntityManager`, `SlotBitmap`, the storages,
their registry and the queue are synchronised for it). `EntityManager`,
subscriptions and storages share `SlotBitmap`; a view reads the bitmaps of a
system and of storages and asks the registry for the storages it lacks.

What is hard: handles that outlive their entity; operations that call user code
between a check and the change it justifies, or after a list was copied; commands queued now and applied to
a world that has moved on; layers computed from declarations that may change; a
lock-free free list; arrays that grow under lock-free readers, with bits and
counts that change apart; waits, wakeups and shutdown in the pool; nested parallel
loops. `PROJECT.json` lists each hazard at its line.

## 2. Modules

| Module | Models | State and actions |
|---|---|---|
| `HandleAllocator` | the promise of `EntityManager` | live and issued handles; Create, Destroy |
| `EntityManager` | `EntityManager.hpp` | `generations`, `freeSlots`, `aliveSlots` as in the code; every operation is one critical section, so one action; `issued` is history |
| `GeneralManagerProofs` | theorems of `EntityManager`, then of `GeneralManager` | |
| `SystemManagerProofs` | theorems of `ExecutionLayers`, then of `UpdateLoop`: the two halves of `SystemManager.hpp` | |
| `JobPoolProofs` | theorems of `JobPool` and `DefaultJobSystem` | |
| `SlotBitmapProofs`, `StablePoolProofs`, `StorageForProofs`, `ComponentViewProofs` | theorems of the module each is named after; `StorageForProofs` is about both storages | |
| `OperatorLemmas` | lemmas about sequences, minima and remainders that several of these use | |
| `EntityWorld` | the promise of `GeneralManager`, by handle | components and subscriptions of each live entity; an entity is destroyed when it has neither |
| `GeneralManager` (extends `EntityManager`) | structural changes, subscriptions, hooks, component destructors, deferred commands | `stack` is the C++ call stack of unfinished operations; user code runs when it is empty or its top is in a hook or a destructor |
| `ExecutionLayers` | declarations and `resolveExecutionSequence` | `metadata`, `dirty`, `layers`; registration, declarations and resolution are actions |
| `UpdateLoop` | `updateSystems` and `flushDeferred` | `updates` is the stack of updates under way, each with its layer and the batch it applies; the running systems and the queues |
| `SlotSet` | the promise of `SlotBitmap` | a set of slots and the calls under way |
| `SlotBitmap` | `SlotBitmap.hpp` | pages, bits, word count and bit count; one action per atomic operation, `pc` is the thread's place in the code |
| `IndexPool` | the promise of `StablePool` | indices taken and given back |
| `StablePool` | `StablePool.hpp` | one action per atomic operation |
| `ComponentStore` | the promise of either component storage | a partial function from slots to values and the calls under way |
| `StorageCalls` | what the two storages share | presence set (a `SlotSet`), objects in memory, `pc` and locals of each thread; lookups |
| `SparseComponentStorage` (over `IndexPool`) | `SparseComponentStorage.hpp` | pages and entries of the sparse index, pool indices |
| `ComponentColumn` | `ComponentColumn.hpp` | tables, blocks, live counts; types with data and tags |
| `StorageFor` | `ComponentManager::StorageFor` | chooses one of the two, and holds the properties both must have |
| `ComponentView` (extends `EntityManager`) | `ComponentView.hpp` and the registry of `ComponentManager` | storages, words and slots each view has still to get, begin and visit |
| `JobPool` | `JobPool.hpp`, `JobGroup.hpp`, `JobResult.hpp` | workers, queue, calls and the destructor; critical sections and atomic operations are steps, a notification is a step after its change |
| `DefaultJobSystem` (extends `JobPool`) | `DefaultJobSystem.hpp` | adds the thread-local flag and the inline calls of each thread |

`MCGeneralManager`, `MCExecutionLayers`, `MCUpdateLoop`, `MCSlotBitmap`,
`MCStablePool`, `MCStorageFor` and `MCComponentView` hold the values and
symmetries of the instances. Operators marked "Mutant" are single plausible
errors, used to make sure that each property can fail.

Refinements, checked and proved: `EntityManager` implements `HandleAllocator`
(`ImplementsAllocator`), `GeneralManager` implements `EntityWorld`
(`ImplementsWorld`), `SlotBitmap` implements `SlotSet` (`ImplementsSlotSet`),
`StablePool` implements `IndexPool` (`ImplementsIndexPool`) and both storages
implement `ComponentStore` (`ImplementsStore`). They stack: the storages are
written over `SlotSet` and `IndexPool`, `GeneralManager` and `ComponentView` over
sets of slots and partial functions.

### Correspondence worth knowing

- `GeneralManager`: `subscribeEntityImmediate` up to its hook is one action,
  `subscribeInternalReturns` is the rest; likewise `unsubscribe`. The loops of
  `checkEntitySubscriptions` and `unsubscribeFromAll` take one action per
  element, since a hook may run in each. The order in which managers are visited
  is that of an `unordered_map`, so it is chosen freely. A component is
  represented by the handle it was added for, which is how a component inherited
  through a recycled slot shows.
- Removing a component: its destructor runs before its presence bit is cleared,
  and the subscriptions are checked after both. `removeEntity` copies the
  callbacks of the storages there are and runs them in any order; a storage that
  does not exist yet is one that holds nothing.
- `ExecutionLayers`: Kahn's algorithm is a recursive function giving the systems
  processed after n layers; the split at write conflicts places the systems of a
  layer one by one in registration order (`Place`), first fit as in the code.
- `UpdateLoop`: a command is its number in its queue and how many flushes of that
  queue it has to wait for. Numbers are counted modulo more than can be
  outstanding, so that behaviours are infinite and the state space is not. Two
  threads are visible: the updating one, whose nested calls are the stack, and
  whoever issues commands, at any moment.
- `SlotBitmap`: `set` is two steps, the word and then the count, with growth
  before; a sweep takes a word a step. `due` is what a sweep must not miss:
  the slots set when it began that nobody has cleared since.
- `StablePool`: blocks are a set; the tables that hold them are created on the
  way and not told apart. A constructor may throw.
- The storages: a call takes effect at the step that changes or reads the
  presence bit or the object, where its frame becomes `done`. Constructors may
  throw. A column of tags has presence bits and counts and no memory. `reserve`
  of the sparse storage only reaches the pool, where it is invisible.
- `ComponentView`: a view starts in any world structural changes can leave,
  given as initial states: any live slots, any components and subscriptions, bitmaps of
  any length that covers them, storages that exist or not. A storage bears the
  name of the thread that made it, so two of one type would show.
- `JobPool`: `JobResult` is a group of one task, since a status that leaves
  Pending once is a counter that goes from one to zero. Its `get()` aborts on a
  cancelled task exactly as `JobGroup::wait()` does.

## 3. Runs

| Run | Instance | Shows |
|---|---|---|
| `hooks` | 2 slots recycled twice, 2 systems of one manager with the same requirement, calls nested 3 deep | handles, slots and free list consistent and a stale handle harmless; subscriptions mirrored, hooks alternate, nothing inherited by a recycled slot; both refinements |
| `queues` | 2 managers, 1 recycled slot, 2 commands queued at once, 2 deep | a command whose entity is gone touches nobody; a removal and a destroy reach every manager |
| `layers` | 3 types, 2 components, 3 systems, 3 declarations | race-free, ordered, run by depth and split only at write conflicts; aborts exactly when no schedule exists; never stale |
| `updates` | 2 managers, one with a parallel layer and a single one, queues of 2, updates inside updates | commands once, in order, by the next flush; layers are barriers; updates end |
| `bitmap` | 2 threads, 3 slots in words of 2 bits, up to 4 words in 3 pages, one reservation | a set of slots at every interleaving of growth, changes and sweeps; pages before words; an exact count at rest |
| `pool` | 2 threads, 3 indices in 2 blocks, 5 changes of the head | free list intact under ABA, one owner per index, counters in step |
| `storages` | 2 threads, 3 slots in 2 blocks and one sparse page, 2 values, each kind of storage | no object leaked, overwritten or destroyed twice; counts exact at rest; one partial function |
| `views` | 2 views, sequential or parallel, 2 component types of which one in a column, 3 slots in 2 words | one storage per type; exactly the matching entities, once each, with their current handles |
| `job_pool` | 2 workers, 1 caller with 2 calls of up to 3 iterations, destructor at any time | no lost wakeup, exact counting, every iteration once, waits and destructor end |
| `job_system` | 2 workers, 2 iterations, 2 calls per thread | nested calls run inline and everything ends |
| `hook_resubscribes` | violated | see findings |
| `hook_reenters` | violated | see findings |

The type invariants document the state and come first in each inductive
invariant, and all are proved (section 4).

Why these bounds. Two generations of a slot are what it takes for a stale
handle to meet a new occupant; the second recycling of `hooks` tells an order
of generations from a flag. Two systems give a list with a neighbour of the
erased element; a third level of nesting is an operation inside a hook inside an
operation of a hook. Three systems give a pair ordered through a third and a
layer with two members to split. Two managers give an update inside an update,
whose flush runs in the middle of another's. Two threads and three indices
suffice for ABA (pop, pop, push of the first by the other thread), and two blocks
for a race in growth. In `bitmap` the slots lie in the first, the second and the
last word, so that growth installs one page, several at once and one that the other
thread is installing, and the reservation ends inside a page. In `storages` two
slots share a block and the third has its own. In `views` a word is full, partly
filled or cut off by the shortest bitmap. Three iterations on two workers have a
remainder. Where a bound stops the model (tags, calls, declarations), a view ends or the
code aborts, or a storage or a pool is destroyed, deadlock is not checked.

### Fairness

Only `UpdateLoop`, `JobPool` and `DefaultJobSystem` have liveness properties.
Weak fairness is assumed for a worker, for a thread inside a call, for the
destructor once it has begun, for the updating thread and for a system that
parallelFor is to start: the operating system schedules runnable threads and user
code returns. A system, or a command of a manager, that keeps calling updates of
other managers would never return; strong fairness of their returns says that
they do not. Nothing is assumed of user decisions (starting a call, an update or the
destructor, issuing a command) nor of spurious wakeups, so no property depends
on one. `notify_one` may wake any sleeper.

### Assumptions about user code

- Structural changes are made by one thread, as `GeneralManager` documents, and
  not while views iterate; callbacks of views may create entities (`README.md`
  of the repository, "Iteration").
- In the passing runs hooks and component destructors do not: destroy an entity,
  or remove a component of it, while an operation on it is unfinished; change its
  subscription to their own system; subscribe it to anything while it is being
  destroyed; or change the subscription list `checkEntitySubscriptions` is walking
  (in the code that invalidates an iterator). They may do anything else, to it and
  to other entities, and may queue commands of every kind. `HookScope = "same"`
  lifts all but the last for the two violated runs; there too destructors do not
  subscribe the entity whose components are being cleared, so that
  `hook_resubscribes` is about hooks. Destructors give no component
  to an entity whose components are being cleared, and none of its own type to the
  entity it is removed from.
- Of one storage, different threads add, find and remove components of different
  entities; lookups may run beside a first add of the same component
  (`GMComponentTests.cpp`), an overwrite or a removal has its slot to itself, and
  the storage is destroyed when no call is under way. Destructors of components
  call nothing there: what they may call is the subject of `GeneralManager`.
- User code updates other managers than those being updated. An update of the
  same manager would apply new commands before the rest of the outer batch, and
  rebuild dirty layers under the loop that walks them.
- No slot is recycled 2^32 times (`EntityBounds`).
- Bodies of jobs and systems return and do not throw.

### Findings

- `hook_resubscribes`: `destroyEntityImmediate` unsubscribes from a copy of the
  entity's list. An `onEntityUnsubscribed` hook that subscribes the entity to
  another system is accepted, since the entity is still active, and the freed
  slot stays in that system's bitmap. The next entity in the slot is iterated by
  a system it never joined.
- `hook_reenters`: `subscribeInternal` checks for duplicates, calls
  `onEntitySubscribed`, then records. A hook that subscribes the entity to the
  same system gets the system listed twice; one unsubscribe then clears the
  bitmap and leaves the list.

Read in the source and not covered by a run:

- a component destructor called by `ComponentManager::removeEntity`, which
  `destroyEntityImmediate` calls after `unsubscribeFromAll`, may subscribe the
  dying entity as well; no list is left to be walked and the freed slot stays in
  the bitmap as in `hook_resubscribes`;
- `before()` and `after()` that name a type registered more than once concern the
  instance registered last (`SystemManager.hpp:236`); the others run unordered
  with respect to it. The models and `OrderRespected` say the same;
- a layer split at a write conflict is a barrier to everything deeper: with systems
  a and b that write the same component and c after a, the layers are {a}, {b},
  {c}, and c waits for b, which it need not follow. `LayeredByDepth` says what
  the code does guarantee, and no property says that layers are as wide as the
  declarations allow;
- the comment on `registerSystemManager` says duplicates "warn+skip" and the code
  aborts; the messages of the deferred queue say "Command ignored." and the code
  aborts;
- `getContextComponent` (`GeneralManager.hpp:442`) "Skips the active-entity
  check", but it calls `getComponent`, which makes it;
- the lifecycle of `Systems/ISystemCore.hpp:10` ends with `onShutdown` after the
  last `onEntityUnsubscribed`. The destructor of `GeneralManager` only calls
  `onShutdown`: entities still subscribed then get no `onEntityUnsubscribed`, and
  one that a later system's `onShutdown` destroys gets it on a system already
  shut down.

## 4. Proofs

TLAPS proves, for every value of the constants that meets the assumptions of the
module, every safety invariant, action property and refinement that a passing run
checks; `PROJECT.json` pairs each theorem with the property it
states. Every proof has the same shape: an invariant `...Inv` that begins with
the types, a lemma for each action that the action keeps it,
and the properties as consequences. None of the properties is inductive alone;
what each needs is the argument. The assumptions are that bounds are numbers,
that sets of threads, systems or types are finite where they are counted, and
that names the code keeps apart are different; TLC evaluates them in the runs.

`EntityManager` (in `GeneralManagerProofs`, from `EntityBounds`). `EntityInv` joins types, the
partition of the slots and the dating of handles. That a recycled slot is not
alive needs the partition; that the handle it then yields was never issued needs
the dating (an issued handle with the current generation belongs to a live slot);
and the dating survives a destroy because the generation moves past the handle
destroyed, which is where `EntityBounds` is used. The run `hooks` checks these
properties with `GeneralManager` as the caller; the theorems are about any caller,
and `ManagerUsesEntityManager` makes `GeneralManager` one.

`GeneralManager` (with `HookScope = "others"`, that is, user code as in
section 3). The difficulty is that an operation is interrupted, in the middle of
a loop over a copied list, by user code that starts others. `ManagerInv` says
which operation may be open above which (`Nested`: user code called for an entity
works on that entity only by operations that leave its components and its place
in the interrupted loop alone), what each unfinished call still relies on
(`FrameHolds`), and that every system a dying entity is still in, and every component it still has, is
yet to be reached by its destroy or is in the hands of the operation above it
(`DestroysGoOn`). So
`SubscriptionsMirrored` holds but for the one subscription a hook is being called
about. In the refinement a component belongs to the handle now in its slot, and
subscriptions are read from the entities' lists. The two violated runs show that
the assumption on hooks is needed.

`ExecutionLayers` (in `SystemManagerProofs`, from `SchedulingAssumptions`). The work is in what
`resolveExecutionSequence` computes for any declarations. `UpTo` is induction over
an interval, from the least counterexample, and `Iterated` gives a function
defined step by step; with these two the recursive functions of the model can be
reasoned about. `Sublayers` says what placing the systems of a layer one by one
has achieved so far: each once, no two that write the same, and for everything
past a sublayer a system in it that was registered before and conflicts. `Layered` says the same of the
rounds so far: a system ready in a round has all its predecessors in earlier ones
and no edge to another of its round, which is why no reader shares a layer with
a writer. The round of a system (`Round`) is one more than the last round of its
predecessors, hence its depth in the declared order (`Depths`); so the layers go
by depth, and two systems equally deep are in different layers only through a
split (`LayeredByDepth`). The step invariant is then short, since each registration and each
declaration makes the order dirty. For the aborts: the rounds
rank the systems, and under any ranking a system of rank n is processed by round n.

`UpdateLoop` (in `SystemManagerProofs`, from `UpdateAssumptions`: finitely many systems, each in one
layer of one manager, which `EverySystemOnce`, proved above, gives). Batch and queue of a
manager hold together the numbers from `applied` to `issued`, in order and without
a gap (`Consecutive`); a queued command has one flush to wait for and one in the
batch none (`Dues`). Only the innermost update runs a layer in parallel, since user
code that starts an update is in a single system or a command; hence a barrier
holds for outer updates too.

`SlotBitmapProofs` (from `BitmapAssumptions`). The page of a word is the width
of its index, shown monotone by counting subsets, so "all pages up to that of the
last word" is an interval. Each thread's place says which pages it has seen to:
those below the one at hand while it grows, all of them when it publishes. Pages
and word count only grow, so no other thread can take this away. What a sweep has
still to find lies in words ahead of it. For the count, the changes still owed are
a set of pairs (`Owed`), whose size moves with each bit changed and each change
counted. For the refinement, every step either is invisible, or is the
one at which the call takes effect.

`StablePoolProofs` (from the assumptions on blocks and bounds). The heart is ABA:
a tag only grows, so if the head still has the tag a thread loaded then nothing
was pushed or popped since, and the successor it loaded is still the successor. A
push writes only the link of an index that its thread holds. Indices below the
capacity are free, live, or held by one thread, and never two of these
(`OwnersDisjoint`, `OwnersCover`); blocks are there before the capacity counts
them; the counters differ from the truth by the threads between a change and its
count.

`StorageForProofs` (from `StorageAssumptions`: finitely many threads). What
the callers promise is that calls other than lookups are apart
(`CallsApart`): an overwrite and a removal have their slot to themselves. What a
thread found out about its slot then stays true to the end of its call, which
`SparseThread` and `ColumnThread` say label by label. In the sparse
storage a removal returns its pool index before it clears entry and bit, so a
present slot may name an index that is another's by then; `IndicesShared` gives
every index out of the pool to one present slot not being removed (`Counted`), or to
one thread between taking an index and setting the bit or between destroying the
object and returning the index. `SparseObjects` and `ColumnObjects` say that objects
live exactly there, and `ObjectsOwned` follows. Tables and blocks are only ever
added, so one that a thread saw stays. For the counts, the threads that have
still to add or to subtract one are a set; a thread that has still to add has its own present
slot, so a count is never below zero (`CountsFit`). In the refinement a call takes
effect at the step that makes its frame `done`, or for a column of tags at the bit; a slot being
removed has left the function before its bit is cleared (`Filled`), and all other steps
leave the contents and the calls of `ComponentStore` alone (`SparseHidden`,
`ColumnHidden`).

`ComponentViewProofs` (from `ViewAssumptions`: the words cover the slots, and the
names of places are not types). A storage enters the registry once and is
never replaced, so what a view holds stays the registry's (`StoragesShared`). Of a
view that has counted its words, each matching slot is in a word to begin, left in a
word begun, or visited, and in one of these only (`SlotsShared`); that none is
lost when the shortest bitmap cuts the words off is where the bitmaps' covering of
their slots is needed (`BitmapsCover`). `SlotsAscend` adds the order of a
sequential view: one word open, below all to begin and above all visited. An
entity created by a callback takes a slot that no view has a bit for.

`JobPoolProofs` (`MaxCount` at least 1). Every task a call waits for is of that
call (`TasksKnown`), and its counter is the number of its tasks in the submit in
progress, in the queue, discarded or running (`RemainingHeld`), so it cannot be
zero while a task is held and a late `finish` cannot touch a later call. Each
iteration has run once or is in exactly one held task (`IterationsShared`): the
starts of the chunks, with the remainder spread over the first ones, cut the
iterations without gap or overlap. For `DefaultJobSystem` the flag is up exactly
inside bodies, so workers, which only call from there, only make inline calls.

`OperatorLemmas` states what pushing, popping, replacing and removing do to the
length and elements of a sequence, that a set of numbers has a least element, and
what `%` is near its modulus.

What is model-checked only:

- liveness: `UpdateEnds`, `WaitsEnd`, `DestructorReturns`, `ParallelForEnds`,
  which rest on fairness and are beyond this prover;
- the behaviours of hooks outside the assumption (the violated runs).

## 5. Not modelled

- `ContextManager`: a map from a type to the last entity registered for it, read
  and written on one thread without conditions; a model would restate the map.
- Registration of systems and managers while entities exist, `onRegistered`,
  `onShutdown` and the destructor of `GeneralManager`; `setJobSystem`.
- Systems registered during an update, and an update of a manager from inside its
  own.
- Weak memory orders: the models are sequentially consistent.
- `StablePool::reserveBlocks`, `JobResult::status()` and the value it stores.
- Exceptions on workers, which end the program.
- Statistics, compile-time traits, build and tests.

## 6. Plan

Done: all modules above and the proofs of section 4. Left: the lifecycle of
systems, that is, registration while entities exist and shutdown, and the
properties it should have (each subscribed entity is unsubscribed before its
system is shut down, which the code does not do today, see the findings).
