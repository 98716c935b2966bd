---------------------------- MODULE ComponentView ----------------------------
(***************************************************************************)
(* Views/ComponentView.hpp with the registry of ComponentManager.hpp: while *)
(* structural changes wait, systems of a layer iterate the subscribers of a *)
(* system, each by joining bitmaps word by word, and their callbacks create *)
(* entities.  A view makes the storages it lacks, also while others do.      *)
(***************************************************************************)
EXTENDS EntityManager

CONSTANTS
  Threads,     \* threads with a view
  Components,  \* component types
  Contiguous,  \* the types kept in a ComponentColumn: CONTIGUOUS_DATA
  Joined,      \* [Threads -> SUBSET Components]: the components of each view
  WordBits,    \* bits in a word: 64 in the code
  MaxWords,    \* bound: words of a bitmap
  Recycled,    \* the slots that are in their second life
  None         \* no storage

ASSUME ViewAssumptions ==
  /\ Contiguous \subseteq Components
  /\ Joined \in [Threads -> SUBSET Components]
  /\ WordBits \in Nat \ {0}
  /\ MaxWords \in Nat
  /\ MaxWords * WordBits >= MaxSlots
  /\ Recycled \subseteq Slot
  /\ Recycled # {} => MaxGeneration >= 1
  /\ Components \cap {"begin", "storages", "words", "end"} = {}
  /\ None \notin Threads \cup {"first"}

VARIABLES
  subscribed,       \* the slots of the iterated system's bitmap ...
  subscribedWords,  \* ... and its wordCount
  registry,         \* _componentStorages: the storage of each type; one made
                    \* during a view bears its thread's name
  presence,         \* the slots of each registered storage's bitmap ...
  presenceWords,    \* ... and its wordCount
  pc,               \* what each thread does next
  parallel,         \* whether a view is parallelForEachSubscribedEntityJoin
  storages,         \* storages: those each view holds
  wordCount,        \* wordCount of each view
  pending,          \* words each view has not begun
  open,             \* [thread -> [word begun -> slots still to visit]]
  visited           \* history: the handles passed to func, in order

world == <<subscribed, subscribedWords, presence, presenceWords>>
viewVars == <<world, registry, pc, parallel, storages, wordCount, pending, open, visited>>
vars == <<entityVars, viewVars>>

Words(n) == 0 .. n - 1
SlotsOf(word) == word * WordBits .. (word + 1) * WordBits - 1
CoverOf(slots) == {n \in 0 .. MaxWords : \A s \in slots : s \div WordBits < n}

(* Any world structural changes leave: components and subscriptions of live *)
(* entities, bitmaps at least as long as needed, storages of what there is.  *)
ViewInit ==
  /\ generations = [s \in Slot |-> IF s \in Recycled THEN 1 ELSE 0]
  /\ aliveSlots \in {alive \in SUBSET Slot : Slot \ alive \subseteq Recycled}
  /\ slotCapacity = MaxSlots
  /\ freeSlots \in SetToSeqs(Slot \ aliveSlots)
  /\ issued = {e \in Handle : e.generation < generations[e.slot] \/ e \in LiveHandles}
  /\ subscribed \in SUBSET aliveSlots
  /\ subscribedWords \in CoverOf(subscribed)
  /\ presence \in [Components -> SUBSET aliveSlots]
  /\ presenceWords \in [Components -> 0 .. MaxWords]
  /\ \A c \in Components : presenceWords[c] \in CoverOf(presence[c])
  /\ registry \in [Components -> {None, "first"}]
  /\ \A c \in Components : registry[c] = None => presenceWords[c] = 0
  /\ parallel \in [Threads -> BOOLEAN]
  /\ pc = [t \in Threads |-> "begin"]
  /\ storages = [t \in Threads |-> [c \in {} |-> None]]
  /\ wordCount = [t \in Threads |-> 0]
  /\ pending = [t \in Threads |-> {}]
  /\ open = [t \in Threads |-> [w \in {} |-> {}]]
  /\ visited = [t \in Threads |-> <<>>]

With(f, key, value) ==
  [k \in DOMAIN f \cup {key} |-> IF k = key THEN value ELSE f[k]]

Goto(t, label) == pc' = [pc EXCEPT ![t] = label]

(* A parallel view first asks for the subscriptions' setBitCount. *)
beginView(t) ==
  /\ pc[t] = "begin"
  /\ Goto(t, IF parallel[t] /\ subscribed = {} THEN "end" ELSE "storages")
  /\ UNCHANGED <<entityVars, world, registry, parallel, storages, wordCount, pending, open, visited>>

-----------------------------------------------------------------------------
(* getOrCreateStorage of each type, in any order.  The two critical sections*)
(* of _registryMutex are a step each.                                        *)

Hold(t, c, storage) == storages' = [storages EXCEPT ![t] = With(@, c, storage)]
Missing(t) == Joined[t] \ DOMAIN storages[t]

findStorage(t) ==
  /\ pc[t] = "storages"
  /\ \E c \in Missing(t) :
       /\ registry[c] # None
       /\ Hold(t, c, registry[c])
  /\ UNCHANGED <<entityVars, world, registry, pc, parallel, wordCount, pending, open, visited>>

(* The shared lock is released before the exclusive one is taken. *)
missStorage(t) ==
  /\ pc[t] = "storages"
  /\ \E c \in Missing(t) :
       /\ registry[c] = None
       /\ Goto(t, c)
  /\ UNCHANGED <<entityVars, world, registry, parallel, storages, wordCount, pending, open, visited>>

(* Mutant: the type is not looked up again under the exclusive lock. *)
NewStorage(t, c) == t
StorageAgain(t, c) == IF registry[c] = None THEN t ELSE registry[c]

createStorage(t) ==
  /\ pc[t] \in Components
  /\ LET c == pc[t] IN
       /\ registry' = [registry EXCEPT ![c] = IF @ = None THEN t ELSE @]
       /\ Hold(t, c, StorageAgain(t, c))
  /\ Goto(t, "storages")
  /\ UNCHANGED <<entityVars, world, parallel, wordCount, pending, open, visited>>

-----------------------------------------------------------------------------
(* A storage the registry does not hold has no bits. *)
Bits(t, c) == IF storages[t][c] = registry[c] THEN presence[c] ELSE {}

(* subscribedEntityJoinWordCount. *)
joinWordCount(t) ==
  /\ pc[t] = "storages"
  /\ Missing(t) = {}
  /\ wordCount' = [wordCount EXCEPT ![t] =
                     Min({subscribedWords} \cup {presenceWords[c] : c \in Joined[t]})]
  /\ pending' = [pending EXCEPT ![t] = Words(wordCount'[t])]
  /\ Goto(t, "words")
  /\ UNCHANGED <<entityVars, world, registry, parallel, storages, open, visited>>

Combined(t, word) ==
  {s \in SlotsOf(word) \cap subscribed : \A c \in Joined[t] : s \in Bits(t, c)}

(* Mutant: one matching slot is enough for the dense run. *)
AnyMatches(combined, word) == combined # {}
AllMatch(combined, word) == combined = SlotsOf(word)

(* A dense run takes all slots of the word, the bit scan those that match. *)
ToVisit(t, word) ==
  IF Joined[t] \subseteq Contiguous /\ AllMatch(Combined(t, word), word)
  THEN SlotsOf(word)
  ELSE Combined(t, word)

(* One word after the other, or every word a job of its own. *)
beginWord(t, word) ==
  /\ pc[t] = "words"
  /\ word \in pending[t]
  /\ ~parallel[t] => word = Min(pending[t]) /\ DOMAIN open[t] = {}
  /\ pending' = [pending EXCEPT ![t] = @ \ {word}]
  /\ open' = [open EXCEPT ![t] = With(@, word, ToVisit(t, word))]
  /\ UNCHANGED <<entityVars, world, registry, pc, parallel, storages, wordCount, visited>>

(* func(Entity{slot, generationOfSlot(slot)}, ...), lowest slot first. *)
visitSlot(t, word) ==
  /\ word \in DOMAIN open[t]
  /\ open[t][word] # {}
  /\ LET slot == Min(open[t][word]) IN
       /\ visited' = [visited EXCEPT ![t] = Append(@, HandleOf(slot))]
       /\ open' = [open EXCEPT ![t][word] = @ \ {slot}]
  /\ UNCHANGED <<entityVars, world, registry, pc, parallel, storages, wordCount, pending>>

endWord(t, word) ==
  /\ word \in DOMAIN open[t]
  /\ open[t][word] = {}
  /\ open' = [open EXCEPT ![t] = [w \in DOMAIN @ \ {word} |-> @[w]]]
  /\ UNCHANGED <<entityVars, world, registry, pc, parallel, storages, wordCount, pending, visited>>

endView(t) ==
  /\ pc[t] = "words"
  /\ pending[t] = {}
  /\ DOMAIN open[t] = {}
  /\ Goto(t, "end")
  /\ UNCHANGED <<entityVars, world, registry, parallel, storages, wordCount, pending, open, visited>>

(* A callback creates an entity: the one structural change allowed. *)
callbackCreates ==
  /\ \E t \in Threads : DOMAIN open[t] # {}
  /\ createEntity
  /\ UNCHANGED viewVars

ViewNext ==
  \/ callbackCreates
  \/ \E t \in Threads :
       \/ beginView(t) \/ findStorage(t) \/ missStorage(t) \/ createStorage(t)
       \/ joinWordCount(t) \/ endView(t)
       \/ \E word \in Words(MaxWords) :
            beginWord(t, word) \/ visitSlot(t, word) \/ endWord(t, word)

ViewSpec == ViewInit /\ [][ViewNext]_vars

-----------------------------------------------------------------------------
(* Types of the state. *)
ViewTypeOK ==
  /\ EntityTypeOK
  /\ subscribed \in SUBSET Slot /\ subscribedWords \in 0 .. MaxWords
  /\ registry \in [Components -> {None, "first"} \cup Threads]
  /\ presence \in [Components -> SUBSET Slot]
  /\ presenceWords \in [Components -> 0 .. MaxWords]
  /\ pc \in [Threads -> {"begin", "storages", "words", "end"} \cup Components]
  /\ parallel \in [Threads -> BOOLEAN]
  /\ DOMAIN storages = Threads /\ \A t \in Threads : DOMAIN storages[t] \subseteq Joined[t]
  /\ wordCount \in [Threads -> 0 .. MaxWords]
  /\ pending \in [Threads -> SUBSET Words(MaxWords)]
  /\ DOMAIN open = Threads
  /\ \A t \in Threads :
       /\ DOMAIN open[t] \subseteq Words(MaxWords)
       /\ \A word \in DOMAIN open[t] : open[t][word] \in SUBSET Slot
  /\ visited \in [Threads -> Seq(Handle)]

(* However many threads ask for a type at once, they all get the one        *)
(* storage in the registry (getOrCreateStorage): nothing is added to, or     *)
(* looked for in, a storage no one else sees.                                 *)
OneStoragePerType ==
  \A t \in Threads : \A c \in DOMAIN storages[t] : storages[t][c] = registry[c]

Matching(t) == {e \in LiveHandles :
                  e.slot \in subscribed /\ \A c \in Joined[t] : e.slot \in presence[c]}

(* A view calls func exactly once for each subscribed entity that has all    *)
(* the joined components, with the handle it has now, and for nobody else,    *)
(* in slot order unless parallel: whatever the lengths of the bitmaps, the   *)
(* dense runs, and the entities created meanwhile.                            *)
ViewsVisitMatching ==
  \A t \in Threads :
    /\ IsInjective(visited[t])
    /\ ToSet(visited[t]) \subseteq Matching(t)
    /\ pc[t] = "end" => ToSet(visited[t]) = Matching(t)
    /\ ~parallel[t] => \A i \in 1 .. Len(visited[t]) - 1 :
                         visited[t][i].slot < visited[t][i + 1].slot
=============================================================================
