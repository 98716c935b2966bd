------------------------- MODULE ComponentViewProofs -------------------------
(***************************************************************************)
(* Theorems of ComponentView, for any number of threads, components, words  *)
(* and slots: the storages a view holds are those of the registry, and what  *)
(* a view has visited, has begun and has still to begin together are the     *)
(* matching slots, each once.                                                *)
(***************************************************************************)
EXTENDS ComponentView, OperatorLemmas, FiniteSetTheorems

(* The bitmaps cover their slots, and subscribers live as long as the views. *)
BitmapsCover ==
  /\ subscribed \subseteq aliveSlots
  /\ \A s \in subscribed : s \div WordBits < subscribedWords
  /\ \A c \in Components : \A s \in presence[c] : s \div WordBits < presenceWords[c]

(* The storages a view holds are the registry's. *)
StoragesShared(t) ==
  \A c \in DOMAIN storages[t] : storages[t][c] = registry[c] /\ registry[c] # None

(* Which storages a thread has asked for where, and that nothing is begun    *)
(* before the words are counted nor left when the view ends.                  *)
PlaceHeld(t) ==
  /\ pc[t] \in Components => pc[t] \in Missing(t)
  /\ pc[t] = "words" => DOMAIN storages[t] = Joined[t]
  /\ pc[t] # "words" => pending[t] = {} /\ DOMAIN open[t] = {}
  /\ pc[t] \notin {"words", "end"} => visited[t] = <<>>

MatchingSlots(t) == {s \in subscribed : \A c \in Joined[t] : s \in presence[c]}

Visited(t, s) == \E i \in 1 .. Len(visited[t]) : visited[t][i].slot = s
ToBegin(t, s) == s \div WordBits \in pending[t]
Begun(t, s) == s \div WordBits \in DOMAIN open[t] /\ s \in open[t][s \div WordBits]

(* Of a view that has counted its words, every matching slot is in a word to *)
(* begin, among those left of a word begun, or visited, and not in two of     *)
(* these.  Nothing else is left or visited.                                   *)
SlotsShared(t) ==
  /\ \A i, j \in 1 .. Len(visited[t]) : visited[t][i].slot = visited[t][j].slot => i = j
  /\ \A i \in 1 .. Len(visited[t]) :
       /\ visited[t][i].slot \in MatchingSlots(t)
       /\ visited[t][i] = HandleOf(visited[t][i].slot)
  /\ \A word \in DOMAIN open[t] :
       /\ word \notin pending[t]
       /\ open[t][word] \subseteq MatchingSlots(t) \cap SlotsOf(word)
  /\ pc[t] \in {"words", "end"} =>
       \A s \in MatchingSlots(t) : ToBegin(t, s) \/ Begun(t, s) \/ Visited(t, s)
  /\ \A s \in MatchingSlots(t) : Visited(t, s) => ~ToBegin(t, s) /\ ~Begun(t, s)

(* A sequential view has one word open, before those to begin, and has        *)
(* visited only lower slots, in order.                                        *)
SlotsAscend(t) ==
  ~parallel[t] =>
    /\ \A w, v \in DOMAIN open[t] : w = v
    /\ \A w \in DOMAIN open[t] : \A p \in pending[t] : w < p
    /\ \A i \in 1 .. Len(visited[t]) :
         /\ \A p \in pending[t] : visited[t][i].slot < p * WordBits
         /\ \A w \in DOMAIN open[t] : \A s \in open[t][w] : visited[t][i].slot < s
    /\ \A i, j \in 1 .. Len(visited[t]) : i < j => visited[t][i].slot < visited[t][j].slot

ViewInv ==
  /\ ViewTypeOK
  /\ BitmapsCover
  /\ \A t \in Threads :
       StoragesShared(t) /\ PlaceHeld(t) /\ SlotsShared(t) /\ SlotsAscend(t)

-----------------------------------------------------------------------------
(* Words and slots. *)

LEMMA WordIs ==
  ASSUME NEW s \in Nat, NEW w \in Nat
  PROVE  s \in SlotsOf(w) <=> s \div WordBits = w
<1>1. WordBits \in Nat \ {0}
  BY ViewAssumptions
<1>2. QED
  BY <1>1 DEF SlotsOf

(* The slots of a word come before those of the next ones. *)
LEMMA WordsAscend ==
  ASSUME NEW v \in Nat, NEW w \in Nat, v < w, NEW s \in SlotsOf(v)
  PROVE  s \in Int /\ s < w * WordBits
<1>1. WordBits \in Nat \ {0}
  BY ViewAssumptions
<1>2. v * WordBits + WordBits <= w * WordBits
  BY <1>1
<1>3. (v + 1) * WordBits = v * WordBits + WordBits
  BY <1>1
<1>4. QED
  BY <1>1, <1>2, <1>3 DEF SlotsOf

(* Creating an entity, the one structural change there is. *)
LEMMA CreateKeeps ==
  ASSUME EntityTypeOK, createEntity
  PROVE  /\ EntityTypeOK'
         /\ UNCHANGED generations
         /\ aliveSlots \subseteq aliveSlots'
<1>1. \A slot \in Slot : HandleOf(slot) \in Handle
  BY EntityBounds DEF HandleOf, Handle, Generation, EntityTypeOK
<1>2. CASE RecycleSlot
  <2>1. Last(freeSlots) \in Slot /\ Front(freeSlots) \in Seq(Slot)
    BY <1>2, FrontLast DEF RecycleSlot, EntityTypeOK
  <2>2. QED
    BY <1>1, <1>2, <2>1 DEF RecycleSlot, PopFreeSlot, EntityTypeOK
<1>3. CASE AllocateSlot
  <2>1. slotCapacity \in Slot /\ slotCapacity + 1 \in 0 .. MaxSlots
    BY <1>3, EntityBounds DEF AllocateSlot, EntityTypeOK, Slot
  <2>2. QED
    BY <1>1, <1>3, <2>1 DEF AllocateSlot, EntityTypeOK
<1>4. QED
  BY <1>2, <1>3 DEF createEntity

(* What an action of another thread leaves of a thread's part. *)
Same(t) ==
  /\ pc'[t] = pc[t] /\ storages'[t] = storages[t] /\ pending'[t] = pending[t]
  /\ open'[t] = open[t] /\ visited'[t] = visited[t]

LEMMA OthersKeep ==
  ASSUME NEW t, Same(t), UNCHANGED <<world, generations, parallel>>,
         PlaceHeld(t), SlotsShared(t), SlotsAscend(t)
  PROVE  PlaceHeld(t)' /\ SlotsShared(t)' /\ SlotsAscend(t)'
<1>1. PlaceHeld(t)'
  BY DEF PlaceHeld, Missing, Same
<1>2. MatchingSlots(t)' = MatchingSlots(t)
  BY DEF MatchingSlots, world
<1>3. \A s : HandleOf(s)' = HandleOf(s)
  BY DEF HandleOf
<1>4. \A s : /\ Visited(t, s)' <=> Visited(t, s)
             /\ ToBegin(t, s)' <=> ToBegin(t, s)
             /\ Begun(t, s)' <=> Begun(t, s)
  BY DEF Visited, ToBegin, Begun, Same
<1>5. SlotsShared(t)'
  BY <1>2, <1>3, <1>4 DEF SlotsShared, SlotsOf, Same
<1>6. SlotsAscend(t)'
  BY DEF SlotsAscend, Same
<1>7. QED
  BY <1>1, <1>5, <1>6

-----------------------------------------------------------------------------
LEMMA ViewInitially == ViewInit => ViewInv
<1> SUFFICES ASSUME ViewInit PROVE ViewInv
  OBVIOUS
<1>1. EntityTypeOK
  <2>1. generations \in [Slot -> 0 .. MaxGeneration]
    BY ViewAssumptions, EntityBounds DEF ViewInit
  <2>2. slotCapacity \in 0 .. MaxSlots
    BY EntityBounds DEF ViewInit
  <2>3. freeSlots \in Seq(Slot)
    <3>0. MaxSlots - 1 \in Int /\ 0 \in Int
      BY EntityBounds
    <3>1. IsFiniteSet(Slot) /\ IsFiniteSet(Slot \ aliveSlots)
      BY <3>0, FS_Interval, FS_Subset DEF Slot
    <3>2. Cardinality(Slot \ aliveSlots) \in Nat
      BY <3>1, FS_CardinalityType
    <3>3. freeSlots \in [1 .. Cardinality(Slot \ aliveSlots) -> Slot \ aliveSlots]
      BY DEF ViewInit, SetToSeqs
    <3>4. freeSlots \in [1 .. Cardinality(Slot \ aliveSlots) -> Slot]
      BY <3>3
    <3>5. QED
      BY <3>2, <3>4, SeqDef
  <2>4. aliveSlots \in SUBSET Slot /\ issued \in SUBSET Handle
    BY DEF ViewInit
  <2>5. QED
    BY <2>1, <2>2, <2>3, <2>4 DEF EntityTypeOK
<1>2. /\ subscribedWords \in 0 .. MaxWords
      /\ \A s \in subscribed : s \div WordBits < subscribedWords
  BY DEF ViewInit, CoverOf
<1>3. /\ \A c \in Components : \A s \in presence[c] : s \div WordBits < presenceWords[c]
      /\ presence \in [Components -> SUBSET aliveSlots]
  BY DEF ViewInit, CoverOf
<1>4. <<>> \in Seq(Handle) /\ Len(<<>>) = 0 /\ 1 .. 0 = {} /\ 0 \in 0 .. MaxWords
  BY EmptySeq, ViewAssumptions
<1>5. ViewTypeOK
  <2>1. subscribed \in SUBSET Slot /\ presence \in [Components -> SUBSET Slot]
    BY <1>1, <1>3 DEF ViewInit, EntityTypeOK
  <2>2. visited \in [Threads -> Seq(Handle)] /\ wordCount \in [Threads -> 0 .. MaxWords]
    BY <1>4 DEF ViewInit
  <2>3. /\ registry \in [Components -> {None, "first"} \cup Threads]
        /\ presenceWords \in [Components -> 0 .. MaxWords]
        /\ pc \in [Threads -> {"begin", "storages", "words", "end"} \cup Components]
        /\ parallel \in [Threads -> BOOLEAN]
        /\ pending \in [Threads -> SUBSET Words(MaxWords)]
    BY DEF ViewInit
  <2>4. /\ DOMAIN storages = Threads /\ \A t \in Threads : DOMAIN storages[t] = {}
        /\ DOMAIN open = Threads /\ \A t \in Threads : DOMAIN open[t] = {}
    BY DEF ViewInit
  <2>5. QED
    BY <1>1, <1>2, <2>1, <2>2, <2>3, <2>4 DEF ViewTypeOK
<1>6. BitmapsCover
  BY <1>2, <1>3 DEF BitmapsCover, ViewInit
<1>7. ASSUME NEW t \in Threads
      PROVE  StoragesShared(t) /\ PlaceHeld(t) /\ SlotsShared(t) /\ SlotsAscend(t)
  <2>1. /\ pc[t] = "begin" /\ DOMAIN storages[t] = {} /\ pending[t] = {}
        /\ DOMAIN open[t] = {} /\ visited[t] = <<>> /\ "begin" \notin Components
    BY ViewAssumptions DEF ViewInit
  <2>2. StoragesShared(t) /\ PlaceHeld(t) /\ SlotsAscend(t)
    BY <1>4, <2>1 DEF StoragesShared, PlaceHeld, SlotsAscend
  <2>3. SlotsShared(t)
    BY <1>4, <2>1 DEF SlotsShared, Visited
  <2>4. QED
    BY <2>2, <2>3
<1>8. QED
  BY <1>5, <1>6, <1>7 DEF ViewInv

-----------------------------------------------------------------------------
(* The actions of a thread.  Each leaves the others' parts alone. *)

Part(t) == PlaceHeld(t) /\ SlotsShared(t) /\ SlotsAscend(t)

LEMMA PartsKept ==
  ASSUME ViewInv, NEW t \in Threads, UNCHANGED <<world, generations, parallel>>,
         \A u \in Threads \ {t} : Same(u), Part(t)'
  PROVE  \A u \in Threads : Part(u)'
<1>1. ASSUME NEW u \in Threads \ {t} PROVE Part(u)'
  <2>1. PlaceHeld(u) /\ SlotsShared(u) /\ SlotsAscend(u) /\ Same(u)
    BY DEF ViewInv
  <2>2. PlaceHeld(u)' /\ SlotsShared(u)' /\ SlotsAscend(u)'
    BY <2>1, OthersKeep
  <2>3. QED
    BY <2>2 DEF Part
<1>2. QED
  BY <1>1

LEMMA BeginKeeps ==
  ASSUME ViewInv, NEW t \in Threads, beginView(t)
  PROVE  ViewInv'
<1>1. /\ pc[t] = "begin" /\ pc' = [pc EXCEPT ![t] = IF parallel[t] /\ subscribed = {} THEN "end" ELSE "storages"]
      /\ UNCHANGED <<entityVars, world, registry, parallel, storages, wordCount, pending, open, visited>>
  BY DEF beginView, Goto
<1>2. ViewTypeOK /\ BitmapsCover /\ PlaceHeld(t) /\ SlotsShared(t) /\ SlotsAscend(t)
  BY DEF ViewInv
<1>3. /\ pc' \in [Threads -> {"begin", "storages", "words", "end"} \cup Components]
      /\ \A u \in Threads \ {t} : pc'[u] = pc[u]
      /\ pc'[t] = IF parallel[t] /\ subscribed = {} THEN "end" ELSE "storages"
  BY <1>1, <1>2 DEF ViewTypeOK
<1>4. ViewTypeOK' /\ BitmapsCover'
  BY <1>1, <1>2, <1>3 DEF ViewTypeOK, EntityTypeOK, BitmapsCover, entityVars, world
<1>5. \A u \in Threads : StoragesShared(u)'
  BY <1>1 DEF ViewInv, StoragesShared
<1>6. pending[t] = {} /\ DOMAIN open[t] = {} /\ visited[t] = <<>> /\ Len(<<>>) = 0 /\ 1 .. 0 = {}
  BY <1>1, <1>2, EmptySeq, ViewAssumptions DEF PlaceHeld
<1>7. Part(t)'
  <2>1. PlaceHeld(t)'
    BY <1>1, <1>3, <1>6, ViewAssumptions DEF PlaceHeld
  <2>2. SlotsAscend(t)'
    BY <1>1, <1>2 DEF SlotsAscend
  <2>3. SlotsShared(t)'
    <3>1. pc'[t] = "end" => MatchingSlots(t)' = {}
      BY <1>1, <1>3 DEF MatchingSlots, world
    <3>2. pc'[t] = "end" \/ pc'[t] = "storages"
      BY <1>3
    <3>3. \A s : ~Visited(t, s)'
      BY <1>1, <1>6 DEF Visited
    <3>4. QED
      BY <1>1, <1>6, <3>1, <3>2, <3>3 DEF SlotsShared
  <2>4. QED
    BY <2>1, <2>2, <2>3 DEF Part
<1>8. \A u \in Threads \ {t} : Same(u)
  BY <1>1, <1>3 DEF Same
<1>9. \A u \in Threads : Part(u)'
  BY <1>1, <1>7, <1>8, PartsKept DEF entityVars
<1>10. QED
  BY <1>4, <1>5, <1>9 DEF ViewInv, Part

(* A storage held is the registry's, and stays it: a type's storage is made  *)
(* once.                                                                      *)
LEMMA HoldKeeps ==
  ASSUME ViewInv, NEW t \in Threads, NEW c \in Missing(t), NEW storage,
         pc[t] = "storages" \/ pc[t] = c,
         Hold(t, c, storage), registry' = [registry EXCEPT ![c] = storage],
         storage \in {"first"} \cup Threads,
         registry[c] = None \/ registry[c] = storage,
         pc' = [pc EXCEPT ![t] = "storages"],
         UNCHANGED <<entityVars, world, parallel, wordCount, pending, open, visited>>
  PROVE  ViewInv'
<1>1. ViewTypeOK /\ BitmapsCover /\ PlaceHeld(t) /\ SlotsShared(t) /\ SlotsAscend(t)
  BY DEF ViewInv
<1>2. c \in Joined[t] /\ c \in Components /\ c \notin DOMAIN storages[t] /\ storage # None
  BY ViewAssumptions DEF Missing
<1>3. /\ pc' \in [Threads -> {"begin", "storages", "words", "end"} \cup Components]
      /\ \A u \in Threads \ {t} : pc'[u] = pc[u]
      /\ pc'[t] = "storages" /\ "storages" \notin Components
  BY <1>1, ViewAssumptions DEF ViewTypeOK
<1>4. /\ registry' \in [Components -> {None, "first"} \cup Threads]
      /\ registry'[c] = storage
      /\ \A d \in Components : d # c => registry'[d] = registry[d]
  BY <1>1, <1>2 DEF ViewTypeOK
<1>5. /\ DOMAIN storages' = Threads
      /\ \A u \in Threads \ {t} : storages'[u] = storages[u]
      /\ storages'[t] = With(storages[t], c, storage)
  BY <1>1 DEF ViewTypeOK, Hold
<1>6. /\ DOMAIN storages'[t] = DOMAIN storages[t] \cup {c}
      /\ storages'[t][c] = storage
      /\ \A d \in DOMAIN storages[t] : storages'[t][d] = storages[t][d]
  <2> DEFINE f == storages[t]
  <2>1. /\ DOMAIN With(f, c, storage) = DOMAIN f \cup {c}
        /\ With(f, c, storage)[c] = storage
        /\ \A k \in DOMAIN f \ {c} : With(f, c, storage)[k] = f[k]
    BY DEF With
  <2>2. QED
    BY <1>2, <1>5, <2>1
<1>7. ViewTypeOK' /\ BitmapsCover'
  <2>1. \A u \in Threads : DOMAIN storages'[u] \subseteq Joined[u]
    <3>1. \A u \in Threads \ {t} : DOMAIN storages'[u] = DOMAIN storages[u]
      BY <1>5
    <3>2. QED
      BY <1>1, <1>2, <1>6, <3>1 DEF ViewTypeOK
  <2>2. QED
    BY <1>1, <1>3, <1>4, <1>5, <2>1
    DEF ViewTypeOK, EntityTypeOK, BitmapsCover, entityVars, world
<1>8. ASSUME NEW u \in Threads PROVE StoragesShared(u)'
  <2>1. StoragesShared(u) /\ DOMAIN storages[u] \subseteq Components
    BY <1>1, ViewAssumptions DEF ViewInv, ViewTypeOK
  <2>2. \A d \in DOMAIN storages[u] : registry'[d] = registry[d]
    BY <1>2, <1>4, <2>1 DEF StoragesShared
  <2>3. CASE u = t
    BY <1>2, <1>4, <1>6, <2>1, <2>2, <2>3 DEF StoragesShared
  <2>4. CASE u # t
    BY <1>5, <2>1, <2>2, <2>4 DEF StoragesShared
  <2>5. QED
    BY <2>3, <2>4
<1>9. pc[t] # "words" /\ pc[t] # "end"
  BY <1>2, ViewAssumptions
<1>10. Part(t)'
  <2>1. PlaceHeld(t)'
    BY <1>1, <1>3, <1>9 DEF PlaceHeld
  <2>2. SlotsAscend(t)'
    BY <1>1 DEF SlotsAscend
  <2>3. SlotsShared(t)'
    <3>1. visited[t] = <<>> /\ DOMAIN open[t] = {} /\ Len(<<>>) = 0 /\ 1 .. 0 = {}
      BY <1>1, <1>9, EmptySeq DEF PlaceHeld
    <3>2. \A s : ~Visited(t, s)'
      BY <3>1 DEF Visited
    <3>3. QED
      BY <1>3, <3>1, <3>2 DEF SlotsShared
  <2>4. QED
    BY <2>1, <2>2, <2>3 DEF Part
<1>11. \A u \in Threads \ {t} : Same(u)
  BY <1>3, <1>5 DEF Same
<1>12. \A u \in Threads : Part(u)'
  BY <1>10, <1>11, PartsKept DEF entityVars
<1>13. QED
  BY <1>7, <1>8, <1>12 DEF ViewInv, Part

LEMMA FindKeeps ==
  ASSUME ViewInv, NEW t \in Threads, findStorage(t)
  PROVE  ViewInv'
<1>1. PICK c \in Missing(t) : registry[c] # None /\ Hold(t, c, registry[c])
  BY DEF findStorage
<1>2. ViewTypeOK /\ c \in Components
  BY ViewAssumptions DEF ViewInv, Missing
<1>3. /\ registry' = [registry EXCEPT ![c] = registry[c]]
      /\ pc' = [pc EXCEPT ![t] = "storages"]
      /\ registry[c] \in {"first"} \cup Threads
  BY <1>1, <1>2 DEF findStorage, ViewTypeOK
<1>4. QED
  BY <1>1, <1>3, HoldKeeps DEF findStorage

LEMMA CreateStorageKeeps ==
  ASSUME ViewInv, NEW t \in Threads, createStorage(t)
  PROVE  ViewInv'
<1> DEFINE c == pc[t]
<1>1. ViewTypeOK /\ PlaceHeld(t) /\ StoragesShared(t)
  BY DEF ViewInv
<1>2. c \in Components /\ c \in Missing(t)
  BY <1>1 DEF PlaceHeld, createStorage
<1>3. /\ registry' = [registry EXCEPT ![c] = StorageAgain(t, c)]
      /\ Hold(t, c, StorageAgain(t, c))
      /\ StorageAgain(t, c) \in {"first"} \cup Threads
      /\ registry[c] = None \/ registry[c] = StorageAgain(t, c)
  BY <1>1, <1>2 DEF createStorage, StorageAgain, ViewTypeOK
<1>4. QED
  BY <1>2, <1>3, HoldKeeps DEF createStorage, Goto

LEMMA MissKeeps ==
  ASSUME ViewInv, NEW t \in Threads, missStorage(t)
  PROVE  ViewInv'
<1>1. PICK c \in Missing(t) : pc' = [pc EXCEPT ![t] = c]
  BY DEF missStorage, Goto
<1>2. ViewTypeOK /\ BitmapsCover /\ PlaceHeld(t) /\ SlotsShared(t) /\ SlotsAscend(t)
  BY DEF ViewInv
<1>3. /\ pc[t] = "storages" /\ c \in Components
      /\ UNCHANGED <<entityVars, world, registry, parallel, storages, wordCount, pending, open, visited>>
  BY ViewAssumptions DEF missStorage, Missing
<1>4. /\ pc' \in [Threads -> {"begin", "storages", "words", "end"} \cup Components]
      /\ \A u \in Threads \ {t} : pc'[u] = pc[u]
      /\ pc'[t] = c
  BY <1>1, <1>2, <1>3 DEF ViewTypeOK
<1>5. ViewTypeOK' /\ BitmapsCover'
  BY <1>2, <1>3, <1>4 DEF ViewTypeOK, EntityTypeOK, BitmapsCover, entityVars, world
<1>6. \A u \in Threads : StoragesShared(u)'
  BY <1>3 DEF ViewInv, StoragesShared
<1>7. pending[t] = {} /\ DOMAIN open[t] = {} /\ visited[t] = <<>> /\ Len(<<>>) = 0 /\ 1 .. 0 = {}
  BY <1>2, <1>3, EmptySeq DEF PlaceHeld
<1>8. Part(t)'
  <2>1. PlaceHeld(t)'
    BY <1>1, <1>3, <1>4, <1>7, ViewAssumptions DEF PlaceHeld, Missing
  <2>2. SlotsAscend(t)'
    BY <1>2, <1>3 DEF SlotsAscend
  <2>3. SlotsShared(t)'
    <3>1. \A s : ~Visited(t, s)'
      BY <1>3, <1>7 DEF Visited
    <3>2. pc'[t] \notin {"words", "end"}
      BY <1>3, <1>4, ViewAssumptions
    <3>3. QED
      BY <1>3, <1>7, <3>1, <3>2 DEF SlotsShared
  <2>4. QED
    BY <2>1, <2>2, <2>3 DEF Part
<1>9. \A u \in Threads \ {t} : Same(u)
  BY <1>3, <1>4 DEF Same
<1>10. \A u \in Threads : Part(u)'
  BY <1>3, <1>8, <1>9, PartsKept DEF entityVars
<1>11. QED
  BY <1>5, <1>6, <1>10 DEF ViewInv, Part

(* The words counted cover every matching slot: the shortest bitmap does.    *)
LEMMA JoinKeeps ==
  ASSUME ViewInv, NEW t \in Threads, joinWordCount(t)
  PROVE  ViewInv'
<1> DEFINE lengths == {subscribedWords} \cup {presenceWords[c] : c \in Joined[t]}
           n == Min(lengths)
<1>1. ViewTypeOK /\ BitmapsCover /\ PlaceHeld(t) /\ SlotsShared(t) /\ SlotsAscend(t)
  BY DEF ViewInv
<1>2. Joined[t] \subseteq Components /\ MaxWords \in Nat
  BY ViewAssumptions
<1>3. lengths \in SUBSET (0 .. MaxWords) /\ lengths # {}
  BY <1>1, <1>2 DEF ViewTypeOK
<1> HIDE DEF lengths
<1>31. lengths \in SUBSET Nat
  BY <1>2, <1>3
<1>4. n \in lengths /\ \A x \in lengths : n <= x
  BY <1>3, <1>31, MinOf
<1>5. /\ pc[t] = "storages" /\ Missing(t) = {}
      /\ wordCount' = [wordCount EXCEPT ![t] = n]
      /\ pending' = [pending EXCEPT ![t] = Words(wordCount'[t])]
      /\ pc' = [pc EXCEPT ![t] = "words"]
      /\ UNCHANGED <<entityVars, world, registry, parallel, storages, open, visited>>
  BY DEF joinWordCount, Goto, lengths
<1>6. \A s \in MatchingSlots(t) : \A x \in lengths : s \div WordBits < x
  BY <1>1, <1>2 DEF BitmapsCover, MatchingSlots, lengths
<1> HIDE DEF n
<1>7. n \in 0 .. MaxWords
  BY <1>3, <1>4
<1>8. /\ wordCount' \in [Threads -> 0 .. MaxWords] /\ wordCount'[t] = n
  BY <1>1, <1>5, <1>7 DEF ViewTypeOK
<1>9. Words(n) \subseteq Words(MaxWords)
  BY <1>2, <1>7 DEF Words
<1>10. /\ pending' \in [Threads -> SUBSET Words(MaxWords)]
       /\ pending'[t] = Words(n)
       /\ \A u \in Threads \ {t} : pending'[u] = pending[u]
  BY <1>1, <1>5, <1>8, <1>9 DEF ViewTypeOK
<1>11. /\ pc' \in [Threads -> {"begin", "storages", "words", "end"} \cup Components]
       /\ \A u \in Threads \ {t} : pc'[u] = pc[u]
       /\ pc'[t] = "words"
  BY <1>1, <1>5 DEF ViewTypeOK
<1>12. ViewTypeOK' /\ BitmapsCover'
  BY <1>1, <1>5, <1>8, <1>10, <1>11
  DEF ViewTypeOK, EntityTypeOK, BitmapsCover, entityVars, world
<1>13. \A u \in Threads : StoragesShared(u)'
  BY <1>5 DEF ViewInv, StoragesShared
<1>14. DOMAIN open[t] = {} /\ visited[t] = <<>> /\ Len(<<>>) = 0 /\ 1 .. 0 = {}
  BY <1>1, <1>5, EmptySeq DEF PlaceHeld
<1>15. Part(t)'
  <2>1. PlaceHeld(t)'
    <3>1. DOMAIN storages[t] = Joined[t]
      BY <1>1, <1>5 DEF ViewTypeOK, Missing
    <3>2. QED
      BY <1>5, <1>11, <3>1, ViewAssumptions DEF PlaceHeld
  <2>2. SlotsAscend(t)'
    BY <1>5, <1>14 DEF SlotsAscend
  <2>3. SlotsShared(t)'
    <3>1. \A s : ~Visited(t, s)'
      BY <1>5, <1>14 DEF Visited
    <3>2. MatchingSlots(t)' = MatchingSlots(t)
      BY <1>5 DEF MatchingSlots, world
    <3>3. ASSUME NEW s \in MatchingSlots(t) PROVE ToBegin(t, s)'
      <4>1. s \div WordBits < n
        BY <1>4, <1>6
      <4>2. s \in Nat /\ WordBits \in Nat \ {0}
        BY <1>1, EntityBounds, ViewAssumptions DEF MatchingSlots, ViewTypeOK, Slot
      <4>3. s \div WordBits \in Nat
        BY <4>2
      <4>4. s \div WordBits \in Words(n)
        BY <1>2, <1>7, <4>1, <4>3 DEF Words
      <4>5. QED
        BY <1>10, <4>4 DEF ToBegin
    <3>4. QED
      BY <1>5, <1>14, <3>1, <3>2, <3>3 DEF SlotsShared
  <2>4. QED
    BY <2>1, <2>2, <2>3 DEF Part
<1>16. \A u \in Threads \ {t} : Same(u)
  BY <1>5, <1>10, <1>11 DEF Same
<1>17. \A u \in Threads : Part(u)'
  BY <1>5, <1>15, <1>16, PartsKept DEF entityVars
<1>18. QED
  BY <1>12, <1>13, <1>17 DEF ViewInv, Part

(* A dense run and the bit scan take the same slots: those that match.       *)
LEMMA ToVisitIs ==
  ASSUME ViewInv, NEW t \in Threads, pc[t] = "words", NEW word \in Nat
  PROVE  ToVisit(t, word) = MatchingSlots(t) \cap SlotsOf(word)
<1>1. \A c \in Joined[t] : Bits(t, c) = presence[c]
  BY DEF ViewInv, PlaceHeld, StoragesShared, Bits
<1>2. Combined(t, word) = MatchingSlots(t) \cap SlotsOf(word)
  BY <1>1 DEF Combined, MatchingSlots
<1>3. QED
  BY <1>2 DEF ToVisit, AllMatch

LEMMA BeginWordKeeps ==
  ASSUME ViewInv, NEW t \in Threads, NEW word \in Words(MaxWords), beginWord(t, word)
  PROVE  ViewInv'
<1> DEFINE slots == MatchingSlots(t) \cap SlotsOf(word)
<1>1. ViewTypeOK /\ BitmapsCover /\ PlaceHeld(t) /\ SlotsShared(t) /\ SlotsAscend(t)
  BY DEF ViewInv
<1>2. /\ pc[t] = "words" /\ word \in pending[t] /\ word \in Nat
      /\ ~parallel[t] => word = Min(pending[t]) /\ DOMAIN open[t] = {}
      /\ UNCHANGED <<entityVars, world, registry, pc, parallel, storages, wordCount, visited>>
  BY ViewAssumptions DEF beginWord, Words
<1>3. slots = ToVisit(t, word) /\ slots \subseteq Slot
  BY <1>1, <1>2, ToVisitIs DEF ViewTypeOK, MatchingSlots
<1>4. /\ pending' \in [Threads -> SUBSET Words(MaxWords)]
      /\ pending'[t] = pending[t] \ {word}
      /\ \A u \in Threads \ {t} : pending'[u] = pending[u]
  BY <1>1 DEF beginWord, ViewTypeOK
<1>5. word \notin DOMAIN open[t]
  BY <1>1, <1>2 DEF SlotsShared
<1>6. /\ DOMAIN open' = Threads
      /\ \A u \in Threads \ {t} : open'[u] = open[u]
      /\ DOMAIN open'[t] = DOMAIN open[t] \cup {word}
      /\ open'[t][word] = slots
      /\ \A w \in DOMAIN open[t] : open'[t][w] = open[t][w]
  <2> DEFINE f == open[t]
  <2>1. open' = [open EXCEPT ![t] = With(f, word, slots)]
    BY <1>3 DEF beginWord
  <2>2. /\ DOMAIN open' = Threads
        /\ \A u \in Threads \ {t} : open'[u] = open[u]
        /\ open'[t] = With(f, word, slots)
    BY <1>1, <2>1 DEF ViewTypeOK
  <2> HIDE DEF slots
  <2>3. /\ DOMAIN With(f, word, slots) = DOMAIN f \cup {word}
        /\ With(f, word, slots)[word] = slots
        /\ \A k \in DOMAIN f \ {word} : With(f, word, slots)[k] = f[k]
    BY DEF With
  <2>4. QED
    BY <1>5, <2>2, <2>3
<1>7. \A u \in Threads \ {t} : Same(u)
  BY <1>2, <1>4, <1>6 DEF Same
<1>8. ViewTypeOK' /\ BitmapsCover'
  <2>1. \A u \in Threads : DOMAIN open'[u] \subseteq Words(MaxWords)
                          /\ \A w \in DOMAIN open'[u] : open'[u][w] \in SUBSET Slot
    <3> HIDE DEF slots
    <3>1. QED
      BY <1>1, <1>3, <1>6 DEF ViewTypeOK
  <2>2. QED
    BY <1>1, <1>2, <1>4, <1>6, <2>1
    DEF ViewTypeOK, EntityTypeOK, BitmapsCover, entityVars, world
<1>9. \A u \in Threads : StoragesShared(u)'
  BY <1>2 DEF ViewInv, StoragesShared
<1>10. \A s \in MatchingSlots(t) : s \in Nat
  BY <1>1, EntityBounds DEF MatchingSlots, ViewTypeOK, Slot
<1>11. PlaceHeld(t)'
  BY <1>1, <1>2, ViewAssumptions DEF PlaceHeld
<1>12. SlotsShared(t)'
  <2>1. MatchingSlots(t)' = MatchingSlots(t) /\ \A s : HandleOf(s)' = HandleOf(s)
    BY <1>2 DEF MatchingSlots, HandleOf, world, entityVars
  <2>2. \A s : Visited(t, s)' <=> Visited(t, s)
    BY <1>2 DEF Visited
  <2>3. \A s \in MatchingSlots(t) : s \div WordBits = word => s \in slots
    BY <1>2, <1>10, WordIs
  <2>4. \A s \in MatchingSlots(t) : s \in slots => s \div WordBits = word
    BY <1>2, <1>10, WordIs
  <2>5. ASSUME NEW s \in MatchingSlots(t)
        PROVE  /\ ToBegin(t, s)' <=> ToBegin(t, s) /\ s \div WordBits # word
               /\ Begun(t, s)' <=> Begun(t, s) \/ s \div WordBits = word
    <3> HIDE DEF slots
    <3>1. CASE s \div WordBits = word
      BY <1>4, <1>5, <1>6, <2>3, <3>1 DEF ToBegin, Begun
    <3>2. CASE s \div WordBits # word
      BY <1>4, <1>6, <3>2 DEF ToBegin, Begun
    <3>3. QED
      BY <3>1, <3>2
  <2>6. \A s \in MatchingSlots(t) : s \div WordBits = word => ToBegin(t, s)
    BY <1>2 DEF ToBegin
  <2>7. \A w \in DOMAIN open'[t] :
          w \notin pending'[t] /\ open'[t][w] \subseteq MatchingSlots(t) \cap SlotsOf(w)
    <3>1. \A w \in DOMAIN open[t] :
            w \notin pending[t] /\ open[t][w] \subseteq MatchingSlots(t) \cap SlotsOf(w)
      BY <1>1 DEF SlotsShared
    <3> HIDE DEF slots
    <3>2. QED
      BY <1>4, <1>6, <3>1 DEF slots
  <2>8. /\ \A i, j \in 1 .. Len(visited[t]) : visited[t][i].slot = visited[t][j].slot => i = j
        /\ \A i \in 1 .. Len(visited[t]) :
             /\ visited[t][i].slot \in MatchingSlots(t)
             /\ visited[t][i] = HandleOf(visited[t][i].slot)
        /\ \A s \in MatchingSlots(t) : ToBegin(t, s) \/ Begun(t, s) \/ Visited(t, s)
        /\ \A s \in MatchingSlots(t) : Visited(t, s) => ~ToBegin(t, s) /\ ~Begun(t, s)
    BY <1>1, <1>2 DEF SlotsShared
  <2>9. /\ \A s \in MatchingSlots(t) : ToBegin(t, s)' \/ Begun(t, s)' \/ Visited(t, s)'
        /\ \A s \in MatchingSlots(t) : Visited(t, s)' => ~ToBegin(t, s)' /\ ~Begun(t, s)'
    BY <2>2, <2>5, <2>6, <2>8
  <2>10. QED
    BY <1>2, <2>1, <2>7, <2>8, <2>9 DEF SlotsShared, SlotsOf
<1>13. SlotsAscend(t)'
  <2>1. SUFFICES ASSUME ~parallel[t] PROVE SlotsAscend(t)'
    BY <1>2 DEF SlotsAscend
  <2>2. DOMAIN open[t] = {} /\ word = Min(pending[t])
    BY <1>2, <2>1
  <2>3. \A p \in pending[t] : p \in Nat /\ word <= p
    <3>1. pending[t] \in SUBSET Nat /\ pending[t] # {}
      BY <1>1, <1>2, ViewAssumptions DEF ViewTypeOK, Words
    <3>2. QED
      BY <2>2, <3>1, MinOf
  <2>4. \A p \in pending'[t] : word < p
    BY <1>2, <1>4, <2>3
  <2>5. \A w \in DOMAIN open'[t] : w = word /\ open'[t][w] = slots
    BY <1>6, <2>2
  <2>6. /\ \A i \in 1 .. Len(visited[t]) : \A p \in pending[t] : visited[t][i].slot < p * WordBits
        /\ \A i, j \in 1 .. Len(visited[t]) : i < j => visited[t][i].slot < visited[t][j].slot
    BY <1>1, <2>1 DEF SlotsAscend
  <2>7. \A i \in 1 .. Len(visited[t]) : visited[t][i].slot \in Nat
    BY <1>1, <1>10 DEF SlotsShared
  <2>8. ASSUME NEW i \in 1 .. Len(visited[t]), NEW s \in slots
        PROVE  visited[t][i].slot < s
    <3>1. visited[t][i].slot < word * WordBits
      BY <1>2, <2>6
    <3>2. word * WordBits \in Nat /\ word * WordBits <= s /\ s \in Nat
      BY <1>2, <1>10, ViewAssumptions DEF SlotsOf
    <3>3. QED
      BY <2>7, <3>1, <3>2
  <2> HIDE DEF slots
  <2>9. QED
    BY <1>2, <1>4, <2>4, <2>5, <2>6, <2>8 DEF SlotsAscend
<1>14. Part(t)'
  BY <1>11, <1>12, <1>13 DEF Part
<1>15. \A u \in Threads : Part(u)'
  BY <1>2, <1>7, <1>14, PartsKept DEF entityVars
<1>16. QED
  BY <1>8, <1>9, <1>15 DEF ViewInv, Part

LEMMA VisitKeeps ==
  ASSUME ViewInv, NEW t \in Threads, NEW word \in Words(MaxWords), visitSlot(t, word)
  PROVE  ViewInv'
<1> DEFINE slot == Min(open[t][word])
           n == Len(visited[t])
           left == open[t][word] \ {slot}
<1>1. ViewTypeOK /\ BitmapsCover /\ PlaceHeld(t) /\ SlotsShared(t) /\ SlotsAscend(t)
  BY DEF ViewInv
<1>2. /\ word \in DOMAIN open[t] /\ open[t][word] # {} /\ word \in Nat
      /\ visited' = [visited EXCEPT ![t] = Append(@, HandleOf(slot))]
      /\ open' = [open EXCEPT ![t][word] = left]
      /\ UNCHANGED <<entityVars, world, registry, pc, parallel, storages, wordCount, pending>>
  BY ViewAssumptions DEF visitSlot, Words
<1>3. pc[t] = "words"
  BY <1>1, <1>2 DEF PlaceHeld
<1>4. /\ open[t][word] \subseteq MatchingSlots(t) \cap SlotsOf(word)
      /\ word \notin pending[t]
  BY <1>1, <1>2 DEF SlotsShared
<1>5. \A s \in MatchingSlots(t) : s \in Nat /\ s \in Slot
  BY <1>1, EntityBounds DEF MatchingSlots, ViewTypeOK, Slot
<1>6. slot \in open[t][word] /\ \A s \in open[t][word] : slot <= s
  <2>1. open[t][word] \in SUBSET Nat
    BY <1>4, <1>5
  <2>2. QED
    BY <1>2, <2>1, MinOf
<1>7. /\ slot \in MatchingSlots(t) /\ slot \in Nat /\ slot \in Slot /\ slot \in SlotsOf(word)
      /\ slot \div WordBits = word
  BY <1>2, <1>4, <1>5, <1>6, WordIs
<1> HIDE DEF slot
<1>8. HandleOf(slot) \in Handle /\ HandleOf(slot).slot = slot
  BY <1>1, <1>7, EntityBounds DEF HandleOf, Handle, Generation, ViewTypeOK, EntityTypeOK
<1>9. /\ visited[t] \in Seq(Handle) /\ n \in Nat
      /\ visited' \in [Threads -> Seq(Handle)]
      /\ visited'[t] = Append(visited[t], HandleOf(slot))
      /\ \A u \in Threads \ {t} : visited'[u] = visited[u]
  <2>1. visited[t] \in Seq(Handle) /\ n \in Nat
    BY <1>1, LenProperties DEF ViewTypeOK
  <2>2. Append(visited[t], HandleOf(slot)) \in Seq(Handle)
    BY <1>8, <2>1, AppendProperties
  <2>3. QED
    BY <1>1, <1>2, <2>1, <2>2 DEF ViewTypeOK
<1>10. /\ Len(visited'[t]) = n + 1
       /\ visited'[t][n + 1] = HandleOf(slot)
       /\ \A i \in 1 .. n : visited'[t][i] = visited[t][i]
  BY <1>8, <1>9, Pushed
<1>11. /\ DOMAIN open' = Threads
       /\ \A u \in Threads \ {t} : open'[u] = open[u]
       /\ DOMAIN open'[t] = DOMAIN open[t]
       /\ open'[t][word] = left
       /\ \A w \in DOMAIN open[t] : w # word => open'[t][w] = open[t][w]
  BY <1>1, <1>2 DEF ViewTypeOK
<1>12. \A u \in Threads \ {t} : Same(u)
  BY <1>2, <1>9, <1>11 DEF Same
<1> HIDE DEF n
<1>13. ViewTypeOK' /\ BitmapsCover'
  <2>1. \A u \in Threads : DOMAIN open'[u] \subseteq Words(MaxWords)
                          /\ \A w \in DOMAIN open'[u] : open'[u][w] \in SUBSET Slot
    <3>1. left \subseteq open[t][word]
      OBVIOUS
    <3> HIDE DEF left
    <3>2. QED
      BY <1>1, <1>2, <1>11, <3>1 DEF ViewTypeOK
  <2>2. QED
    BY <1>1, <1>2, <1>9, <1>11, <2>1
    DEF ViewTypeOK, EntityTypeOK, BitmapsCover, entityVars, world
<1>14. \A u \in Threads : StoragesShared(u)'
  BY <1>2 DEF ViewInv, StoragesShared
<1>15. PlaceHeld(t)'
  BY <1>1, <1>2, <1>3, <1>11, ViewAssumptions DEF PlaceHeld
<1>16. /\ \A i \in 1 .. n + 1 : i \in 1 .. n \/ i = n + 1
       /\ \A i \in 1 .. n : i \in 1 .. n + 1 /\ i < n + 1 /\ i # n + 1 /\ ~(n + 1 < i)
       /\ n + 1 \in 1 .. n + 1 /\ ~(n + 1 < n + 1)
  BY <1>9
<1>17. ~Visited(t, slot)
  <2>1. Begun(t, slot)
    BY <1>2, <1>6, <1>7 DEF Begun
  <2>2. QED
    BY <1>1, <1>7, <2>1 DEF SlotsShared
<1>18. SlotsShared(t)'
  <2>1. MatchingSlots(t)' = MatchingSlots(t) /\ \A s : HandleOf(s)' = HandleOf(s)
    BY <1>2 DEF MatchingSlots, HandleOf, world, entityVars
  <2>2. \A s : Visited(t, s)' <=> Visited(t, s) \/ s = slot
    BY <1>8, <1>10, <1>16 DEF Visited, n
  <2>3. \A i \in 1 .. n : visited[t][i].slot # slot
    BY <1>17 DEF Visited, n
  <2>4. /\ \A i, j \in 1 .. n : visited[t][i].slot = visited[t][j].slot => i = j
        /\ \A i \in 1 .. n :
             /\ visited[t][i].slot \in MatchingSlots(t)
             /\ visited[t][i] = HandleOf(visited[t][i].slot)
        /\ \A s \in MatchingSlots(t) : ToBegin(t, s) \/ Begun(t, s) \/ Visited(t, s)
        /\ \A s \in MatchingSlots(t) : Visited(t, s) => ~ToBegin(t, s) /\ ~Begun(t, s)
    BY <1>1, <1>3 DEF SlotsShared, n
  <2>5. \A i, j \in 1 .. n + 1 : visited'[t][i].slot = visited'[t][j].slot => i = j
    BY <1>8, <1>10, <1>16, <2>3, <2>4
  <2>6. \A i \in 1 .. n + 1 :
          /\ visited'[t][i].slot \in MatchingSlots(t)
          /\ visited'[t][i] = HandleOf(visited'[t][i].slot)
    BY <1>7, <1>8, <1>10, <1>16, <2>4
  <2>7. \A s : ToBegin(t, s)' <=> ToBegin(t, s)
    BY <1>2 DEF ToBegin
  <2>8. \A s \in MatchingSlots(t) : Begun(t, s)' <=> Begun(t, s) /\ s # slot
    <3>1. ASSUME NEW s \in MatchingSlots(t), s \div WordBits = word
          PROVE  Begun(t, s)' <=> Begun(t, s) /\ s # slot
      BY <1>11, <3>1 DEF Begun
    <3>2. ASSUME NEW s \in MatchingSlots(t), s \div WordBits # word
          PROVE  Begun(t, s)' <=> Begun(t, s) /\ s # slot
      BY <1>7, <1>11, <3>2 DEF Begun
    <3>3. QED
      BY <3>1, <3>2
  <2>9. ~ToBegin(t, slot)
    BY <1>4, <1>7 DEF ToBegin
  <2>10. /\ \A s \in MatchingSlots(t) : ToBegin(t, s)' \/ Begun(t, s)' \/ Visited(t, s)'
         /\ \A s \in MatchingSlots(t) : Visited(t, s)' => ~ToBegin(t, s)' /\ ~Begun(t, s)'
    BY <2>2, <2>4, <2>7, <2>8, <2>9
  <2>11. \A w \in DOMAIN open'[t] :
           w \notin pending[t] /\ open'[t][w] \subseteq MatchingSlots(t) \cap SlotsOf(w)
    <3>1. \A w \in DOMAIN open[t] :
            w \notin pending[t] /\ open[t][w] \subseteq MatchingSlots(t) \cap SlotsOf(w)
      BY <1>1 DEF SlotsShared
    <3>2. left \subseteq open[t][word]
      OBVIOUS
    <3> HIDE DEF left
    <3>3. QED
      BY <1>11, <3>1, <3>2
  <2>12. QED
    BY <1>2, <1>10, <2>1, <2>5, <2>6, <2>10, <2>11 DEF SlotsShared, SlotsOf
<1>19. SlotsAscend(t)'
  <2>1. SUFFICES ASSUME ~parallel[t] PROVE SlotsAscend(t)'
    BY <1>2 DEF SlotsAscend
  <2>2. /\ \A w, v \in DOMAIN open[t] : w = v
        /\ \A w \in DOMAIN open[t] : \A p \in pending[t] : w < p
        /\ \A i \in 1 .. n :
             /\ \A p \in pending[t] : visited[t][i].slot < p * WordBits
             /\ \A w \in DOMAIN open[t] : \A s \in open[t][w] : visited[t][i].slot < s
        /\ \A i, j \in 1 .. n : i < j => visited[t][i].slot < visited[t][j].slot
    BY <1>1, <2>1 DEF SlotsAscend, n
  <2>3. \A p \in pending[t] : slot < p * WordBits
    <3>1. \A p \in pending[t] : p \in Nat /\ word < p
      BY <1>1, <1>2, <2>2, ViewAssumptions DEF ViewTypeOK, Words
    <3>2. QED
      BY <1>2, <1>7, <3>1, WordsAscend
  <2>4. \A s \in left : slot < s
    <3>1. \A s \in left : s \in Nat /\ slot <= s /\ s # slot
      BY <1>4, <1>5, <1>6
    <3>2. QED
      BY <1>7, <3>1
  <2>5. \A w \in DOMAIN open'[t] : w = word /\ open'[t][w] = left
    BY <1>2, <1>11, <2>2
  <2>6. \A i \in 1 .. n : \A s \in left : visited[t][i].slot < s
    BY <1>2, <2>2
  <2> HIDE DEF left
  <2>7. \A i \in 1 .. n + 1 :
          /\ \A p \in pending[t] : visited'[t][i].slot < p * WordBits
          /\ \A w \in DOMAIN open'[t] : \A s \in open'[t][w] : visited'[t][i].slot < s
    BY <1>8, <1>10, <1>16, <2>2, <2>3, <2>4, <2>5, <2>6
  <2>8. \A i, j \in 1 .. n + 1 : i < j => visited'[t][i].slot < visited'[t][j].slot
    <3>1. \A i \in 1 .. n : visited[t][i].slot < slot
      BY <1>2, <1>6, <2>2
    <3>2. QED
      BY <1>8, <1>10, <1>16, <2>2, <3>1
  <2>9. QED
    BY <1>2, <1>10, <1>11, <2>2, <2>7, <2>8 DEF SlotsAscend
<1>20. Part(t)'
  BY <1>15, <1>18, <1>19 DEF Part
<1>21. \A u \in Threads : Part(u)'
  BY <1>2, <1>12, <1>20, PartsKept DEF entityVars
<1>22. QED
  BY <1>13, <1>14, <1>21 DEF ViewInv, Part

LEMMA EndWordKeeps ==
  ASSUME ViewInv, NEW t \in Threads, NEW word \in Words(MaxWords), endWord(t, word)
  PROVE  ViewInv'
<1>1. ViewTypeOK /\ BitmapsCover /\ PlaceHeld(t) /\ SlotsShared(t) /\ SlotsAscend(t)
  BY DEF ViewInv
<1>2. /\ word \in DOMAIN open[t] /\ open[t][word] = {}
      /\ open' = [open EXCEPT ![t] = [w \in DOMAIN open[t] \ {word} |-> open[t][w]]]
      /\ UNCHANGED <<entityVars, world, registry, pc, parallel, storages, wordCount, pending, visited>>
  BY DEF endWord
<1>3. /\ DOMAIN open' = Threads
      /\ \A u \in Threads \ {t} : open'[u] = open[u]
      /\ DOMAIN open'[t] = DOMAIN open[t] \ {word}
      /\ \A w \in DOMAIN open[t] : w # word => open'[t][w] = open[t][w]
  BY <1>1, <1>2 DEF ViewTypeOK
<1>4. \A u \in Threads \ {t} : Same(u)
  BY <1>2, <1>3 DEF Same
<1>5. ViewTypeOK' /\ BitmapsCover'
  <2>1. \A u \in Threads : DOMAIN open'[u] \subseteq Words(MaxWords)
                          /\ \A w \in DOMAIN open'[u] : open'[u][w] \in SUBSET Slot
    BY <1>1, <1>3 DEF ViewTypeOK
  <2>2. QED
    BY <1>1, <1>2, <1>3, <2>1
    DEF ViewTypeOK, EntityTypeOK, BitmapsCover, entityVars, world
<1>6. \A u \in Threads : StoragesShared(u)'
  BY <1>2 DEF ViewInv, StoragesShared
<1>7. PlaceHeld(t)'
  BY <1>1, <1>2, <1>3, ViewAssumptions DEF PlaceHeld, Missing
<1>8. SlotsShared(t)'
  <2>1. MatchingSlots(t)' = MatchingSlots(t) /\ \A s : HandleOf(s)' = HandleOf(s)
    BY <1>2 DEF MatchingSlots, HandleOf, world, entityVars
  <2>2. \A s : (Visited(t, s)' <=> Visited(t, s)) /\ (ToBegin(t, s)' <=> ToBegin(t, s))
    BY <1>2 DEF Visited, ToBegin
  <2>3. \A s : Begun(t, s)' <=> Begun(t, s)
    BY <1>2, <1>3 DEF Begun
  <2>4. QED
    BY <1>1, <1>2, <1>3, <2>1, <2>2, <2>3 DEF SlotsShared, SlotsOf
<1>9. SlotsAscend(t)'
  BY <1>1, <1>2, <1>3 DEF SlotsAscend
<1>10. Part(t)'
  BY <1>7, <1>8, <1>9 DEF Part
<1>11. \A u \in Threads : Part(u)'
  BY <1>2, <1>4, <1>10, PartsKept DEF entityVars
<1>12. QED
  BY <1>5, <1>6, <1>11 DEF ViewInv, Part

LEMMA EndViewKeeps ==
  ASSUME ViewInv, NEW t \in Threads, endView(t)
  PROVE  ViewInv'
<1>1. ViewTypeOK /\ BitmapsCover /\ PlaceHeld(t) /\ SlotsShared(t) /\ SlotsAscend(t)
  BY DEF ViewInv
<1>2. /\ pc[t] = "words" /\ pending[t] = {} /\ DOMAIN open[t] = {}
      /\ pc' = [pc EXCEPT ![t] = "end"]
      /\ UNCHANGED <<entityVars, world, registry, parallel, storages, wordCount, pending, open, visited>>
  BY DEF endView, Goto
<1>3. /\ pc' \in [Threads -> {"begin", "storages", "words", "end"} \cup Components]
      /\ \A u \in Threads \ {t} : pc'[u] = pc[u]
      /\ pc'[t] = "end"
  BY <1>1, <1>2 DEF ViewTypeOK
<1>4. \A u \in Threads \ {t} : Same(u)
  BY <1>2, <1>3 DEF Same
<1>5. ViewTypeOK' /\ BitmapsCover'
  BY <1>1, <1>2, <1>3 DEF ViewTypeOK, EntityTypeOK, BitmapsCover, entityVars, world
<1>6. \A u \in Threads : StoragesShared(u)'
  BY <1>2 DEF ViewInv, StoragesShared
<1>7. PlaceHeld(t)'
  BY <1>2, <1>3, ViewAssumptions DEF PlaceHeld
<1>8. SlotsShared(t)'
  <2>1. MatchingSlots(t)' = MatchingSlots(t) /\ \A s : HandleOf(s)' = HandleOf(s)
    BY <1>2 DEF MatchingSlots, HandleOf, world, entityVars
  <2>2. \A s : /\ Visited(t, s)' <=> Visited(t, s)
               /\ ToBegin(t, s)' <=> ToBegin(t, s)
               /\ Begun(t, s)' <=> Begun(t, s)
    BY <1>2 DEF Visited, ToBegin, Begun
  <2>3. QED
    BY <1>1, <1>2, <1>3, <2>1, <2>2 DEF SlotsShared, SlotsOf
<1>9. SlotsAscend(t)'
  BY <1>1, <1>2 DEF SlotsAscend
<1>10. Part(t)'
  BY <1>7, <1>8, <1>9 DEF Part
<1>11. \A u \in Threads : Part(u)'
  BY <1>2, <1>4, <1>10, PartsKept DEF entityVars
<1>12. QED
  BY <1>5, <1>6, <1>11 DEF ViewInv, Part

(* An entity created meanwhile is nobody's subscriber. *)
LEMMA CallbackKeeps ==
  ASSUME ViewInv, callbackCreates
  PROVE  ViewInv'
<1>1. EntityTypeOK' /\ UNCHANGED generations /\ aliveSlots \subseteq aliveSlots'
  BY CreateKeeps DEF ViewInv, ViewTypeOK, callbackCreates
<1>2. UNCHANGED viewVars
  BY DEF callbackCreates
<1>3. ViewTypeOK' /\ BitmapsCover'
  BY <1>1, <1>2 DEF ViewInv, ViewTypeOK, BitmapsCover, viewVars, world
<1>4. \A u \in Threads : StoragesShared(u)'
  BY <1>2 DEF ViewInv, StoragesShared, viewVars
<1>5. \A u \in Threads : Same(u)
  BY <1>2 DEF Same, viewVars
<1>6. UNCHANGED <<world, generations, parallel>>
  BY <1>1, <1>2 DEF viewVars
<1>7. \A u \in Threads : PlaceHeld(u)' /\ SlotsShared(u)' /\ SlotsAscend(u)'
  BY <1>5, <1>6, OthersKeep DEF ViewInv
<1>8. QED
  BY <1>3, <1>4, <1>7 DEF ViewInv

LEMMA ViewStep == ViewInv /\ [ViewNext]_vars => ViewInv'
<1> SUFFICES ASSUME ViewInv, [ViewNext]_vars PROVE ViewInv'
  OBVIOUS
<1>1. CASE callbackCreates
  BY <1>1, CallbackKeeps
<1>2. ASSUME NEW t \in Threads,
             beginView(t) \/ findStorage(t) \/ missStorage(t) \/ createStorage(t)
               \/ joinWordCount(t) \/ endView(t)
      PROVE  ViewInv'
  BY <1>2, BeginKeeps, FindKeeps, MissKeeps, CreateStorageKeeps, JoinKeeps, EndViewKeeps
<1>3. ASSUME NEW t \in Threads, NEW word \in Words(MaxWords),
             beginWord(t, word) \/ visitSlot(t, word) \/ endWord(t, word)
      PROVE  ViewInv'
  BY <1>3, BeginWordKeeps, VisitKeeps, EndWordKeeps
<1>4. CASE UNCHANGED vars
  <2>1. UNCHANGED entityVars /\ UNCHANGED viewVars
    BY <1>4 DEF vars
  <2>2. ViewTypeOK' /\ BitmapsCover'
    BY <2>1 DEF ViewInv, ViewTypeOK, EntityTypeOK, BitmapsCover, viewVars, world, entityVars
  <2>3. \A u \in Threads : StoragesShared(u)'
    BY <2>1 DEF ViewInv, StoragesShared, viewVars
  <2>4. \A u \in Threads : Same(u)
    BY <2>1 DEF Same, viewVars
  <2>5. UNCHANGED <<world, generations, parallel>>
    BY <2>1 DEF viewVars, entityVars
  <2>6. \A u \in Threads : PlaceHeld(u)' /\ SlotsShared(u)' /\ SlotsAscend(u)'
    BY <2>4, <2>5, OthersKeep DEF ViewInv
  <2>7. QED
    BY <2>2, <2>3, <2>6 DEF ViewInv
<1>5. QED
  BY <1>1, <1>2, <1>3, <1>4 DEF ViewNext

-----------------------------------------------------------------------------
(* At every step of every join (forEachSubscribedEntityJoin and its parallel *)
(* form), callbacks that create entities included, the matching slots are     *)
(* visited, left in a word begun, or in a word to begin.                       *)
THEOREM ViewInvariant == ViewSpec => []ViewInv
<1>1. QED
  BY ViewInitially, ViewStep, PTL DEF ViewSpec

(* Views, registry and bitmaps keep their types: no view counts more words    *)
(* than there are, holds a storage it did not ask for, or visits what is not   *)
(* a handle.                                                                  *)
THEOREM ViewTypes == ViewSpec => []ViewTypeOK
<1>1. ViewInv => ViewTypeOK
  BY DEF ViewInv
<1>2. QED
  BY <1>1, ViewInvariant, PTL

(* All threads that ask for a type at once get the one storage of the        *)
(* registry (ComponentManager::getOrCreateStorage).                            *)
THEOREM SharedStorages == ViewSpec => []OneStoragePerType
<1>1. ViewInv => OneStoragePerType
  BY DEF ViewInv, StoragesShared, OneStoragePerType
<1>2. QED
  BY <1>1, ViewInvariant, PTL

(* What ViewInv says of the slots, said of the handles passed to func. *)
LEMMA VisitsMatch == ViewInv => ViewsVisitMatching
<1> SUFFICES ASSUME ViewInv, NEW t \in Threads
             PROVE  /\ IsInjective(visited[t])
                    /\ ToSet(visited[t]) \subseteq Matching(t)
                    /\ pc[t] = "end" => ToSet(visited[t]) = Matching(t)
                    /\ ~parallel[t] => \A i \in 1 .. Len(visited[t]) - 1 :
                                         visited[t][i].slot < visited[t][i + 1].slot
  BY DEF ViewsVisitMatching
<1>1. SlotsShared(t) /\ SlotsAscend(t) /\ PlaceHeld(t) /\ BitmapsCover
  BY DEF ViewInv
<1>2. visited[t] \in Seq(Handle) /\ subscribed \subseteq aliveSlots
  BY <1>1 DEF ViewInv, ViewTypeOK, BitmapsCover
<1>3. DOMAIN visited[t] = 1 .. Len(visited[t]) /\ Len(visited[t]) \in Nat
  BY <1>2, LenProperties
<1>4. \A s : HandleOf(s).slot = s
  BY DEF HandleOf
<1>5. Matching(t) = {HandleOf(s) : s \in MatchingSlots(t)}
  BY <1>2, <1>4 DEF Matching, MatchingSlots, LiveHandles
<1>6. IsInjective(visited[t])
  BY <1>1, <1>3 DEF SlotsShared, IsInjective
<1>7. ToSet(visited[t]) \subseteq Matching(t)
  BY <1>1, <1>3, <1>5 DEF SlotsShared, ToSet
<1>8. ASSUME pc[t] = "end" PROVE Matching(t) \subseteq ToSet(visited[t])
  <2>1. ASSUME NEW s \in MatchingSlots(t) PROVE HandleOf(s) \in ToSet(visited[t])
    <3>1. Visited(t, s)
      BY <1>1, <1>8 DEF SlotsShared, PlaceHeld, ToBegin, Begun
    <3>2. PICK i \in 1 .. Len(visited[t]) : visited[t][i].slot = s
      BY <3>1 DEF Visited
    <3>3. visited[t][i] = HandleOf(s)
      BY <1>1, <3>2 DEF SlotsShared
    <3>4. QED
      BY <1>3, <3>3 DEF ToSet
  <2>2. QED
    BY <1>5, <2>1
<1>9. ASSUME ~parallel[t], NEW i \in 1 .. Len(visited[t]) - 1
      PROVE  visited[t][i].slot < visited[t][i + 1].slot
  <2>1. i \in 1 .. Len(visited[t]) /\ i + 1 \in 1 .. Len(visited[t]) /\ i < i + 1
    BY <1>3
  <2>2. QED
    BY <1>1, <1>9, <2>1 DEF SlotsAscend
<1>10. QED
  BY <1>6, <1>7, <1>8, <1>9

(* A join calls func once for every subscribed entity with the joined         *)
(* components, and for no other, in slot order unless parallel                 *)
(* (forEachSubscribedEntityJoinWords), for any lengths of the bitmaps.         *)
THEOREM MatchingVisited == ViewSpec => []ViewsVisitMatching
<1>1. QED
  BY VisitsMatch, ViewInvariant, PTL
=============================================================================
