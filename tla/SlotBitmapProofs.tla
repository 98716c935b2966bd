--------------------------- MODULE SlotBitmapProofs ---------------------------
(***************************************************************************)
(* Theorems of SlotBitmap, for any number of threads, any slots and words    *)
(* of any size.                                                              *)
(***************************************************************************)
EXTENDS SlotBitmap, OperatorLemmas, FiniteSetTheorems

-----------------------------------------------------------------------------
(* Powers of two and their widths. *)

(* 2 ^ n counts the sets of n elements. *)
LEMMA PowerCounts ==
  ASSUME NEW n \in Nat
  PROVE  /\ 2 ^ n \in Nat
         /\ IsFiniteSet(SUBSET (1 .. n))
         /\ Cardinality(SUBSET (1 .. n)) = 2 ^ n
<1>1. IsFiniteSet(1 .. n) /\ Cardinality(1 .. n) = n
  BY FS_Interval
<1>2. IsFiniteSet(SUBSET (1 .. n)) /\ Cardinality(SUBSET (1 .. n)) = 2 ^ n
  BY <1>1, FS_SUBSET
<1>3. QED
  BY <1>2, FS_CardinalityType

LEMMA PowerMonotone ==
  ASSUME NEW m \in Nat, NEW n \in Nat, m <= n
  PROVE  2 ^ m <= 2 ^ n
<1>1. SUBSET (1 .. m) \subseteq SUBSET (1 .. n)
  OBVIOUS
<1>2. /\ IsFiniteSet(SUBSET (1 .. n))
      /\ Cardinality(SUBSET (1 .. n)) = 2 ^ n
      /\ Cardinality(SUBSET (1 .. m)) = 2 ^ m
  BY PowerCounts
<1>3. Cardinality(SUBSET (1 .. m)) <= Cardinality(SUBSET (1 .. n))
  BY <1>1, <1>2, FS_Subset
<1>4. QED
  BY <1>2, <1>3

(* The intervals from 1 alone are more than n sets. *)
LEMMA PowerExceeds ==
  ASSUME NEW n \in Nat
  PROVE  n < 2 ^ n
<1> DEFINE S == SUBSET (1 .. n)
           f == [k \in 0 .. n |-> 1 .. k]
<1>1. f \in [0 .. n -> S]
  OBVIOUS
<1>2. ASSUME NEW j \in 0 .. n, NEW k \in 0 .. n, f[j] = f[k]
      PROVE  j = k
  <2>1. 1 .. j = 1 .. k
    BY <1>2
  <2>2. j \in 1 .. j \/ j = 0
    OBVIOUS
  <2>3. k \in 1 .. k \/ k = 0
    OBVIOUS
  <2>4. QED
    BY <2>1, <2>2, <2>3
<1>3. f \in Injection(0 .. n, S)
  BY <1>1, <1>2 DEF Injection, IsInjective
<1>4. IsFiniteSet(S) /\ Cardinality(S) = 2 ^ n /\ 2 ^ n \in Nat
  BY PowerCounts
<1>5. Cardinality(0 .. n) <= Cardinality(S)
  BY <1>3, <1>4, FS_Injection
<1>6. Cardinality(0 .. n) = n + 1
  BY FS_Interval
<1> HIDE DEF S
<1>7. QED
  BY <1>4, <1>5, <1>6

(* There is a least power of two above n: BitWidth is well-defined ... *)
LEMMA BitWidthIs ==
  ASSUME NEW n \in Nat
  PROVE  /\ BitWidth(n) \in 0 .. n
         /\ n < 2 ^ BitWidth(n)
         /\ BitWidth(n) = 0 \/ 2 ^ (BitWidth(n) - 1) <= n
<1> DEFINE Above == {w \in 0 .. n : n < 2 ^ w}
<1>1. n \in Above /\ Above \in SUBSET Nat
  BY PowerExceeds
<1>2. PICK w \in Above : \A x \in Above : w <= x
  BY <1>1, MinOf
<1>3. w \in 0 .. n /\ n < 2 ^ w
  BY <1>2
<1>4. w = 0 \/ 2 ^ (w - 1) <= n
  <2>1. CASE w # 0
    <3>1. w - 1 \in 0 .. n /\ w - 1 \in Nat /\ ~(w <= w - 1)
      BY <1>3, <2>1
    <3>2. ~(n < 2 ^ (w - 1))
      BY <1>2, <3>1
    <3>3. 2 ^ (w - 1) \in Nat
      BY <3>1, PowerCounts
    <3>4. QED
      BY <3>2, <3>3
  <2>2. QED
    BY <2>1
<1>5. QED
  BY <1>3, <1>4 DEF BitWidth

(* ... and monotone: later words lie on later pages. *)
LEMMA BitWidthMonotone ==
  ASSUME NEW m \in Nat, NEW n \in Nat, m <= n
  PROVE  BitWidth(m) <= BitWidth(n)
<1> DEFINE v == BitWidth(m)
           w == BitWidth(n)
<1>1. /\ v \in Nat /\ w \in Nat
      /\ n < 2 ^ w
      /\ v = 0 \/ 2 ^ (v - 1) <= m
  BY BitWidthIs
<1> HIDE DEF v, w
<1>2. SUFFICES ASSUME w < v PROVE FALSE
  BY <1>1 DEF v, w
<1>3. v - 1 \in Nat /\ w <= v - 1 /\ v # 0
  BY <1>1, <1>2
<1>4. 2 ^ w <= 2 ^ (v - 1) /\ 2 ^ w \in Nat /\ 2 ^ (v - 1) \in Nat
  BY <1>1, <1>3, PowerMonotone, PowerCounts
<1>5. QED
  BY <1>1, <1>3, <1>4

-----------------------------------------------------------------------------
(* Words and pages. *)

LEMMA WordOfSlot ==
  ASSUME NEW s \in Slots
  PROVE  WordOf(s) \in 0 .. MaxWords - 1
<1> DEFINE w == WordOf(s)
<1>1. /\ WordBits \in Nat \ {0} /\ MaxWords \in Nat
      /\ s \in Nat /\ s < MaxWords * WordBits
  BY BitmapAssumptions
<1>2. w \in Nat /\ WordBits * w <= s
  BY <1>1 DEF WordOf
<1> HIDE DEF w
<1>3. ASSUME w >= MaxWords PROVE FALSE
  <2>1. PICK k \in Nat : w = MaxWords + k
    <3>1. w - MaxWords \in Nat /\ w = MaxWords + (w - MaxWords)
      BY <1>1, <1>2, <1>3
    <3>2. QED
      BY <3>1
  <2>2. WordBits * w = MaxWords * WordBits + WordBits * k
    BY <1>1, <2>1
  <2>3. WordBits * k >= 0
    BY <1>1
  <2>4. QED
    BY <1>1, <1>2, <2>2, <2>3
<1>4. QED
  BY <1>1, <1>2, <1>3 DEF w

LEMMA WordsForReservation ==
  ASSUME NEW n \in Reservations
  PROVE  WordsFor(n) \in 0 .. MaxWords
<1> DEFINE w == WordsFor(n)
<1>1. /\ WordBits \in Nat \ {0} /\ MaxWords \in Nat
      /\ n \in Nat /\ n <= MaxWords * WordBits
  BY BitmapAssumptions
<1>2. w \in Nat /\ WordBits * w <= n + WordBits - 1
  BY <1>1 DEF WordsFor
<1> HIDE DEF w
<1>3. ASSUME w > MaxWords PROVE FALSE
  <2>1. PICK k \in Nat : w = (MaxWords + 1) + k
    <3>1. w - (MaxWords + 1) \in Nat /\ w = (MaxWords + 1) + (w - (MaxWords + 1))
      BY <1>1, <1>2, <1>3
    <3>2. QED
      BY <3>1
  <2>2. WordBits * w = MaxWords * WordBits + WordBits + WordBits * k
    BY <1>1, <2>1
  <2>3. WordBits * k >= 0
    BY <1>1
  <2>4. QED
    BY <1>1, <1>2, <2>2, <2>3
<1>4. QED
  BY <1>1, <1>2, <1>3 DEF w

LEMMA GrownIsEnough ==
  ASSUME NEW w \in 0 .. MaxWords - 1, wordCount \in 0 .. MaxWords
  PROVE  GrownWordCount(w) \in w + 1 .. MaxWords
<1> DEFINE S == {w + 1, 2 * wordCount}
<1>1. MaxWords \in Nat \ {0} /\ w + 1 \in Nat /\ 2 * wordCount \in Nat
  BY BitmapAssumptions
<1>2. PICK m \in S : \A x \in S : m >= x
  <2>1. CASE w + 1 >= 2 * wordCount
    BY <1>1, <2>1
  <2>2. CASE w + 1 < 2 * wordCount
    BY <1>1, <2>2
  <2>3. QED
    BY <1>1, <2>1, <2>2
<1>3. Max(S) \in S /\ \A x \in S : Max(S) >= x
  BY <1>2 DEF Max
<1>4. Max(S) \in Nat /\ Max(S) >= w + 1
  BY <1>1, <1>3
<1> HIDE DEF S
<1>5. /\ Min({MaxWords, Max(S)}) \in {MaxWords, Max(S)}
      /\ \A x \in {MaxWords, Max(S)} : Min({MaxWords, Max(S)}) <= x
  BY <1>1, <1>4, MinOf
<1>6. QED
  BY <1>1, <1>4, <1>5 DEF GrownWordCount, S

LEMMA PageOfWord ==
  ASSUME NEW w \in 0 .. MaxWords
  PROVE  PageOf(w) \in 0 .. BitWidth(MaxWords) /\ BitWidth(MaxWords) \in 0 .. MaxWords
<1>1. w \in Nat /\ MaxWords \in Nat /\ w <= MaxWords
  BY BitmapAssumptions
<1>2. QED
  BY <1>1, BitWidthIs, BitWidthMonotone DEF PageOf

LEMMA PagesGrow ==
  ASSUME NEW v \in 0 .. MaxWords, NEW w \in 0 .. MaxWords, v <= w
  PROVE  PageOf(v) <= PageOf(w)
<1>1. v \in Nat /\ w \in Nat
  BY BitmapAssumptions
<1>2. QED
  BY <1>1, BitWidthMonotone DEF PageOf

(* The pages from the first to the last: the first is already there, or is   *)
(* page 0 of an empty bitmap.                                                 *)
LEMMA FirstAndLast ==
  ASSUME NEW v \in 0 .. MaxWords, NEW w \in 0 .. MaxWords, v < w
  PROVE  /\ FirstPage(v) \in 0 .. LastPage(w)
         /\ LastPage(w) \in 0 .. BitWidth(MaxWords)
         /\ LastPage(w) \in 0 .. MaxWords
         /\ v > 0 => FirstPage(v) = LastPage(v)
         /\ v = 0 => FirstPage(v) = 0
<1>1. MaxWords \in Nat /\ w - 1 \in 0 .. MaxWords
  BY BitmapAssumptions
<1>2. LastPage(w) \in 0 .. BitWidth(MaxWords) /\ LastPage(w) \in 0 .. MaxWords
  BY <1>1, PageOfWord DEF LastPage
<1>3. CASE v = 0
  BY <1>2, <1>3 DEF FirstPage
<1>4. CASE v > 0
  <2>1. v - 1 \in 0 .. MaxWords /\ v - 1 <= w - 1 /\ v # 0
    BY <1>1, <1>4
  <2>2. PageOf(v - 1) <= PageOf(w - 1) /\ PageOf(v - 1) \in Nat
    BY <1>1, <2>1, PageOfWord, PagesGrow
  <2>3. QED
    BY <1>2, <1>4, <2>1, <2>2 DEF FirstPage, LastPage
<1>5. QED
  BY <1>3, <1>4

-----------------------------------------------------------------------------
(* The inductive invariant.  Which call a thread is in, at each place. *)
Growing == {"ensure", "page", "install", "publish"}

CallFits(t) ==
  /\ pc[t] = "idle" => frame[t] = NoFrame
  /\ pc[t] = "start" =>
       frame[t].op \in {"set", "clear", "test"} \cup Sweeps /\ frame[t].index = 0
  /\ pc[t] \in Growing => frame[t].op \in {"set", "reserve"}
  /\ pc[t] = "touch" => frame[t].op \in {"set", "clear", "test"}
  /\ pc[t] = "sweep" => frame[t].op \in Sweeps
  /\ pc[t] = "count" => frame[t].op \in {"set", "clear", "clearAll"}
  /\ pc[t] = "return" => frame[t].op # "none"
  /\ frame[t].op \in {"set", "clear", "test"} => frame[t].slot \in Slots
  /\ pc[t] # "return" => frame[t].present = FALSE

(* A thread that grows the bitmap wants the word it came for, and has seen   *)
(* to the pages before the one it is at.                                     *)
GrowthFits(t) ==
  /\ pc[t] \in Growing /\ frame[t].op = "set" =>
       WordOf(frame[t].slot) < frame[t].target
  /\ pc[t] \in {"page", "install", "publish"} => frame[t].current < frame[t].target
  /\ pc[t] \in {"page", "install"} =>
       /\ frame[t].index <= LastPage(frame[t].target)
       /\ 0 .. frame[t].index - 1 \subseteq pages
  /\ pc[t] = "publish" => 0 .. LastPage(frame[t].target) \subseteq pages

(* Words a thread is about to touch, or is sweeping, are published. *)
Sweeping(t) == pc[t] = "sweep" \/ (pc[t] = "count" /\ frame[t].op = "clearAll")

WordsReach(t) ==
  /\ pc[t] = "touch" => WordOf(frame[t].slot) < wordCount
  /\ Sweeping(t) => frame[t].index < frame[t].current /\ frame[t].current <= wordCount

(* What a sweep has still to find is set, in words it has still to reach. *)
DueAhead(t) ==
  /\ frame[t].due \subseteq bits
  /\ frame[t].op \notin Sweeps => frame[t].due = {}
  /\ pc[t] = "return" => frame[t].due = {}
  /\ Sweeping(t) =>
       \A s \in frame[t].due :
         /\ WordOf(s) < frame[t].current
         /\ frame[t].index <= WordOf(s)
         /\ pc[t] = "count" => frame[t].index # WordOf(s)

PublishedWords ==
  /\ wordCount > 0 => 0 .. LastPage(wordCount) \subseteq pages
  /\ \A s \in bits : WordOf(s) < wordCount

ThreadFits(t) == CallFits(t) /\ GrowthFits(t) /\ WordsReach(t) /\ DueAhead(t)

BitmapInv ==
  /\ BitmapTypeOK
  /\ PublishedWords
  /\ \A t \in Threads : ThreadFits(t)

-----------------------------------------------------------------------------
(* What steps have in common. *)

(* The other threads keep their place and their locals; slots that are       *)
(* cleared are no longer due.                                                *)
OthersKeep(t) ==
  \A u \in Threads \ {t} :
    /\ pc'[u] = pc[u]
    /\ frame'[u].op = frame[u].op
    /\ frame'[u].slot = frame[u].slot
    /\ frame'[u].current = frame[u].current
    /\ frame'[u].target = frame[u].target
    /\ frame'[u].index = frame[u].index
    /\ frame'[u].change = frame[u].change
    /\ frame'[u].present = frame[u].present
    /\ frame'[u].due = frame[u].due \ (bits \ bits')
    /\ frame[u] = NoFrame => frame'[u] = NoFrame

(* Pages and words only become more. *)
Grows == pages \subseteq pages' /\ wordCount <= wordCount'

(* So what the other threads rely on stays true. *)
LEMMA OthersFit ==
  ASSUME BitmapInv, BitmapTypeOK', NEW t \in Threads, OthersKeep(t), Grows,
         NEW u \in Threads, u # t
  PROVE  ThreadFits(u)'
<1> DEFINE f == frame[u]
           g == frame'[u]
<1>1. /\ pc'[u] = pc[u] /\ g.op = f.op /\ g.slot = f.slot /\ g.current = f.current
      /\ g.target = f.target /\ g.index = f.index /\ g.present = f.present
      /\ g.due = f.due \ (bits \ bits') /\ (f = NoFrame => g = NoFrame)
  BY DEF OthersKeep
<1>2. f \in Frame /\ wordCount \in 0 .. MaxWords /\ wordCount' \in 0 .. MaxWords /\ MaxWords \in Nat
  BY BitmapAssumptions DEF BitmapInv, BitmapTypeOK
<1>3. f.current \in Nat /\ f.slot \in Slots \cup {0}
  BY <1>2 DEF Frame
<1>4. CallFits(u) /\ GrowthFits(u) /\ WordsReach(u) /\ DueAhead(u)
  BY DEF BitmapInv, ThreadFits
<1> HIDE DEF f, g
<1>5. CallFits(u)'
  BY <1>1, <1>4 DEF CallFits, f, g
<1>6. GrowthFits(u)'
  BY <1>1, <1>4 DEF GrowthFits, Grows, LastPage, f, g
<1>7. WordsReach(u)'
  <2>1. pc[u] = "touch" => WordOf(f.slot) < wordCount'
    <3>1. CASE pc[u] = "touch"
      <4>1. f.slot \in Slots
        BY <3>1, <1>4 DEF CallFits, f
      <4>2. WordOf(f.slot) \in Nat /\ WordOf(f.slot) < wordCount
        BY <4>1, <3>1, <1>2, <1>4, WordOfSlot DEF WordsReach, f
      <4>3. QED
        BY <4>2, <1>2 DEF Grows
    <3>2. QED
      BY <3>1
  <2>2. Sweeping(u) => f.index < f.current /\ f.current <= wordCount'
    BY <1>2, <1>3, <1>4 DEF WordsReach, Grows, f
  <2>3. QED
    BY <1>1, <2>1, <2>2 DEF WordsReach, Sweeping, f, g
<1>8. DueAhead(u)'
  BY <1>1, <1>4 DEF DueAhead, Sweeping, f, g
<1>9. QED
  BY <1>5, <1>6, <1>7, <1>8 DEF ThreadFits

(* A step of t keeps the invariant if what t itself relies on then holds. *)
LEMMA StepFits ==
  ASSUME BitmapInv, NEW t \in Threads,
         BitmapTypeOK', OthersKeep(t), Grows, PublishedWords', ThreadFits(t)'
  PROVE  BitmapInv' /\ OthersKeep(t)
<1>1. ASSUME NEW u \in Threads PROVE ThreadFits(u)'
  <2>1. CASE u # t
    BY <2>1, OthersFit
  <2>2. QED
    BY <2>1
<1>2. QED
  BY <1>1 DEF BitmapInv

(* Published words stay so when the bitmap grows. *)
LEMMA WordsStay ==
  ASSUME BitmapInv, UNCHANGED wordCount, pages \subseteq pages', bits' \subseteq bits
  PROVE  Grows /\ PublishedWords'
<1>1. wordCount \in Nat
  BY BitmapAssumptions DEF BitmapInv, BitmapTypeOK
<1>2. PublishedWords
  BY DEF BitmapInv
<1>3. LastPage(wordCount)' = LastPage(wordCount)
  BY DEF LastPage
<1>4. QED
  BY <1>1, <1>2, <1>3 DEF PublishedWords, Grows

-----------------------------------------------------------------------------
(* The invariant is inductive. *)

LEMMA InitInv == BitmapInit => BitmapInv
<1> SUFFICES ASSUME BitmapInit PROVE BitmapInv
  OBVIOUS
<1>1. MaxWords \in Nat
  BY BitmapAssumptions
<1>2. NoFrame \in Frame
  BY <1>1 DEF NoFrame, Frame
<1>3. BitmapTypeOK
  BY <1>1, <1>2 DEF BitmapInit, BitmapTypeOK
<1>4. PublishedWords
  BY DEF BitmapInit, PublishedWords
<1>5. ASSUME NEW t \in Threads PROVE ThreadFits(t)
  <2>1. pc[t] = "idle" /\ frame[t] = NoFrame
    BY DEF BitmapInit
  <2>2. QED
    BY <2>1 DEF ThreadFits, CallFits, GrowthFits, WordsReach, DueAhead, Sweeping, NoFrame,
                Growing, Sweeps
<1>6. QED
  BY <1>3, <1>4, <1>5 DEF BitmapInv

(* Calls begin. *)
LEMMA EnterFits ==
  ASSUME BitmapInv, NEW t \in Threads, NEW f \in Frame, NEW label \in {"start", "ensure"},
         Enter(t, f, label),
         f.present = FALSE, f.index = 0,
         f.due \subseteq bits,
         f.op \in Sweeps \/ f.due = {},
         f.op \in {"set", "clear", "test"} => f.slot \in Slots,
         label = "start" => f.op \in {"set", "clear", "test"} \cup Sweeps,
         label = "ensure" => f.op = "reserve"
  PROVE  BitmapInv' /\ OthersKeep(t)
<1>1. /\ pc[t] = "idle" /\ UNCHANGED memory
      /\ frame' = [frame EXCEPT ![t] = f]
      /\ pc' = [pc EXCEPT ![t] = label]
  BY DEF Enter, Goto
<1>2. BitmapTypeOK
  BY DEF BitmapInv
<1>3. BitmapTypeOK'
  BY <1>1, <1>2 DEF BitmapTypeOK, memory
<1>4. frame'[t] = f /\ pc'[t] = label
  BY <1>1, <1>2 DEF BitmapTypeOK
<1>5. OthersKeep(t)
  BY <1>1, <1>2 DEF BitmapTypeOK, OthersKeep, memory
<1>6. Grows /\ PublishedWords'
  BY <1>1, WordsStay DEF memory
<1>7. ThreadFits(t)'
  BY <1>1, <1>4 DEF ThreadFits, CallFits, GrowthFits, WordsReach, DueAhead, Sweeping, Growing,
                    Sweeps, memory
<1>8. QED
  BY <1>3, <1>5, <1>6, <1>7, StepFits

LEMMA NoFrameFields ==
  /\ NoFrame \in Frame
  /\ NoFrame.op = "none" /\ NoFrame.slot = 0 /\ NoFrame.index = 0
  /\ NoFrame.present = FALSE /\ NoFrame.due = {}
<1>1. 0 \in 0 .. MaxWords
  BY BitmapAssumptions
<1>2. QED
  BY <1>1 DEF NoFrame, Frame

LEMMA callsFit ==
  ASSUME BitmapInv, NEW t \in Threads
  PROVE  /\ \A op \in {"set", "clear", "test"}, s \in Slots :
              callOnSlot(t, op, s) => BitmapInv' /\ OthersKeep(t)
         /\ \A op \in Sweeps : callSweep(t, op) => BitmapInv' /\ OthersKeep(t)
         /\ \A n \in Reservations : reserveSlots(t, n) => BitmapInv' /\ OthersKeep(t)
<1>1. MaxWords \in Nat /\ bits \in SUBSET Slots
  BY BitmapAssumptions DEF BitmapInv, BitmapTypeOK
<1>2. ASSUME NEW op \in {"set", "clear", "test"}, NEW s \in Slots, callOnSlot(t, op, s)
      PROVE  BitmapInv' /\ OthersKeep(t)
  <2> DEFINE f == [NoFrame EXCEPT !.op = op, !.slot = s]
  <2>1. /\ f \in Frame /\ f.op = op /\ f.slot = s /\ f.present = FALSE /\ f.index = 0 /\ f.due = {}
    BY <1>1, NoFrameFields DEF Frame
  <2>2. Enter(t, f, "start")
    BY <1>2 DEF callOnSlot
  <2> HIDE DEF f
  <2>3. QED
    BY <2>1, <2>2, EnterFits
<1>3. ASSUME NEW op \in Sweeps, callSweep(t, op)
      PROVE  BitmapInv' /\ OthersKeep(t)
  <2> DEFINE f == [NoFrame EXCEPT !.op = op, !.due = bits]
  <2>1. /\ f \in Frame /\ f.op = op /\ f.present = FALSE /\ f.index = 0 /\ f.due = bits
    BY <1>1, NoFrameFields DEF Frame
  <2>2. Enter(t, f, "start")
    BY <1>3 DEF callSweep
  <2>3. f.op \notin {"set", "clear", "test"}
    BY <2>1 DEF Sweeps
  <2> HIDE DEF f
  <2>4. QED
    BY <2>1, <2>2, <2>3, EnterFits
<1>4. ASSUME NEW n \in Reservations, reserveSlots(t, n)
      PROVE  BitmapInv' /\ OthersKeep(t)
  <2> DEFINE f == [NoFrame EXCEPT !.op = "reserve", !.target = WordsFor(n)]
  <2>1. /\ f \in Frame /\ f.op = "reserve" /\ f.present = FALSE /\ f.index = 0 /\ f.due = {}
    BY <1>1, NoFrameFields, WordsForReservation DEF Frame
  <2>2. Enter(t, f, "ensure")
    BY <1>4 DEF reserveSlots
  <2> HIDE DEF f
  <2>3. QED
    BY <2>1, <2>2, EnterFits
<1>5. QED
  BY <1>2, <1>3, <1>4

LEMMA returnFits ==
  ASSUME BitmapInv, NEW t \in Threads, return(t)
  PROVE  BitmapInv' /\ OthersKeep(t)
<1>1. BitmapTypeOK /\ NoFrame \in Frame
  BY NoFrameFields DEF BitmapInv
<1>2. BitmapTypeOK' /\ OthersKeep(t) /\ frame'[t] = NoFrame /\ pc'[t] = "idle" /\ UNCHANGED memory
  BY <1>1 DEF return, Goto, BitmapTypeOK, OthersKeep, memory
<1>3. Grows /\ PublishedWords'
  BY <1>2, WordsStay DEF memory
<1>4. ThreadFits(t)'
  BY <1>2, NoFrameFields DEF ThreadFits, CallFits, GrowthFits, WordsReach, DueAhead, Sweeping,
     Growing, Sweeps
<1>5. QED
  BY <1>2, <1>3, <1>4, StepFits

-----------------------------------------------------------------------------
(* The invariant while the bitmap grows. *)

LEMMA ensureWordCountFits ==
  ASSUME BitmapInv, NEW t \in Threads, ensureWordCount(t)
  PROVE  BitmapInv' /\ OthersKeep(t)
<1> DEFINE f == frame[t]
           g == frame'[t]
<1>1. BitmapTypeOK /\ PublishedWords /\ ThreadFits(t) /\ f \in Frame
  BY DEF BitmapInv, BitmapTypeOK
<1>2. /\ pc[t] = "ensure" /\ UNCHANGED memory
      /\ f.target \in 0 .. MaxWords /\ wordCount \in 0 .. MaxWords /\ MaxWords \in Nat
      /\ f.op \in {"set", "reserve"} /\ (f.op = "set" => f.slot \in Slots) /\ f.present = FALSE
      /\ f.op = "set" => WordOf(f.slot) < f.target
      /\ f.due = {}
  BY <1>1, BitmapAssumptions DEF ensureWordCount, ThreadFits, CallFits, GrowthFits, DueAhead,
     Growing, Sweeps, Frame, BitmapTypeOK
<1>3. FirstPage(wordCount) \in 0 .. MaxWords
  <2>1. CASE wordCount = 0
    BY <1>2, <2>1 DEF FirstPage
  <2>2. CASE wordCount > 0
    BY <1>2, <2>2, PageOfWord DEF FirstPage
  <2>3. QED
    BY <1>2, <2>1, <2>2
<1>4. BitmapTypeOK' /\ OthersKeep(t)
  BY <1>1, <1>2, <1>3 DEF ensureWordCount, Goto, AfterEnsure, BitmapTypeOK, OthersKeep, memory,
     Frame
<1>5. /\ g.op = f.op /\ g.slot = f.slot /\ g.target = f.target /\ g.present = f.present
      /\ g.due = f.due
      /\ g.current = wordCount
      /\ g.index = FirstPage(wordCount)
      /\ pc'[t] = IF f.target <= wordCount THEN AfterEnsure(t) ELSE "page"
  BY <1>1 DEF ensureWordCount, Goto, BitmapTypeOK, Frame
<1> HIDE DEF f, g
<1>6. Grows /\ PublishedWords'
  BY <1>2, WordsStay DEF memory
<1>7. CASE f.target <= wordCount
  <2>1. pc'[t] = IF f.op = "set" THEN "touch" ELSE "return"
    BY <1>5, <1>7 DEF AfterEnsure, f
  <2>2. f.op = "set" => WordOf(f.slot) < wordCount'
    <3>1. CASE f.op = "set"
      BY <1>2, <1>7, <3>1, WordOfSlot DEF memory
    <3>2. QED
      BY <3>1
  <2>3. ThreadFits(t)'
    BY <1>2, <1>5, <2>1, <2>2 DEF ThreadFits, CallFits, GrowthFits, WordsReach, DueAhead,
       Sweeping, Growing, Sweeps, f, g
  <2>4. QED
    BY <1>4, <1>6, <2>3, StepFits
<1>8. CASE wordCount < f.target
  <2>1. pc'[t] = "page"
    BY <1>2, <1>5, <1>8
  <2>2. /\ FirstPage(wordCount) \in 0 .. LastPage(f.target)
        /\ LastPage(f.target) \in Nat
        /\ wordCount > 0 => FirstPage(wordCount) = LastPage(wordCount)
        /\ wordCount = 0 => FirstPage(wordCount) = 0
    BY <1>2, <1>8, FirstAndLast
  <2>3. 0 .. FirstPage(wordCount) - 1 \subseteq pages
    <3>1. CASE wordCount = 0
      BY <2>2, <3>1
    <3>2. CASE wordCount > 0
      <4>1. 0 .. LastPage(wordCount) \subseteq pages
        BY <1>1, <3>2 DEF PublishedWords
      <4>2. 0 .. LastPage(wordCount) - 1 \subseteq 0 .. LastPage(wordCount)
        BY <2>2, <3>2
      <4>3. QED
        BY <2>2, <3>2, <4>1, <4>2
    <3>3. QED
      BY <1>2, <3>1, <3>2
  <2>4. GrowthFits(t)'
    BY <1>2, <1>5, <1>8, <2>1, <2>2, <2>3 DEF GrowthFits, LastPage, memory, Growing, f, g
  <2>5. ThreadFits(t)'
    BY <1>2, <1>5, <2>1, <2>4 DEF ThreadFits, CallFits, WordsReach, DueAhead, Sweeping, Growing,
       Sweeps, f, g
  <2>6. QED
    BY <1>4, <1>6, <2>5, StepFits
<1>9. QED
  BY <1>2, <1>7, <1>8

(* The page at hand exists, whoever made it: on to the next, or to publish. *)
LEMMA NextPageFits ==
  ASSUME BitmapInv, NEW t \in Threads, pc[t] \in {"page", "install"},
         NextPage(t), pages' = pages \cup {frame[t].index},
         UNCHANGED <<bits, wordCount, setBitCount>>
  PROVE  BitmapInv' /\ OthersKeep(t)
<1> DEFINE f == frame[t]
           g == frame'[t]
<1>1. BitmapTypeOK /\ PublishedWords /\ ThreadFits(t) /\ f \in Frame
  BY DEF BitmapInv, BitmapTypeOK
<1>2. /\ f.op \in {"set", "reserve"} /\ (f.op = "set" => f.slot \in Slots) /\ f.present = FALSE
      /\ f.op = "set" => WordOf(f.slot) < f.target
      /\ f.due = {}
      /\ f.current \in 0 .. MaxWords /\ f.target \in 0 .. MaxWords /\ f.current < f.target
      /\ f.index \in 0 .. MaxWords /\ f.index <= LastPage(f.target)
      /\ 0 .. f.index - 1 \subseteq pages
      /\ MaxWords \in Nat
  BY <1>1, BitmapAssumptions DEF ThreadFits, CallFits, GrowthFits, DueAhead, Growing, Sweeps, Frame
<1>3. LastPage(f.target) \in 0 .. BitWidth(MaxWords) /\ LastPage(f.target) \in 0 .. MaxWords
  BY <1>2, FirstAndLast
<1>4. 0 .. f.index \subseteq pages' /\ pages' \subseteq 0 .. BitWidth(MaxWords)
  <2>1. BitWidth(MaxWords) \in Nat
    BY <1>2, PageOfWord
  <2>2. f.index \in 0 .. BitWidth(MaxWords)
    BY <1>2, <1>3, <2>1
  <2>3. pages \subseteq 0 .. BitWidth(MaxWords)
    BY <1>1 DEF BitmapTypeOK
  <2>4. \A p \in 0 .. f.index : p \in 0 .. f.index - 1 \/ p = f.index
    BY <1>2
  <2>5. QED
    BY <1>2, <2>2, <2>3, <2>4
<1>5. Grows /\ PublishedWords'
  BY WordsStay
<1>6. CASE f.index < LastPage(f.target)
  <2>1. frame' = [frame EXCEPT ![t].index = @ + 1] /\ pc' = [pc EXCEPT ![t] = "page"]
    BY <1>6 DEF NextPage, Goto
  <2>2. f.index + 1 \in 0 .. MaxWords /\ f.index + 1 <= LastPage(f.target)
        /\ (f.index + 1) - 1 = f.index
    BY <1>2, <1>3, <1>6
  <2>3. BitmapTypeOK' /\ OthersKeep(t)
    BY <1>1, <1>4, <2>1, <2>2 DEF BitmapTypeOK, OthersKeep, Frame
  <2>4. /\ g.op = f.op /\ g.slot = f.slot /\ g.target = f.target /\ g.present = f.present
        /\ g.due = f.due /\ g.current = f.current
        /\ g.index = f.index + 1
        /\ pc'[t] = "page"
    BY <1>1, <2>1 DEF BitmapTypeOK, Frame
  <2> HIDE DEF f, g
  <2>5. GrowthFits(t)'
    BY <1>2, <1>4, <2>2, <2>4 DEF GrowthFits, LastPage, Growing, f, g
  <2>6. ThreadFits(t)'
    BY <1>2, <2>4, <2>5 DEF ThreadFits, CallFits, WordsReach, DueAhead, Sweeping, Growing,
       Sweeps, f, g
  <2>7. QED
    BY <1>5, <2>3, <2>6, StepFits
<1>7. CASE ~(f.index < LastPage(f.target))
  <2>1. frame' = frame /\ pc' = [pc EXCEPT ![t] = "publish"] /\ f.index = LastPage(f.target)
    BY <1>2, <1>3, <1>7 DEF NextPage, Goto
  <2>2. BitmapTypeOK' /\ OthersKeep(t)
    BY <1>1, <1>4, <2>1 DEF BitmapTypeOK, OthersKeep
  <2>3. g = f /\ pc'[t] = "publish"
    BY <1>1, <2>1 DEF BitmapTypeOK
  <2> HIDE DEF f, g
  <2>4. GrowthFits(t)'
    BY <1>2, <1>4, <2>1, <2>3 DEF GrowthFits, LastPage, Growing, f, g
  <2>5. ThreadFits(t)'
    BY <1>2, <2>3, <2>4 DEF ThreadFits, CallFits, WordsReach, DueAhead, Sweeping, Growing,
       Sweeps, f, g
  <2>6. QED
    BY <1>5, <2>2, <2>5, StepFits
<1>8. QED
  BY <1>6, <1>7

LEMMA pagesFit ==
  ASSUME BitmapInv, NEW t \in Threads
  PROVE  /\ pageExists(t) => BitmapInv' /\ OthersKeep(t)
         /\ installPage(t) => BitmapInv' /\ OthersKeep(t)
         /\ pageMissing(t) => BitmapInv' /\ OthersKeep(t)
<1>1. ASSUME pageExists(t) PROVE BitmapInv' /\ OthersKeep(t)
  <2>1. pages' = pages \cup {frame[t].index}
    BY <1>1 DEF pageExists, memory
  <2>2. QED
    BY <1>1, <2>1, NextPageFits DEF pageExists, memory
<1>2. ASSUME installPage(t) PROVE BitmapInv' /\ OthersKeep(t)
  BY <1>2, NextPageFits DEF installPage
<1>3. ASSUME pageMissing(t) PROVE BitmapInv' /\ OthersKeep(t)
  <2>1. BitmapTypeOK /\ ThreadFits(t)
    BY DEF BitmapInv
  <2>2. /\ BitmapTypeOK' /\ OthersKeep(t) /\ pc[t] = "page" /\ pc'[t] = "install"
        /\ UNCHANGED <<memory, frame>>
    BY <1>3, <2>1 DEF pageMissing, Goto, BitmapTypeOK, OthersKeep, memory
  <2>3. Grows /\ PublishedWords'
    BY <2>2, WordsStay DEF memory
  <2>4. ThreadFits(t)'
    BY <2>1, <2>2 DEF ThreadFits, CallFits, GrowthFits, WordsReach, DueAhead, Sweeping, Growing,
       memory, LastPage
  <2>5. QED
    BY <2>2, <2>3, <2>4, StepFits
<1>4. QED
  BY <1>1, <1>2, <1>3

LEMMA publishFits ==
  ASSUME BitmapInv, NEW t \in Threads, publish(t)
  PROVE  BitmapInv' /\ OthersKeep(t)
<1> DEFINE f == frame[t]
<1>1. BitmapTypeOK /\ PublishedWords /\ ThreadFits(t) /\ f \in Frame
  BY DEF BitmapInv, BitmapTypeOK
<1>2. /\ pc[t] = "publish" /\ wordCount = f.current /\ wordCount' = f.target
      /\ UNCHANGED <<pages, bits, setBitCount, frame>>
      /\ pc' = [pc EXCEPT ![t] = AfterEnsure(t)]
  BY DEF publish, Goto
<1>3. /\ f.op \in {"set", "reserve"} /\ (f.op = "set" => f.slot \in Slots) /\ f.present = FALSE
      /\ f.op = "set" => WordOf(f.slot) < f.target
      /\ f.due = {}
      /\ f.current \in 0 .. MaxWords /\ f.target \in 0 .. MaxWords /\ f.current < f.target
      /\ 0 .. LastPage(f.target) \subseteq pages
      /\ MaxWords \in Nat /\ wordCount \in 0 .. MaxWords
  BY <1>1, <1>2, BitmapAssumptions DEF ThreadFits, CallFits, GrowthFits, DueAhead, Growing, Sweeps,
     Frame, BitmapTypeOK
<1>4. pc'[t] = (IF f.op = "set" THEN "touch" ELSE "return") /\ frame'[t] = f
  BY <1>1, <1>2 DEF AfterEnsure, BitmapTypeOK
<1>5. BitmapTypeOK' /\ OthersKeep(t)
  BY <1>1, <1>2, <1>3 DEF AfterEnsure, BitmapTypeOK, OthersKeep
<1>6. Grows
  BY <1>2, <1>3 DEF Grows
<1>7. PublishedWords'
  <2>1. LastPage(wordCount)' = LastPage(f.target)
    BY <1>2 DEF LastPage
  <2>2. ASSUME NEW s \in bits PROVE WordOf(s) < wordCount'
    BY <1>1, <1>2, <1>3, WordOfSlot DEF PublishedWords, BitmapTypeOK
  <2>3. QED
    BY <1>2, <1>3, <2>1, <2>2 DEF PublishedWords
<1> HIDE DEF f
<1>8. ThreadFits(t)'
  BY <1>2, <1>3, <1>4 DEF ThreadFits, CallFits, GrowthFits, WordsReach, DueAhead, Sweeping,
     Growing, Sweeps, f
<1>9. QED
  BY <1>5, <1>6, <1>7, <1>8, StepFits

LEMMA publishFailsFits ==
  ASSUME BitmapInv, NEW t \in Threads, publishFails(t)
  PROVE  BitmapInv' /\ OthersKeep(t)
<1> DEFINE f == frame[t]
           g == frame'[t]
<1>1. BitmapTypeOK /\ PublishedWords /\ ThreadFits(t) /\ f \in Frame
  BY DEF BitmapInv, BitmapTypeOK
<1>2. /\ pc[t] = "publish" /\ UNCHANGED memory
      /\ frame' = [frame EXCEPT ![t].current = wordCount]
      /\ pc' = [pc EXCEPT ![t] = IF wordCount < f.target THEN "publish" ELSE AfterEnsure(t)]
  BY DEF publishFails, Goto
<1>3. /\ f.op \in {"set", "reserve"} /\ (f.op = "set" => f.slot \in Slots) /\ f.present = FALSE
      /\ f.op = "set" => WordOf(f.slot) < f.target
      /\ f.due = {}
      /\ f.target \in 0 .. MaxWords
      /\ 0 .. LastPage(f.target) \subseteq pages
      /\ MaxWords \in Nat /\ wordCount \in 0 .. MaxWords
  BY <1>1, <1>2, BitmapAssumptions DEF ThreadFits, CallFits, GrowthFits, DueAhead, Growing, Sweeps,
     Frame, BitmapTypeOK
<1>4. /\ g.op = f.op /\ g.slot = f.slot /\ g.target = f.target /\ g.present = f.present
      /\ g.due = f.due /\ g.current = wordCount
      /\ pc'[t] = IF wordCount < f.target THEN "publish"
                  ELSE IF f.op = "set" THEN "touch" ELSE "return"
  BY <1>1, <1>2 DEF AfterEnsure, BitmapTypeOK, Frame
<1>5. BitmapTypeOK' /\ OthersKeep(t)
  BY <1>1, <1>2, <1>3 DEF AfterEnsure, BitmapTypeOK, OthersKeep, Frame, memory
<1>6. Grows /\ PublishedWords'
  BY <1>2, WordsStay DEF memory
<1> HIDE DEF f, g
<1>7. f.op = "set" /\ ~(wordCount < f.target) => WordOf(f.slot) < wordCount
  <2>1. CASE f.op = "set"
    BY <1>3, <2>1, WordOfSlot
  <2>2. QED
    BY <2>1
<1>8. ThreadFits(t)'
  BY <1>2, <1>3, <1>4, <1>7 DEF ThreadFits, CallFits, GrowthFits, WordsReach, DueAhead, Sweeping,
     Growing, Sweeps, LastPage, memory, f, g
<1>9. QED
  BY <1>5, <1>6, <1>8, StepFits

-----------------------------------------------------------------------------
(* The invariant through set, clear and test. *)

(* Steps of a call on a slot that only move on or note an answer. *)
LEMMA startSetFits ==
  ASSUME BitmapInv, NEW t \in Threads, startSet(t)
  PROVE  BitmapInv' /\ OthersKeep(t)
<1> DEFINE f == frame[t]
           g == frame'[t]
           word == WordOf(f.slot)
<1>1. BitmapTypeOK /\ ThreadFits(t) /\ f \in Frame
  BY DEF BitmapInv, BitmapTypeOK
<1>2. /\ pc[t] = "start" /\ f.op = "set" /\ UNCHANGED memory
      /\ f.slot \in Slots /\ f.present = FALSE /\ f.due = {}
      /\ wordCount \in 0 .. MaxWords
  BY <1>1 DEF startSet, ThreadFits, CallFits, DueAhead, Sweeps, BitmapTypeOK
<1>3. word \in 0 .. MaxWords - 1
  BY <1>2, WordOfSlot
<1>4. GrownWordCount(word) \in word + 1 .. MaxWords /\ MaxWords \in Nat
  BY <1>2, <1>3, GrownIsEnough, BitmapAssumptions
<1>5. Grows /\ PublishedWords'
  BY <1>2, WordsStay DEF memory
<1>6. CASE word < wordCount
  <2>1. pc' = [pc EXCEPT ![t] = "touch"] /\ frame' = frame
    BY <1>6 DEF startSet, Goto
  <2>2. BitmapTypeOK' /\ OthersKeep(t) /\ pc'[t] = "touch" /\ g = f
    BY <1>1, <1>2, <2>1 DEF BitmapTypeOK, OthersKeep, memory
  <2>3. WordOf(f.slot) < wordCount'
    BY <1>2, <1>6 DEF memory
  <2> HIDE DEF f, g, word
  <2>4. ThreadFits(t)'
    BY <1>2, <2>2, <2>3 DEF ThreadFits, CallFits, GrowthFits, WordsReach, DueAhead, Sweeping,
       Growing, Sweeps, f, g
  <2>5. QED
    BY <1>5, <2>2, <2>4, StepFits
<1>7. CASE ~(word < wordCount)
  <2>1. /\ pc' = [pc EXCEPT ![t] = "ensure"]
        /\ frame' = [frame EXCEPT ![t].target = GrownWordCount(word)]
    BY <1>7 DEF startSet, Goto
  <2>2. GrownWordCount(word) \in 0 .. MaxWords /\ word < GrownWordCount(word)
    BY <1>3, <1>4
  <2> DEFINE n == GrownWordCount(word)
  <2> HIDE DEF n
  <2>3. BitmapTypeOK' /\ OthersKeep(t)
    BY <1>1, <1>2, <2>1, <2>2 DEF BitmapTypeOK, OthersKeep, Frame, memory, n
  <2>4. /\ g.op = f.op /\ g.slot = f.slot /\ g.present = f.present /\ g.due = f.due
        /\ g.target = GrownWordCount(word)
        /\ pc'[t] = "ensure"
    BY <1>1, <2>1 DEF BitmapTypeOK, Frame
  <2>5. WordOf(g.slot) < g.target
    BY <2>2, <2>4
  <2> HIDE DEF f, g, word
  <2>6. ThreadFits(t)'
    BY <1>2, <2>4, <2>5 DEF ThreadFits, CallFits, GrowthFits, WordsReach, DueAhead, Sweeping,
       Growing, Sweeps, f, g
  <2>7. QED
    BY <1>5, <2>3, <2>6, StepFits
<1>8. QED
  BY <1>6, <1>7

LEMMA startOtherFits ==
  ASSUME BitmapInv, NEW t \in Threads, startOther(t)
  PROVE  BitmapInv' /\ OthersKeep(t)
<1> DEFINE f == frame[t]
<1>1. BitmapTypeOK /\ ThreadFits(t) /\ f \in Frame
  BY DEF BitmapInv, BitmapTypeOK
<1>2. /\ pc[t] = "start" /\ f.op \in {"clear", "test"} /\ UNCHANGED memory /\ frame' = frame
      /\ f.slot \in Slots /\ f.present = FALSE /\ f.due = {}
      /\ pc' = [pc EXCEPT ![t] = IF WordOf(f.slot) < wordCount THEN "touch" ELSE "return"]
  BY <1>1 DEF startOther, Goto, ThreadFits, CallFits, DueAhead, Sweeps
<1>3. BitmapTypeOK' /\ OthersKeep(t)
  BY <1>1, <1>2 DEF BitmapTypeOK, OthersKeep, memory
<1>4. pc'[t] = (IF WordOf(f.slot) < wordCount THEN "touch" ELSE "return") /\ frame'[t] = f
  BY <1>1, <1>2 DEF BitmapTypeOK
<1>5. Grows /\ PublishedWords'
  BY <1>2, WordsStay DEF memory
<1> HIDE DEF f
<1>6. ThreadFits(t)'
  BY <1>2, <1>4 DEF ThreadFits, CallFits, GrowthFits, WordsReach, DueAhead, Sweeping, Growing,
     Sweeps, memory, f
<1>7. QED
  BY <1>3, <1>5, <1>6, StepFits

LEMMA setBitFits ==
  ASSUME BitmapInv, NEW t \in Threads, setBit(t)
  PROVE  BitmapInv' /\ OthersKeep(t)
<1> DEFINE f == frame[t]
           g == frame'[t]
<1>1. BitmapTypeOK /\ PublishedWords /\ ThreadFits(t) /\ f \in Frame
  BY DEF BitmapInv, BitmapTypeOK
<1>2. /\ pc[t] = "touch" /\ f.op = "set" /\ UNCHANGED <<pages, wordCount, setBitCount>>
      /\ bits' = bits \cup {f.slot}
      /\ frame' = [frame EXCEPT ![t].change = 1]
      /\ pc' = [pc EXCEPT ![t] = IF f.slot \in bits THEN "return" ELSE "count"]
  BY DEF setBit, Goto
<1>3. f.slot \in Slots /\ f.present = FALSE /\ f.due = {} /\ WordOf(f.slot) < wordCount
  BY <1>1, <1>2 DEF ThreadFits, CallFits, WordsReach, DueAhead, Sweeps
<1>4. BitmapTypeOK' /\ OthersKeep(t)
  BY <1>1, <1>2, <1>3 DEF BitmapTypeOK, OthersKeep, Frame
<1>5. /\ g.op = f.op /\ g.slot = f.slot /\ g.present = f.present /\ g.due = f.due
      /\ pc'[t] = IF f.slot \in bits THEN "return" ELSE "count"
  BY <1>1, <1>2 DEF BitmapTypeOK, Frame
<1>6. wordCount \in Nat
  BY <1>1, BitmapAssumptions DEF BitmapTypeOK
<1>7. Grows
  BY <1>2, <1>6 DEF Grows
<1>8. PublishedWords'
  BY <1>1, <1>2, <1>3 DEF PublishedWords, LastPage
<1> HIDE DEF f, g
<1>9. ThreadFits(t)'
  BY <1>2, <1>3, <1>5 DEF ThreadFits, CallFits, GrowthFits, WordsReach, DueAhead, Sweeping,
     Growing, Sweeps, f, g
<1>10. QED
  BY <1>4, <1>7, <1>8, <1>9, StepFits

(* frame once slots are cleared. *)
LEMMA ForgottenFields ==
  ASSUME frame \in [Threads -> Frame], NEW cleared \in SUBSET Slots
  PROVE  /\ Forgotten(cleared) \in [Threads -> Frame]
         /\ \A u \in Threads :
              /\ Forgotten(cleared)[u].op = frame[u].op
              /\ Forgotten(cleared)[u].slot = frame[u].slot
              /\ Forgotten(cleared)[u].current = frame[u].current
              /\ Forgotten(cleared)[u].target = frame[u].target
              /\ Forgotten(cleared)[u].index = frame[u].index
              /\ Forgotten(cleared)[u].change = frame[u].change
              /\ Forgotten(cleared)[u].present = frame[u].present
              /\ Forgotten(cleared)[u].due = frame[u].due \ cleared
              /\ frame[u].due \cap cleared = {} => Forgotten(cleared)[u] = frame[u]
<1>1. ASSUME NEW u \in Threads
      PROVE  /\ Forgotten(cleared)[u] = [frame[u] EXCEPT !.due = @ \ cleared]
             /\ frame[u] \in Frame
  BY DEF Forgotten
<1>2. ASSUME NEW u \in Threads, frame[u].due \cap cleared = {}
      PROVE  Forgotten(cleared)[u] = frame[u]
  <2>1. frame[u].due \ cleared = frame[u].due
    BY <1>2
  <2>2. QED
    BY <1>1, <2>1 DEF Frame
<1>3. \A u \in Threads : [frame[u] EXCEPT !.due = @ \ cleared] \in Frame
  BY <1>1 DEF Frame
<1>4. Forgotten(cleared) \in [Threads -> Frame]
  BY <1>3 DEF Forgotten
<1>5. QED
  BY <1>1, <1>2, <1>4 DEF Frame

LEMMA clearBitFits ==
  ASSUME BitmapInv, NEW t \in Threads, clearBit(t)
  PROVE  BitmapInv' /\ OthersKeep(t)
<1> DEFINE f == frame[t]
           g == frame'[t]
           h == Forgotten({f.slot})
<1>1. BitmapTypeOK /\ PublishedWords /\ ThreadFits(t) /\ f \in Frame
  BY DEF BitmapInv, BitmapTypeOK
<1>2. /\ pc[t] = "touch" /\ f.op = "clear" /\ UNCHANGED <<pages, wordCount, setBitCount>>
      /\ bits' = bits \ {f.slot}
      /\ frame' = [h EXCEPT ![t].change = -1]
      /\ pc' = [pc EXCEPT ![t] = IF WasSet(f.slot) THEN "count" ELSE "return"]
  BY DEF clearBit, Goto
<1>3. f.slot \in Slots /\ f.present = FALSE /\ f.due = {}
  BY <1>1, <1>2 DEF ThreadFits, CallFits, DueAhead, Sweeps
<1>4. /\ h \in [Threads -> Frame]
      /\ \A u \in Threads :
           /\ h[u].op = frame[u].op /\ h[u].slot = frame[u].slot
           /\ h[u].current = frame[u].current /\ h[u].target = frame[u].target
           /\ h[u].index = frame[u].index /\ h[u].change = frame[u].change
           /\ h[u].present = frame[u].present
           /\ h[u].due = frame[u].due \ {f.slot}
           /\ frame[u].due \cap {f.slot} = {} => h[u] = frame[u]
  BY <1>1, <1>3, ForgottenFields DEF BitmapTypeOK
<1> HIDE DEF h
<1>5. BitmapTypeOK'
  BY <1>1, <1>2, <1>4 DEF BitmapTypeOK, Frame
<1>6. /\ g.op = f.op /\ g.slot = f.slot /\ g.present = f.present
      /\ g.due = {}
      /\ pc'[t] = IF WasSet(f.slot) THEN "count" ELSE "return"
  BY <1>1, <1>2, <1>3, <1>4 DEF BitmapTypeOK, Frame
<1>7. OthersKeep(t)
  <2>1. ASSUME NEW u \in Threads \ {t}
        PROVE  frame'[u] = h[u] /\ pc'[u] = pc[u] /\ frame[u].due \subseteq bits
    BY <1>1, <1>2, <1>4 DEF BitmapInv, BitmapTypeOK, ThreadFits, DueAhead
  <2>2. \A u \in Threads \ {t} : frame[u].due \ {f.slot} = frame[u].due \ (bits \ bits')
    BY <1>2, <2>1
  <2>3. frame[t].due \cap {f.slot} = {} /\ NoFrame.due = {}
    BY <1>3, NoFrameFields
  <2> HIDE DEF f
  <2>4. \A u \in Threads \ {t} : frame[u] = NoFrame => h[u] = frame[u]
    BY <1>4, <2>3
  <2>5. QED
    BY <1>4, <2>1, <2>2, <2>4 DEF OthersKeep
<1>8. Grows /\ PublishedWords'
  BY <1>2, WordsStay
<1> HIDE DEF f, g
<1>9. ThreadFits(t)'
  BY <1>2, <1>3, <1>6 DEF ThreadFits, CallFits, GrowthFits, WordsReach, DueAhead, Sweeping,
     Growing, Sweeps, f, g
<1>10. QED
  BY <1>5, <1>7, <1>8, <1>9, StepFits

LEMMA testBitFits ==
  ASSUME BitmapInv, NEW t \in Threads, testBit(t)
  PROVE  BitmapInv' /\ OthersKeep(t)
<1> DEFINE f == frame[t]
           g == frame'[t]
           b == f.slot \in bits
<1>1. BitmapTypeOK /\ ThreadFits(t) /\ f \in Frame
  BY DEF BitmapInv, BitmapTypeOK
<1>2. /\ pc[t] = "touch" /\ f.op = "test" /\ UNCHANGED memory
      /\ frame' = [frame EXCEPT ![t].present = b]
      /\ pc' = [pc EXCEPT ![t] = "return"]
  BY DEF testBit, Goto
<1>3. f.slot \in Slots /\ f.due = {} /\ b \in BOOLEAN
  BY <1>1, <1>2 DEF ThreadFits, CallFits, DueAhead, Sweeps
<1> HIDE DEF b
<1>4. BitmapTypeOK' /\ OthersKeep(t)
  BY <1>1, <1>2, <1>3 DEF BitmapTypeOK, OthersKeep, Frame, memory
<1>5. g.op = f.op /\ g.slot = f.slot /\ g.due = f.due /\ pc'[t] = "return"
  BY <1>1, <1>2 DEF BitmapTypeOK, Frame
<1>6. Grows /\ PublishedWords'
  BY <1>2, WordsStay DEF memory
<1> HIDE DEF f, g
<1>7. ThreadFits(t)'
  BY <1>2, <1>3, <1>5 DEF ThreadFits, CallFits, GrowthFits, WordsReach, DueAhead, Sweeping,
     Growing, Sweeps, f, g
<1>8. QED
  BY <1>4, <1>6, <1>7, StepFits

-----------------------------------------------------------------------------
(* The invariant through a sweep. *)

LEMMA startSweepFits ==
  ASSUME BitmapInv, NEW t \in Threads, startSweep(t)
  PROVE  BitmapInv' /\ OthersKeep(t)
<1> DEFINE f == frame[t]
           g == frame'[t]
<1>1. BitmapTypeOK /\ PublishedWords /\ ThreadFits(t) /\ f \in Frame
  BY DEF BitmapInv, BitmapTypeOK
<1>2. /\ pc[t] = "start" /\ f.op \in Sweeps /\ UNCHANGED memory
      /\ frame' = [frame EXCEPT ![t].current = wordCount]
      /\ pc' = [pc EXCEPT ![t] = IF wordCount = 0 THEN "return" ELSE "sweep"]
  BY DEF startSweep, Goto
<1>3. /\ f.present = FALSE /\ f.due \subseteq bits /\ bits \subseteq Slots
      /\ wordCount \in 0 .. MaxWords /\ MaxWords \in Nat
  BY <1>1, <1>2, BitmapAssumptions DEF ThreadFits, CallFits, DueAhead, BitmapTypeOK
<1>4. BitmapTypeOK' /\ OthersKeep(t)
  BY <1>1, <1>2, <1>3 DEF BitmapTypeOK, OthersKeep, Frame, memory
<1>5. /\ g.op = f.op /\ g.slot = f.slot /\ g.due = f.due /\ g.present = f.present
      /\ g.current = wordCount /\ g.index = f.index
      /\ pc'[t] = IF wordCount = 0 THEN "return" ELSE "sweep"
  BY <1>1, <1>2 DEF BitmapTypeOK, Frame
<1>6. Grows /\ PublishedWords'
  BY <1>2, WordsStay DEF memory
<1>7. \A s \in f.due : WordOf(s) \in Nat /\ WordOf(s) < wordCount
  BY <1>1, <1>3, WordOfSlot DEF PublishedWords
<1>8. f.index = 0
  BY <1>1, <1>2 DEF ThreadFits, CallFits
<1> HIDE DEF f, g
<1>9. CASE wordCount = 0
  <2>1. f.due = {}
    BY <1>7, <1>9
  <2>2. ThreadFits(t)'
    BY <1>2, <1>3, <1>5, <1>9, <2>1 DEF ThreadFits, CallFits, GrowthFits, WordsReach, DueAhead,
       Sweeping, Growing, Sweeps, memory, f, g
  <2>3. QED
    BY <1>4, <1>6, <2>2, StepFits
<1>10. CASE wordCount # 0
  <2>1. /\ pc'[t] = "sweep" /\ g.index = 0 /\ g.current = wordCount
        /\ 0 < wordCount /\ wordCount' = wordCount /\ wordCount <= wordCount
        /\ \A s \in f.due : WordOf(s) < wordCount /\ 0 <= WordOf(s)
    BY <1>2, <1>3, <1>5, <1>7, <1>8, <1>10 DEF memory
  <2>2. ThreadFits(t)'
    BY <1>2, <1>3, <1>5, <2>1 DEF ThreadFits, CallFits, GrowthFits, WordsReach, DueAhead,
       Sweeping, Growing, Sweeps, memory, f, g
  <2>3. QED
    BY <1>4, <1>6, <2>2, StepFits
<1>11. QED
  BY <1>9, <1>10

LEMMA SlotsFinite == IsFiniteSet(Slots)
<1>1. 0 \in Int /\ MaxWords * WordBits - 1 \in Int
  BY BitmapAssumptions
<1>2. IsFiniteSet(0 .. MaxWords * WordBits - 1)
  BY <1>1, FS_Interval
<1>3. QED
  BY <1>2, FS_Subset, BitmapAssumptions

(* The next word, or the end: what is due is further on. *)
LEMMA NextWordFits ==
  ASSUME BitmapInv, NEW t \in Threads, Sweeping(t), frame[t].op \in Sweeps,
         BitmapTypeOK', OthersKeep(t), PublishedWords',
         UNCHANGED <<pages, wordCount>>, bits' \subseteq bits,
         frame'[t].op = frame[t].op, frame'[t].slot = frame[t].slot,
         frame'[t].current = frame[t].current, frame'[t].present = frame[t].present,
         frame'[t].index = frame[t].index + 1,
         frame'[t].due \subseteq frame[t].due \cap bits',
         \A s \in frame'[t].due : WordOf(s) # frame[t].index,
         pc'[t] = AfterWord(t)
  PROVE  BitmapInv' /\ OthersKeep(t)
<1> DEFINE f == frame[t]
           g == frame'[t]
<1>1. BitmapTypeOK /\ PublishedWords /\ ThreadFits(t) /\ f \in Frame
  BY DEF BitmapInv, BitmapTypeOK
<1>2. /\ f.present = FALSE /\ f.index < f.current /\ f.current <= wordCount
      /\ f.index \in Nat /\ f.current \in Nat /\ wordCount \in Nat
      /\ \A s \in f.due : WordOf(s) < f.current /\ f.index <= WordOf(s) /\ s \in Slots
  BY <1>1, BitmapAssumptions DEF ThreadFits, CallFits, WordsReach, DueAhead, Frame, BitmapTypeOK,
     Sweeping
<1>3. Grows
  BY <1>2 DEF Grows
<1>4. \A s \in g.due : WordOf(s) \in Nat /\ WordOf(s) < f.current /\ f.index + 1 <= WordOf(s)
  <2>1. ASSUME NEW s \in g.due
        PROVE  WordOf(s) \in Nat /\ WordOf(s) < f.current /\ f.index + 1 <= WordOf(s)
    <3>1. /\ s \in Slots /\ WordOf(s) < f.current /\ f.index <= WordOf(s)
          /\ WordOf(s) # f.index
      BY <1>2
    <3>2. WordOf(s) \in Nat
      BY <3>1, WordOfSlot
    <3>3. QED
      BY <1>2, <3>1, <3>2
  <2>2. QED
    BY <2>1
<1>5. pc'[t] = IF f.index + 1 < f.current THEN "sweep" ELSE "return"
  BY DEF AfterWord
<1>6. ~(f.index + 1 < f.current) => g.due = {}
  BY <1>2, <1>4
<1> HIDE DEF f, g
<1>7. ThreadFits(t)'
  BY <1>2, <1>4, <1>5, <1>6 DEF ThreadFits, CallFits, GrowthFits, WordsReach, DueAhead,
     Sweeping, Growing, Sweeps, f, g
<1>8. QED
  BY <1>3, <1>7, StepFits

LEMMA visitWordFits ==
  ASSUME BitmapInv, NEW t \in Threads, visitWord(t)
  PROVE  BitmapInv' /\ OthersKeep(t)
<1> DEFINE f == frame[t]
           g == frame'[t]
           left == f.due \ (bits \cap SlotsOf(f.index))
<1>1. BitmapTypeOK /\ ThreadFits(t) /\ f \in Frame
  BY DEF BitmapInv, BitmapTypeOK
<1>2. /\ pc[t] = "sweep" /\ f.op = "forEachSetBit" /\ UNCHANGED memory
      /\ frame' = [frame EXCEPT ![t].index = @ + 1, ![t].due = left]
      /\ pc' = [pc EXCEPT ![t] = AfterWord(t)]
  BY DEF visitWord, Goto
<1>3. /\ Sweeping(t) /\ f.due \subseteq bits /\ f.due \subseteq Slots
      /\ f.index \in Nat /\ f.current \in 0 .. MaxWords /\ f.index < f.current
      /\ MaxWords \in Nat
  BY <1>1, <1>2, BitmapAssumptions DEF Sweeping, ThreadFits, DueAhead, WordsReach, Frame
<1>4. left \subseteq f.due /\ \A s \in left : WordOf(s) # f.index
  BY <1>3 DEF SlotsOf
<1> HIDE DEF left
<1>5. f.index + 1 \in 0 .. MaxWords /\ AfterWord(t) \in {"sweep", "return"}
  BY <1>3 DEF AfterWord
<1>6. BitmapTypeOK'
  BY <1>1, <1>2, <1>3, <1>4, <1>5 DEF BitmapTypeOK, Frame, memory
<1>7. OthersKeep(t)
  BY <1>1, <1>2 DEF BitmapTypeOK, OthersKeep, memory
<1>8. /\ g.op = f.op /\ g.slot = f.slot /\ g.present = f.present /\ g.current = f.current
      /\ g.index = f.index + 1 /\ g.due = left
      /\ pc'[t] = AfterWord(t)
  BY <1>1, <1>2 DEF BitmapTypeOK, Frame
<1>9. PublishedWords'
  BY <1>2, WordsStay DEF memory
<1>10. f.op \in Sweeps /\ g.due \subseteq f.due \cap bits' /\ bits' \subseteq bits
       /\ UNCHANGED <<pages, wordCount>>
  BY <1>2, <1>3, <1>4, <1>8 DEF Sweeps, memory
<1> HIDE DEF f, g
<1>11. QED
  BY <1>3, <1>4, <1>6, <1>7, <1>8, <1>9, <1>10, NextWordFits DEF f, g

LEMMA clearWordFits ==
  ASSUME BitmapInv, NEW t \in Threads, clearWord(t)
  PROVE  BitmapInv' /\ OthersKeep(t)
<1> DEFINE f == frame[t]
           g == frame'[t]
           previous == bits \cap SlotsOf(f.index)
           h == Forgotten(previous)
           n == Cardinality(previous)
<1>1. BitmapTypeOK /\ PublishedWords /\ ThreadFits(t) /\ f \in Frame
  BY DEF BitmapInv, BitmapTypeOK
<1>2. /\ pc[t] = "sweep" /\ f.op = "clearAll" /\ UNCHANGED <<pages, wordCount, setBitCount>>
      /\ bits' = bits \ previous
      /\ frame' = [h EXCEPT ![t].change = -n]
      /\ pc' = [pc EXCEPT ![t] = "count"]
  BY DEF clearWord, Goto
<1>3. /\ Sweeping(t) /\ f.present = FALSE /\ f.due \subseteq bits
      /\ f.index < f.current /\ f.current <= wordCount
      /\ \A s \in f.due : WordOf(s) < f.current /\ f.index <= WordOf(s)
      /\ previous \subseteq bits
      /\ bits \subseteq Slots
      /\ \A s \in bits : s \in previous <=> WordOf(s) = f.index
  BY <1>1, <1>2 DEF Sweeping, ThreadFits, CallFits, DueAhead, WordsReach, SlotsOf, BitmapTypeOK
<1>4. n \in Nat
  <2>1. IsFiniteSet(Slots)
    BY SlotsFinite
  <2>2. IsFiniteSet(previous)
    BY <1>3, <2>1, FS_Subset
  <2>3. QED
    BY <2>2, FS_CardinalityType
<1> HIDE DEF n, previous
<1>5. /\ h \in [Threads -> Frame]
      /\ \A u \in Threads :
           /\ h[u].op = frame[u].op /\ h[u].slot = frame[u].slot
           /\ h[u].current = frame[u].current /\ h[u].target = frame[u].target
           /\ h[u].index = frame[u].index /\ h[u].change = frame[u].change
           /\ h[u].present = frame[u].present
           /\ h[u].due = frame[u].due \ previous
           /\ frame[u].due \cap previous = {} => h[u] = frame[u]
  BY <1>1, <1>3, ForgottenFields DEF BitmapTypeOK
<1> HIDE DEF h
<1>6. -n \in Int
  BY <1>4
<1>7. BitmapTypeOK'
  BY <1>1, <1>2, <1>3, <1>5, <1>6 DEF BitmapTypeOK, Frame
<1>8. /\ g.op = f.op /\ g.slot = f.slot /\ g.present = f.present
      /\ g.current = f.current /\ g.index = f.index
      /\ g.due = f.due \ previous
      /\ pc'[t] = "count"
  BY <1>1, <1>2, <1>5 DEF BitmapTypeOK, Frame
<1>9. OthersKeep(t)
  <2>1. \A u \in Threads \ {t} : frame'[u] = h[u] /\ pc'[u] = pc[u]
    BY <1>1, <1>2, <1>5 DEF BitmapTypeOK
  <2>2. bits \ bits' = previous
    BY <1>2, <1>3
  <2>3. NoFrame.due = {}
    BY NoFrameFields
  <2> HIDE DEF f
  <2>4. \A u \in Threads \ {t} : frame[u] = NoFrame => h[u] = frame[u]
    BY <1>5, <2>3
  <2>5. QED
    BY <1>5, <2>1, <2>2, <2>4 DEF OthersKeep
<1>10. Grows /\ PublishedWords'
  BY <1>2, WordsStay
<1>11. g.due \subseteq bits' /\ \A s \in g.due : f.index # WordOf(s) /\ s \in f.due
  BY <1>2, <1>3, <1>8
<1> HIDE DEF f, g
<1>12. ThreadFits(t)'
  BY <1>2, <1>3, <1>8, <1>11 DEF ThreadFits, CallFits, GrowthFits, WordsReach, DueAhead,
     Sweeping, Growing, Sweeps, f, g
<1>13. QED
  BY <1>7, <1>9, <1>10, <1>12, StepFits

LEMMA countFits ==
  ASSUME BitmapInv, NEW t \in Threads, count(t)
  PROVE  BitmapInv' /\ OthersKeep(t)
<1> DEFINE f == frame[t]
           g == frame'[t]
<1>1. BitmapTypeOK /\ PublishedWords /\ ThreadFits(t) /\ f \in Frame
  BY DEF BitmapInv, BitmapTypeOK
<1>2. /\ pc[t] = "count" /\ UNCHANGED <<pages, bits, wordCount>>
      /\ setBitCount' = setBitCount + f.change
      /\ setBitCount' \in Int
      /\ f.op \in {"set", "clear", "clearAll"}
  BY <1>1 DEF count, ThreadFits, CallFits, BitmapTypeOK, Frame
<1>3. Grows /\ PublishedWords'
  BY <1>2, WordsStay
<1>4. CASE f.op = "clearAll"
  <2>1. /\ frame' = [frame EXCEPT ![t].index = @ + 1, ![t].change = 0]
        /\ pc' = [pc EXCEPT ![t] = AfterWord(t)]
    BY <1>4 DEF count, Goto
  <2>2. /\ Sweeping(t) /\ f.due \subseteq bits
        /\ f.index \in Nat /\ f.current \in 0 .. MaxWords /\ f.index < f.current
        /\ MaxWords \in Nat
        /\ \A s \in f.due : f.index # WordOf(s)
    BY <1>1, <1>2, <1>4, BitmapAssumptions DEF Sweeping, ThreadFits, DueAhead, WordsReach, Frame
  <2>3. f.index + 1 \in 0 .. MaxWords /\ AfterWord(t) \in {"sweep", "return"}
    BY <2>2 DEF AfterWord
  <2>4. BitmapTypeOK' /\ OthersKeep(t)
    <3>1. frame' \in [Threads -> Frame]
      <4>1. [f EXCEPT !.index = @ + 1, !.change = 0] \in Frame
        <5> DEFINE a == [f EXCEPT !.index = @ + 1]
        <5>1. a \in Frame
          BY <1>1, <2>3 DEF Frame
        <5>2. [f EXCEPT !.index = @ + 1, !.change = 0] = [a EXCEPT !.change = 0]
          OBVIOUS
        <5> HIDE DEF a
        <5>3. [a EXCEPT !.change = 0] \in Frame
          BY <5>1 DEF Frame
        <5>4. QED
          BY <5>2, <5>3
      <4>2. frame' = [frame EXCEPT ![t] = [f EXCEPT !.index = @ + 1, !.change = 0]]
        BY <2>1
      <4>3. QED
        BY <1>1, <4>1, <4>2 DEF BitmapTypeOK
    <3>2. BitmapTypeOK'
      BY <1>1, <1>2, <2>1, <2>3, <3>1 DEF BitmapTypeOK
    <3>3. \A u \in Threads \ {t} :
            frame'[u] = frame[u] /\ pc'[u] = pc[u] /\ frame[u] \in Frame
      BY <1>1, <2>1 DEF BitmapTypeOK
    <3>4. OthersKeep(t)
      BY <1>2, <3>3 DEF OthersKeep
    <3>5. QED
      BY <3>2, <3>4
  <2>5. /\ g.op = f.op /\ g.slot = f.slot /\ g.present = f.present /\ g.current = f.current
        /\ g.index = f.index + 1 /\ g.due = f.due
        /\ pc'[t] = AfterWord(t)
    BY <1>1, <2>1 DEF BitmapTypeOK, Frame
  <2>6. f.op \in Sweeps /\ g.due \subseteq f.due \cap bits' /\ bits' \subseteq bits
        /\ \A s \in g.due : WordOf(s) # f.index
    BY <1>2, <1>4, <2>2, <2>5 DEF Sweeps
  <2> HIDE DEF f, g
  <2>7. QED
    BY <1>2, <1>3, <2>2, <2>4, <2>5, <2>6, NextWordFits DEF f, g
<1>5. CASE f.op # "clearAll"
  <2>1. frame' = frame /\ pc' = [pc EXCEPT ![t] = "return"]
    BY <1>5 DEF count, Goto
  <2>2. BitmapTypeOK' /\ OthersKeep(t) /\ g = f /\ pc'[t] = "return"
    BY <1>1, <1>2, <2>1 DEF BitmapTypeOK, OthersKeep
  <2>3. f.slot \in Slots /\ f.due = {} /\ f.op \in {"set", "clear"}
    BY <1>1, <1>2, <1>5 DEF ThreadFits, CallFits, DueAhead, Sweeps
  <2> HIDE DEF f, g
  <2>4. ThreadFits(t)'
    BY <2>2, <2>3 DEF ThreadFits, CallFits, GrowthFits, WordsReach, DueAhead, Sweeping, Growing,
       Sweeps, f, g
  <2>5. QED
    BY <1>3, <2>2, <2>4, StepFits
<1>6. QED
  BY <1>4, <1>5

-----------------------------------------------------------------------------
LEMMA NextInv == BitmapInv /\ [BitmapNext]_bitmapVars => BitmapInv'
<1> SUFFICES ASSUME BitmapInv, [BitmapNext]_bitmapVars PROVE BitmapInv'
  OBVIOUS
<1>1. ASSUME NEW t \in Threads,
             \/ \E op \in {"set", "clear", "test"}, s \in Slots : callOnSlot(t, op, s)
             \/ \E op \in Sweeps : callSweep(t, op)
             \/ \E n \in Reservations : reserveSlots(t, n)
      PROVE  BitmapInv'
  BY <1>1, callsFit
<1>2. ASSUME NEW t \in Threads,
             \/ ensureWordCount(t) \/ pageExists(t) \/ pageMissing(t) \/ installPage(t)
             \/ publish(t) \/ publishFails(t)
      PROVE  BitmapInv'
  BY <1>2, ensureWordCountFits, pagesFit, publishFits, publishFailsFits
<1>3. ASSUME NEW t \in Threads,
             startSet(t) \/ startOther(t) \/ setBit(t) \/ clearBit(t) \/ testBit(t)
      PROVE  BitmapInv'
  BY <1>3, startSetFits, startOtherFits, setBitFits, clearBitFits, testBitFits
<1>4. ASSUME NEW t \in Threads,
             startSweep(t) \/ visitWord(t) \/ clearWord(t) \/ count(t) \/ return(t)
      PROVE  BitmapInv'
  BY <1>4, startSweepFits, visitWordFits, clearWordFits, countFits, returnFits
<1>5. CASE UNCHANGED bitmapVars
  BY <1>5 DEF bitmapVars, BitmapInv, BitmapTypeOK, PublishedWords, ThreadFits, CallFits,
     GrowthFits, WordsReach, DueAhead, Sweeping, LastPage, PageOf
<1>6. QED
  BY <1>1, <1>2, <1>3, <1>4, <1>5 DEF BitmapNext

(* However threads grow, change and sweep the bitmap at once, its types hold, *)
(* published words have pages, and each thread's place in the code fits what  *)
(* it has seen to.                                                            *)
THEOREM BitmapInvariant == BitmapSpec => []BitmapInv
<1>1. BitmapInit => BitmapInv
  BY InitInv
<1>2. BitmapInv /\ [BitmapNext]_bitmapVars => BitmapInv'
  BY NextInv
<1>3. QED
  BY <1>1, <1>2, PTL DEF BitmapSpec

(* The state of the bitmap and the locals of its callers have their types. *)
THEOREM BitmapTypes == BitmapSpec => []BitmapTypeOK
<1>1. BitmapInv => BitmapTypeOK
  BY DEF BitmapInv
<1>2. QED
  BY <1>1, BitmapInvariant, PTL

(* ensureWordCount publishes a word count only when the pages for it are     *)
(* there: nobody goes through a null page to a word.                          *)
THEOREM PublishedWordsHavePages == BitmapSpec => []PagesBackWords
<1>1. ASSUME BitmapInv PROVE PagesBackWords
  <2>1. BitmapTypeOK /\ PublishedWords /\ \A t \in Threads : ThreadFits(t)
    BY <1>1 DEF BitmapInv
  <2>2. wordCount \in 0 .. MaxWords /\ MaxWords \in Nat
    BY <2>1, BitmapAssumptions DEF BitmapTypeOK
  <2>3. ASSUME NEW word \in 0 .. wordCount - 1
        PROVE  PageOf(word) \in pages
    <3>1. word \in 0 .. MaxWords /\ wordCount - 1 \in 0 .. MaxWords /\ word <= wordCount - 1
          /\ wordCount > 0
      BY <2>2
    <3>2. PageOf(word) \in Nat /\ PageOf(wordCount - 1) \in Nat
          /\ PageOf(word) <= PageOf(wordCount - 1)
      BY <2>2, <3>1, PageOfWord, PagesGrow
    <3>3. PageOf(word) \in 0 .. LastPage(wordCount)
      BY <3>2 DEF LastPage
    <3>4. QED
      BY <2>1, <3>1, <3>3 DEF PublishedWords
  <2>4. ASSUME NEW t \in Threads, NEW word \in 0 .. MaxWords, Touches(t, word)
        PROVE  word < wordCount
    <3>1. CASE pc[t] = "touch" /\ word = WordOf(frame[t].slot)
      BY <2>1, <3>1 DEF ThreadFits, WordsReach
    <3>2. CASE pc[t] = "sweep" /\ word = frame[t].index
      <4>1. word < frame[t].current /\ frame[t].current <= wordCount
        BY <2>1, <3>2 DEF ThreadFits, WordsReach, Sweeping
      <4>2. frame[t].current \in Nat
        BY <2>1, <2>2 DEF BitmapTypeOK, Frame
      <4>3. QED
        BY <2>2, <4>1, <4>2
    <3>3. QED
      BY <2>4, <3>1, <3>2 DEF Touches
  <2>5. QED
    BY <2>1, <2>3, <2>4 DEF PagesBackWords, PublishedWords
<1>2. QED
  BY <1>1, BitmapInvariant, PTL

-----------------------------------------------------------------------------
(* The count.  There are finitely many changes under way. *)
CountInv ==
  /\ IsFiniteSet(Owed(1))
  /\ IsFiniteSet(Owed(-1))
  /\ CountSettles

(* What one thread owes. *)
Share(t, sign) == {t} \X (1 .. sign * frame[t].change)

LEMMA ShareCount ==
  ASSUME NEW t, NEW n \in Int
  PROVE  /\ IsFiniteSet({t} \X (1 .. n))
         /\ Cardinality({t} \X (1 .. n)) = IF n > 0 THEN n ELSE 0
<1>1. IsFiniteSet({t}) /\ Cardinality({t}) = 1
  BY FS_Singleton
<1>2. IsFiniteSet(1 .. n) /\ Cardinality(1 .. n) = IF n > 0 THEN n ELSE 0
  BY FS_Interval
<1>3. /\ IsFiniteSet({t} \X (1 .. n))
      /\ Cardinality({t} \X (1 .. n)) = 1 * Cardinality(1 .. n)
  BY <1>1, <1>2, FS_Product
<1>4. QED
  BY <1>2, <1>3

LEMMA Joined ==
  ASSUME NEW S, NEW T, IsFiniteSet(S), IsFiniteSet(T), S \cap T = {}
  PROVE  /\ IsFiniteSet(S \cup T)
         /\ Cardinality(S \cup T) = Cardinality(S) + Cardinality(T)
<1>1. Cardinality(S) \in Nat /\ Cardinality(T) \in Nat
  BY FS_CardinalityType
<1>2. Cardinality(S \cap T) = 0
  BY FS_EmptySet
<1>3. /\ IsFiniteSet(S \cup T)
      /\ Cardinality(S \cup T) = Cardinality(S) + Cardinality(T) - Cardinality(S \cap T)
  BY FS_Union
<1> DEFINE m == Cardinality(S)
           n == Cardinality(T)
           k == Cardinality(S \cap T)
           j == Cardinality(S \cup T)
<1>4. m \in Nat /\ n \in Nat /\ k = 0 /\ j = m + n - k
  BY <1>1, <1>2, <1>3
<1> HIDE DEF m, n, k, j
<1>5. j = m + n
  BY <1>4
<1>6. QED
  BY <1>3, <1>5 DEF m, n, j

LEMMA Taken ==
  ASSUME NEW S, NEW T \in SUBSET S, IsFiniteSet(S)
  PROVE  /\ IsFiniteSet(S \ T) /\ IsFiniteSet(T)
         /\ Cardinality(S \ T) = Cardinality(S) - Cardinality(T)
         /\ Cardinality(S) \in Nat /\ Cardinality(T) \in Nat
<1>1. IsFiniteSet(T)
  BY FS_Subset
<1>2. /\ IsFiniteSet(S \ T)
      /\ Cardinality(S \ T) = Cardinality(S) - Cardinality(S \cap T)
  BY FS_Difference
<1>3. S \cap T = T
  OBVIOUS
<1>4. Cardinality(S) \in Nat /\ Cardinality(T) \in Nat
  BY <1>1, FS_CardinalityType
<1>5. QED
  BY <1>1, <1>2, <1>3, <1>4

(* The other threads keep what they owe. *)
OthersOwe(t) ==
  \A u \in Threads \ {t} : pc'[u] = pc[u] /\ frame'[u].change = frame[u].change

LEMMA OwedNext ==
  ASSUME NEW t \in Threads, OthersOwe(t), NEW sign \in {1, -1}
  PROVE  /\ pc[t] # "count" /\ pc'[t] # "count" => Owed(sign)' = Owed(sign)
         /\ pc[t] # "count" /\ pc'[t] = "count" =>
              /\ Owed(sign)' = Owed(sign) \cup Share(t, sign)'
              /\ Owed(sign) \cap Share(t, sign)' = {}
         /\ pc[t] = "count" /\ pc'[t] # "count" =>
              /\ Owed(sign)' = Owed(sign) \ Share(t, sign)
              /\ Share(t, sign) \subseteq Owed(sign)
<1> DEFINE O == Owed(sign)
           P == Owed(sign)'
           In(x, u) == x \in {u} \X (1 .. sign * frame[u].change)
           InNext(x, u) == x \in {u} \X (1 .. sign * frame'[u].change)
<1>1. \A x : x \in O <=> \E u \in Threads : pc[u] = "count" /\ In(x, u)
  BY DEF Owed
<1>2. \A x : x \in P <=> \E u \in Threads : pc'[u] = "count" /\ InNext(x, u)
  BY DEF Owed
<1>3. \A x : \A u \in Threads \ {t} : (InNext(x, u) <=> In(x, u)) /\ pc'[u] = pc[u]
  BY DEF OthersOwe
<1>4. \A x : \A u, v \in Threads : /\ In(x, u) /\ In(x, v) => u = v
                                   /\ In(x, u) /\ InNext(x, v) => u = v
  OBVIOUS
<1>5. /\ \A x : x \in Share(t, sign) <=> In(x, t)
      /\ \A x : x \in Share(t, sign)' <=> InNext(x, t)
  BY DEF Share
<1> HIDE DEF O, P, In, InNext
<1>6. ASSUME pc[t] # "count", pc'[t] # "count" PROVE P = O
  BY <1>1, <1>2, <1>3, <1>6
<1>7. ASSUME pc[t] # "count", pc'[t] = "count"
      PROVE  P = O \cup Share(t, sign)' /\ O \cap Share(t, sign)' = {}
  BY <1>1, <1>2, <1>3, <1>4, <1>5, <1>7
<1>8. ASSUME pc[t] = "count", pc'[t] # "count"
      PROVE  P = O \ Share(t, sign) /\ Share(t, sign) \subseteq O
  BY <1>1, <1>2, <1>3, <1>4, <1>5, <1>8
<1>9. QED
  BY <1>6, <1>7, <1>8 DEF O, P

(* What a step does to bits and count. *)
Quiet(t) ==
  pc[t] # "count" /\ pc'[t] # "count" /\ UNCHANGED <<bits, setBitCount>>

Adds(t) ==
  /\ pc[t] # "count" /\ pc'[t] = "count" /\ UNCHANGED setBitCount
  /\ \E s \in Slots \ bits : bits' = bits \cup {s}
  /\ frame'[t].change = 1

Takes(t) ==
  /\ pc[t] # "count" /\ pc'[t] = "count" /\ UNCHANGED setBitCount
  /\ \E some \in SUBSET bits :
       bits' = bits \ some /\ frame'[t].change = -Cardinality(some)

Settles(t) ==
  /\ pc[t] = "count" /\ pc'[t] # "count" /\ UNCHANGED bits
  /\ setBitCount' = setBitCount + frame[t].change

LEMMA CountKept ==
  ASSUME BitmapTypeOK, BitmapTypeOK', CountInv, NEW t \in Threads, OthersOwe(t),
         Quiet(t) \/ Adds(t) \/ Takes(t) \/ Settles(t)
  PROVE  CountInv'
<1> DEFINE c == frame[t].change
           d == frame'[t].change
<1>1. /\ c \in Int /\ d \in Int /\ setBitCount \in Int
      /\ IsFiniteSet(bits) /\ Cardinality(bits) \in Nat
      /\ IsFiniteSet(Owed(1)) /\ Cardinality(Owed(1)) \in Nat
      /\ IsFiniteSet(Owed(-1)) /\ Cardinality(Owed(-1)) \in Nat
      /\ setBitCount + Cardinality(Owed(1)) = Cardinality(bits) + Cardinality(Owed(-1))
  <2>1. IsFiniteSet(bits)
    BY SlotsFinite, FS_Subset DEF BitmapTypeOK
  <2>2. frame[t] \in Frame /\ frame'[t] \in Frame /\ setBitCount \in Int
    BY DEF BitmapTypeOK
  <2>3. QED
    BY <2>1, <2>2, FS_CardinalityType DEF CountInv, CountSettles, Frame
<1>2. /\ 1 * c = c /\ (-1) * c = -c /\ 1 * d = d /\ (-1) * d = -d
      /\ -c \in Int /\ -d \in Int
  BY <1>1
<1>3. /\ Share(t, 1) = {t} \X (1 .. c) /\ Share(t, -1) = {t} \X (1 .. -c)
      /\ Share(t, 1)' = {t} \X (1 .. d) /\ Share(t, -1)' = {t} \X (1 .. -d)
  BY <1>2 DEF Share
<1> HIDE DEF c, d
<1>4. /\ IsFiniteSet(Share(t, 1)) /\ Cardinality(Share(t, 1)) = IF c > 0 THEN c ELSE 0
      /\ IsFiniteSet(Share(t, -1)) /\ Cardinality(Share(t, -1)) = IF -c > 0 THEN -c ELSE 0
      /\ IsFiniteSet(Share(t, 1)') /\ Cardinality(Share(t, 1)') = IF d > 0 THEN d ELSE 0
      /\ IsFiniteSet(Share(t, -1)') /\ Cardinality(Share(t, -1)') = IF -d > 0 THEN -d ELSE 0
  <2>1. \A n \in Int : /\ IsFiniteSet({t} \X (1 .. n))
                       /\ Cardinality({t} \X (1 .. n)) = IF n > 0 THEN n ELSE 0
    BY ShareCount
  <2>2. QED
    BY <1>1, <1>2, <1>3, <2>1
<1>5. CASE Quiet(t)
  <2>1. Owed(1)' = Owed(1) /\ Owed(-1)' = Owed(-1) /\ UNCHANGED <<bits, setBitCount>>
    BY <1>5, OwedNext DEF Quiet
  <2>2. QED
    BY <1>1, <2>1 DEF CountInv, CountSettles
<1>6. ASSUME pc[t] # "count", pc'[t] = "count"
      PROVE  /\ IsFiniteSet(Owed(1)') /\ IsFiniteSet(Owed(-1)')
             /\ Cardinality(Owed(1)') = Cardinality(Owed(1)) + (IF d > 0 THEN d ELSE 0)
             /\ Cardinality(Owed(-1)') = Cardinality(Owed(-1)) + (IF -d > 0 THEN -d ELSE 0)
  <2>1. /\ Owed(1)' = Owed(1) \cup Share(t, 1)' /\ Owed(1) \cap Share(t, 1)' = {}
        /\ Owed(-1)' = Owed(-1) \cup Share(t, -1)' /\ Owed(-1) \cap Share(t, -1)' = {}
    BY <1>6, OwedNext
  <2>2. QED
    BY <1>1, <1>4, <2>1, Joined
<1>7. CASE Adds(t)
  <2>1. /\ IsFiniteSet(Owed(1)') /\ IsFiniteSet(Owed(-1)')
        /\ Cardinality(Owed(1)') = Cardinality(Owed(1)) + (IF d > 0 THEN d ELSE 0)
        /\ Cardinality(Owed(-1)') = Cardinality(Owed(-1)) + (IF -d > 0 THEN -d ELSE 0)
        /\ d = 1 /\ setBitCount' = setBitCount
    BY <1>6, <1>7 DEF Adds, d
  <2>2. PICK s \in Slots \ bits : bits' = bits \cup {s}
    BY <1>7 DEF Adds
  <2>3. Cardinality(bits') = Cardinality(bits) + 1
    BY <1>1, <2>2, FS_AddElement
  <2>4. setBitCount' + Cardinality(Owed(1)') = Cardinality(bits') + Cardinality(Owed(-1)')
    BY <1>1, <2>1, <2>3
  <2>5. QED
    BY <2>1, <2>4 DEF CountInv, CountSettles
<1>8. CASE Takes(t)
  <2>1. /\ IsFiniteSet(Owed(1)') /\ IsFiniteSet(Owed(-1)')
        /\ Cardinality(Owed(1)') = Cardinality(Owed(1)) + (IF d > 0 THEN d ELSE 0)
        /\ Cardinality(Owed(-1)') = Cardinality(Owed(-1)) + (IF -d > 0 THEN -d ELSE 0)
        /\ setBitCount' = setBitCount
    BY <1>6, <1>8 DEF Takes
  <2>2. PICK some \in SUBSET bits : bits' = bits \ some /\ d = -Cardinality(some)
    BY <1>8 DEF Takes, d
  <2>3. /\ Cardinality(bits') = Cardinality(bits) - Cardinality(some)
        /\ Cardinality(some) \in Nat
    BY <1>1, <2>2, Taken
  <2>4. setBitCount' + Cardinality(Owed(1)') = Cardinality(bits') + Cardinality(Owed(-1)')
    BY <1>1, <2>1, <2>2, <2>3
  <2>5. QED
    BY <2>1, <2>4 DEF CountInv, CountSettles
<1>9. CASE Settles(t)
  <2>1. /\ Owed(1)' = Owed(1) \ Share(t, 1) /\ Share(t, 1) \subseteq Owed(1)
        /\ Owed(-1)' = Owed(-1) \ Share(t, -1) /\ Share(t, -1) \subseteq Owed(-1)
        /\ bits' = bits /\ setBitCount' = setBitCount + c
    BY <1>9, OwedNext DEF Settles, c
  <2>2. /\ IsFiniteSet(Owed(1)') /\ IsFiniteSet(Owed(-1)')
        /\ Cardinality(Owed(1)') = Cardinality(Owed(1)) - (IF c > 0 THEN c ELSE 0)
        /\ Cardinality(Owed(-1)') = Cardinality(Owed(-1)) - (IF -c > 0 THEN -c ELSE 0)
    <3>1. \A S : \A T \in SUBSET S : IsFiniteSet(S) =>
            IsFiniteSet(S \ T) /\ Cardinality(S \ T) = Cardinality(S) - Cardinality(T)
      BY Taken
    <3>2. /\ IsFiniteSet(Owed(1) \ Share(t, 1))
          /\ Cardinality(Owed(1) \ Share(t, 1)) = Cardinality(Owed(1)) - Cardinality(Share(t, 1))
      BY <1>1, <2>1, <3>1
    <3>3. /\ IsFiniteSet(Owed(-1) \ Share(t, -1))
          /\ Cardinality(Owed(-1) \ Share(t, -1))
               = Cardinality(Owed(-1)) - Cardinality(Share(t, -1))
      BY <1>1, <2>1, <3>1
    <3>4. Cardinality(Share(t, 1)) = (IF c > 0 THEN c ELSE 0)
          /\ Cardinality(Share(t, -1)) = (IF -c > 0 THEN -c ELSE 0)
      BY <1>4
    <3>5. QED
      BY <2>1, <3>2, <3>3, <3>4
  <2>3. setBitCount' + Cardinality(Owed(1)') = Cardinality(bits') + Cardinality(Owed(-1)')
    BY <1>1, <2>1, <2>2
  <2>4. QED
    BY <2>2, <2>3 DEF CountInv, CountSettles
<1>10. QED
  BY <1>5, <1>7, <1>8, <1>9

(* What each step does to bits and count. *)
LEMMA CallsQuiet ==
  ASSUME BitmapInv, BitmapTypeOK', NEW t \in Threads,
         \/ \E op \in {"set", "clear", "test"}, s \in Slots : callOnSlot(t, op, s)
         \/ \E op \in Sweeps : callSweep(t, op)
         \/ \E n \in Reservations : reserveSlots(t, n)
         \/ return(t)
  PROVE  OthersOwe(t) /\ Quiet(t)
<1>1. BitmapTypeOK /\ frame \in [Threads -> Frame] /\ frame' \in [Threads -> Frame]
      /\ DOMAIN pc = Threads
  BY DEF BitmapInv, BitmapTypeOK
<1>2. ASSUME NEW f, NEW label \in {"start", "ensure"}, Enter(t, f, label)
      PROVE  OthersOwe(t) /\ Quiet(t)
  BY <1>1, <1>2 DEF Enter, Goto, memory, OthersOwe, Quiet
<1>3. ASSUME return(t) PROVE OthersOwe(t) /\ Quiet(t)
  BY <1>1, <1>3 DEF return, Goto, memory, OthersOwe, Quiet
<1>4. ASSUME NEW op, NEW s, callOnSlot(t, op, s)
      PROVE  OthersOwe(t) /\ Quiet(t)
  BY <1>2, <1>4 DEF callOnSlot
<1>5. ASSUME NEW op, callSweep(t, op)
      PROVE  OthersOwe(t) /\ Quiet(t)
  BY <1>2, <1>5 DEF callSweep
<1>6. ASSUME NEW n, reserveSlots(t, n)
      PROVE  OthersOwe(t) /\ Quiet(t)
  BY <1>2, <1>6 DEF reserveSlots
<1>7. QED
  BY <1>3, <1>4, <1>5, <1>6

LEMMA GrowthQuiet ==
  ASSUME BitmapInv, BitmapTypeOK', NEW t \in Threads,
         \/ ensureWordCount(t) \/ pageExists(t) \/ pageMissing(t) \/ installPage(t)
         \/ publish(t) \/ publishFails(t)
  PROVE  OthersOwe(t) /\ Quiet(t)
<1>1. frame \in [Threads -> Frame] /\ DOMAIN pc = Threads
  BY DEF BitmapInv, BitmapTypeOK
<1>2. CASE ensureWordCount(t) \/ publish(t) \/ publishFails(t)
  BY <1>1, <1>2 DEF ensureWordCount, publish, publishFails, AfterEnsure, Goto, memory,
     OthersOwe, Quiet, Frame
<1>3. CASE pageExists(t) \/ pageMissing(t) \/ installPage(t)
  BY <1>1, <1>3 DEF pageExists, pageMissing, installPage, NextPage, Goto, memory,
     OthersOwe, Quiet, Frame
<1>4. QED
  BY <1>2, <1>3

LEMMA ReadsQuiet ==
  ASSUME BitmapInv, BitmapTypeOK', NEW t \in Threads,
         \/ startSet(t) \/ startOther(t) \/ testBit(t) \/ startSweep(t) \/ visitWord(t)
  PROVE  OthersOwe(t) /\ Quiet(t)
<1>1. frame \in [Threads -> Frame] /\ DOMAIN pc = Threads
  BY DEF BitmapInv, BitmapTypeOK
<1>2. CASE startSet(t) \/ startOther(t)
  BY <1>1, <1>2 DEF startSet, startOther, Goto, memory, OthersOwe, Quiet, Frame
<1>3. CASE testBit(t) \/ startSweep(t)
  BY <1>1, <1>3 DEF testBit, startSweep, Goto, memory, OthersOwe, Quiet, Frame
<1>4. CASE visitWord(t)
  BY <1>1, <1>4 DEF visitWord, AfterWord, Goto, memory, OthersOwe, Quiet, Frame
<1>5. QED
  BY <1>2, <1>3, <1>4

LEMMA setBitAdds ==
  ASSUME BitmapInv, NEW t \in Threads, setBit(t)
  PROVE  OthersOwe(t) /\ (Quiet(t) \/ Adds(t))
<1> DEFINE s == frame[t].slot
<1>1. /\ frame \in [Threads -> Frame] /\ DOMAIN pc = Threads
      /\ s \in Slots
  BY DEF BitmapInv, BitmapTypeOK, ThreadFits, CallFits, setBit
<1>2. OthersOwe(t) /\ frame'[t].change = 1
  BY <1>1 DEF setBit, Goto, OthersOwe, Frame
<1>3. /\ pc[t] = "touch" /\ bits' = bits \cup {s} /\ UNCHANGED setBitCount
      /\ pc'[t] = IF s \in bits THEN "return" ELSE "count"
  BY <1>1 DEF setBit, Goto
<1> HIDE DEF s
<1>4. CASE s \in bits
  <2>1. bits' = bits
    BY <1>3, <1>4
  <2>2. QED
    BY <1>2, <1>3, <1>4, <2>1 DEF Quiet
<1>5. CASE s \notin bits
  BY <1>1, <1>2, <1>3, <1>5 DEF Adds
<1>6. QED
  BY <1>4, <1>5

LEMMA clearBitTakes ==
  ASSUME BitmapInv, NEW t \in Threads, clearBit(t)
  PROVE  OthersOwe(t) /\ (Quiet(t) \/ Takes(t))
<1> DEFINE s == frame[t].slot
           h == Forgotten({s})
<1>1. /\ frame \in [Threads -> Frame] /\ DOMAIN pc = Threads
      /\ s \in Slots
  BY DEF BitmapInv, BitmapTypeOK, ThreadFits, CallFits, clearBit
<1>2. h \in [Threads -> Frame] /\ \A u \in Threads : h[u].change = frame[u].change
  BY <1>1, ForgottenFields
<1>3. /\ pc[t] = "touch" /\ bits' = bits \ {s} /\ UNCHANGED setBitCount
      /\ pc' = [pc EXCEPT ![t] = IF s \in bits THEN "count" ELSE "return"]
      /\ frame' = [h EXCEPT ![t].change = -1]
  BY DEF clearBit, WasSet, Goto
<1> HIDE DEF s, h
<1>4. OthersOwe(t) /\ frame'[t].change = -1
  BY <1>1, <1>2, <1>3 DEF OthersOwe, Frame
<1>5. CASE s \notin bits
  <2>1. bits' = bits
    BY <1>3, <1>5
  <2>2. QED
    BY <1>1, <1>3, <1>4, <1>5, <2>1 DEF Quiet
<1>6. CASE s \in bits
  <2>1. {s} \in SUBSET bits /\ Cardinality({s}) = 1
    BY <1>6, FS_Singleton
  <2>2. bits' = bits \ {s} /\ frame'[t].change = -Cardinality({s})
    BY <1>3, <1>4, <2>1
  <2>3. QED
    BY <1>1, <1>3, <1>4, <1>6, <2>1, <2>2 DEF Takes
<1>7. QED
  BY <1>5, <1>6

LEMMA clearWordTakes ==
  ASSUME BitmapInv, NEW t \in Threads, clearWord(t)
  PROVE  OthersOwe(t) /\ Takes(t)
<1> DEFINE some == bits \cap SlotsOf(frame[t].index)
           h == Forgotten(some)
           n == -Cardinality(some)
<1>1. /\ frame \in [Threads -> Frame] /\ DOMAIN pc = Threads
      /\ some \in SUBSET Slots /\ some \in SUBSET bits
  BY DEF BitmapInv, BitmapTypeOK
<1>2. h \in [Threads -> Frame] /\ \A u \in Threads : h[u].change = frame[u].change
  BY <1>1, ForgottenFields
<1>3. /\ pc[t] = "sweep" /\ bits' = bits \ some /\ UNCHANGED setBitCount
      /\ pc' = [pc EXCEPT ![t] = "count"]
      /\ frame' = [h EXCEPT ![t].change = n]
  BY DEF clearWord, Goto
<1> HIDE DEF h, n
<1>4. OthersOwe(t) /\ frame'[t].change = n
  BY <1>1, <1>2, <1>3 DEF OthersOwe, Frame
<1> HIDE DEF some
<1>5. QED
  BY <1>1, <1>3, <1>4 DEF Takes, n

LEMMA countSettles ==
  ASSUME BitmapInv, NEW t \in Threads, count(t)
  PROVE  OthersOwe(t) /\ Settles(t)
<1>1. frame \in [Threads -> Frame] /\ DOMAIN pc = Threads
  BY DEF BitmapInv, BitmapTypeOK
<1>2. CASE frame[t].op = "clearAll"
  BY <1>1, <1>2 DEF count, AfterWord, Goto, OthersOwe, Settles, Frame
<1>3. CASE frame[t].op # "clearAll"
  BY <1>1, <1>3 DEF count, Goto, OthersOwe, Settles
<1>4. QED
  BY <1>2, <1>3

LEMMA CountNext == BitmapInv /\ CountInv /\ [BitmapNext]_bitmapVars => CountInv'
<1> SUFFICES ASSUME BitmapInv, CountInv, [BitmapNext]_bitmapVars PROVE CountInv'
  OBVIOUS
<1>1. BitmapTypeOK /\ BitmapTypeOK'
  BY NextInv DEF BitmapInv
<1>2. CASE BitmapNext
  <2>1. ASSUME NEW t \in Threads,
               \/ \E op \in {"set", "clear", "test"}, s \in Slots : callOnSlot(t, op, s)
               \/ \E op \in Sweeps : callSweep(t, op)
               \/ \E n \in Reservations : reserveSlots(t, n)
               \/ return(t)
        PROVE  OthersOwe(t) /\ Quiet(t)
    BY <1>1, <2>1, CallsQuiet
  <2>2. ASSUME NEW t \in Threads,
               \/ ensureWordCount(t) \/ pageExists(t) \/ pageMissing(t) \/ installPage(t)
               \/ publish(t) \/ publishFails(t)
        PROVE  OthersOwe(t) /\ Quiet(t)
    BY <1>1, <2>2, GrowthQuiet
  <2>3. ASSUME NEW t \in Threads,
               startSet(t) \/ startOther(t) \/ testBit(t) \/ startSweep(t) \/ visitWord(t)
        PROVE  OthersOwe(t) /\ Quiet(t)
    BY <1>1, <2>3, ReadsQuiet
  <2>4. ASSUME NEW t \in Threads, setBit(t) \/ clearBit(t) \/ clearWord(t) \/ count(t)
        PROVE  OthersOwe(t) /\ (Quiet(t) \/ Adds(t) \/ Takes(t) \/ Settles(t))
    BY <2>4, setBitAdds, clearBitTakes, clearWordTakes, countSettles
  <2>5. \E t \in Threads :
          OthersOwe(t) /\ (Quiet(t) \/ Adds(t) \/ Takes(t) \/ Settles(t))
    BY <1>2, <2>1, <2>2, <2>3, <2>4 DEF BitmapNext
  <2>6. QED
    BY <1>1, <2>5, CountKept
<1>3. CASE UNCHANGED bitmapVars
  BY <1>3 DEF bitmapVars, CountInv, CountSettles, Owed
<1>4. QED
  BY <1>2, <1>3

(* The count is changed after the bits, in a step of its own, and by other   *)
(* threads in between: whatever the order, it differs from the number of bits *)
(* by just what is still to be added and taken, so that it settles.           *)
THEOREM CountFollowsBits == BitmapSpec => []CountSettles
<1>1. BitmapInit => CountInv
  <2> SUFFICES ASSUME BitmapInit PROVE CountInv
    OBVIOUS
  <2>1. Owed(1) = {} /\ Owed(-1) = {} /\ bits = {} /\ setBitCount = 0
    BY DEF BitmapInit, Owed
  <2>2. IsFiniteSet({}) /\ Cardinality({}) = 0
    BY FS_EmptySet
  <2>3. QED
    BY <2>1, <2>2 DEF CountInv, CountSettles
<1>2. BitmapInv /\ CountInv /\ [BitmapNext]_bitmapVars => CountInv'
  BY CountNext
<1>3. CountInv => CountSettles
  BY DEF CountInv
<1>4. QED
  BY <1>1, <1>2, <1>3, BitmapInvariant, PTL DEF BitmapSpec

-----------------------------------------------------------------------------
(* The bitmap as its callers see it: SlotSet. *)
Seen(t) == CallSeen(frame[t], pc[t])

LEMMA WhatIsSeen ==
  ASSUME NEW f, NEW place
  PROVE  /\ f.op \in {"none", "reserve"} => CallSeen(f, place) = Answered!Idle
         /\ f.op \in Sweeps => CallSeen(f, place) = Answered!SweepCall(f.op, f.due)
         /\ f.op = "test" /\ place = "return" => CallSeen(f, place) = Answered!Answer(f.present)
         /\ f.op \in {"set", "clear"} /\ place \in {"count", "return"} =>
              CallSeen(f, place) = Answered!Done
         /\ f.op \in {"set", "clear", "test"} /\ place \notin {"count", "return"} =>
              CallSeen(f, place) = Answered!SlotCall(f.op, f.slot)
BY DEF CallSeen, Sweeps, Answered!Idle, Answered!SweepCall, Answered!Answer, Answered!Done,
   Answered!SlotCall

(* Callers look at the operation, the slot and what is due; and, once there *)
(* is one, at the answer.                                                    *)
LEMMA SeenAlike ==
  ASSUME NEW f \in Frame, NEW g \in Frame, NEW place, NEW other,
         g.op = f.op, g.slot = f.slot, g.due = f.due, g.present = f.present,
         f.op \in {"set", "clear"} =>
           (place \in {"count", "return"} <=> other \in {"count", "return"}),
         f.op = "test" => (place = "return" <=> other = "return")
  PROVE  CallSeen(g, other) = CallSeen(f, place)
<1>1. CASE f.op \in {"none", "reserve"} \cup Sweeps
  BY <1>1, WhatIsSeen
<1>2. CASE f.op \in {"set", "clear"}
  BY <1>2 DEF CallSeen, Sweeps
<1>3. CASE f.op = "test"
  BY <1>3 DEF CallSeen, Sweeps
<1>4. QED
  BY <1>1, <1>2, <1>3 DEF Frame

(* What the calls of the other threads have left to do: sweeps forget what   *)
(* is cleared.                                                               *)
OthersForget(t, cleared) ==
  \A u \in Threads \ {t} :
    Seen(u)' = IF Seen(u).op \in Sweeps
               THEN Answered!SweepCall(Seen(u).op, Seen(u).due \ cleared)
               ELSE Seen(u)

LEMMA OthersSeen ==
  ASSUME BitmapInv, BitmapInv', NEW t \in Threads, OthersKeep(t), NEW cleared,
         bits \cap cleared = bits \ bits'
  PROVE  OthersForget(t, cleared)
<1> SUFFICES ASSUME NEW u \in Threads \ {t}
             PROVE  Seen(u)' = IF Seen(u).op \in Sweeps
                               THEN Answered!SweepCall(Seen(u).op, Seen(u).due \ cleared)
                               ELSE Seen(u)
  BY DEF OthersForget
<1> DEFINE f == frame[u]
           g == frame'[u]
<1>1. /\ f \in Frame /\ g \in Frame /\ f.due \subseteq bits
      /\ f.op \notin Sweeps => f.due = {}
  BY DEF BitmapInv, BitmapTypeOK, ThreadFits, DueAhead
<1>2. /\ pc'[u] = pc[u] /\ g.op = f.op /\ g.slot = f.slot /\ g.present = f.present
      /\ g.due = f.due \ (bits \ bits')
  BY DEF OthersKeep
<1>3. Seen(u) = CallSeen(f, pc[u]) /\ Seen(u)' = CallSeen(g, pc'[u])
  BY DEF Seen
<1> HIDE DEF f, g
<1>4. g.due = f.due \ cleared
  BY <1>1, <1>2
<1>5. CASE f.op \in Sweeps
  <2>1. /\ Seen(u) = Answered!SweepCall(f.op, f.due)
        /\ Seen(u)' = Answered!SweepCall(g.op, g.due)
    BY <1>2, <1>3, <1>5, WhatIsSeen
  <2>2. Seen(u).op = f.op /\ Seen(u).due = f.due
    BY <2>1 DEF Answered!SweepCall
  <2>3. QED
    BY <1>2, <1>4, <1>5, <2>1, <2>2
<1>6. CASE f.op \notin Sweeps
  <2>1. Seen(u)' = Seen(u)
    BY <1>1, <1>2, <1>3, <1>6, SeenAlike
  <2>2. Seen(u).op \notin Sweeps
    BY <1>3, <1>6 DEF CallSeen, Sweeps
  <2>3. QED
    BY <2>1, <2>2
<1>7. QED
  BY <1>5, <1>6

(* When nothing is cleared, they have the same left to do. *)
LEMMA OthersSeenSame ==
  ASSUME BitmapInv, BitmapInv', NEW t \in Threads, OthersKeep(t), bits \subseteq bits'
  PROVE  \A u \in Threads \ {t} : Seen(u)' = Seen(u)
<1> SUFFICES ASSUME NEW u \in Threads \ {t} PROVE Seen(u)' = Seen(u)
  OBVIOUS
<1>1. frame[u] \in Frame /\ frame'[u] \in Frame
  BY DEF BitmapInv, BitmapTypeOK
<1>2. /\ pc'[u] = pc[u] /\ frame'[u].op = frame[u].op /\ frame'[u].slot = frame[u].slot
      /\ frame'[u].present = frame[u].present
      /\ frame'[u].due = frame[u].due
  BY DEF OthersKeep
<1>3. QED
  BY <1>1, <1>2, SeenAlike DEF Seen

(* What t's call does to the set and to itself, as SlotSet has it. *)
SetStep(t) ==
  \/ /\ Seen(t)' = Seen(t)
     /\ bits' = bits
  \/ /\ Seen(t) = Answered!Idle
     /\ \/ \E op \in {"set", "clear", "test"}, s \in Slots : Seen(t)' = Answered!SlotCall(op, s)
        \/ \E op \in Sweeps : Seen(t)' = Answered!SweepCall(op, bits)
     /\ bits' = bits
  \/ \E s \in Slots :
       /\ Seen(t) = Answered!SlotCall("set", s)
       /\ bits' = bits \cup {s}
       /\ Seen(t)' = Answered!Done
  \/ \E s \in Slots :
       /\ Seen(t) = Answered!SlotCall("test", s)
       /\ Seen(t)' = Answered!Answer(s \in bits)
       /\ bits' = bits
  \/ \E due \in SUBSET Slots : \E some \in SUBSET bits :
       /\ Seen(t) = Answered!SweepCall("forEachSetBit", due)
       /\ Seen(t)' = Answered!SweepCall("forEachSetBit", due \ some)
       /\ bits' = bits
  \/ /\ \/ Seen(t).op \in {"done", "answer"}
        \/ Seen(t).op \in Sweeps /\ Seen(t).due = {}
     /\ Seen(t)' = Answered!Idle
     /\ bits' = bits

SetStepForgetting(t, cleared) ==
  \/ \E s \in Slots :
       /\ cleared = {s}
       /\ Seen(t) = Answered!SlotCall("clear", s)
       /\ Seen(t)' = Answered!Done
  \/ \E due \in SUBSET Slots :
       /\ cleared \in SUBSET bits
       /\ Seen(t) = Answered!SweepCall("clearAll", due)
       /\ Seen(t)' = Answered!SweepCall("clearAll", due \ cleared)

LEMMA SetStepIs ==
  ASSUME NEW t \in Threads, SetStep(t), \A u \in Threads \ {t} : Seen(u)' = Seen(u)
  PROVE  [Answered!Next]_(Answered!setVars)
<1> DEFINE C == [u \in Threads |-> CallSeen(frame[u], pc[u])]
           D == [u \in Threads |-> CallSeen(frame'[u], pc'[u])]
<1>1. C[t] = Seen(t) /\ D[t] = Seen(t)' /\ C' = D
  BY DEF Seen
<1>2. D = [C EXCEPT ![t] = Seen(t)']
  BY DEF Seen
<1>3. CASE Seen(t)' = Seen(t) /\ bits' = bits
  <2>1. C = D
    BY <1>3 DEF Seen
  <2>2. QED
    BY <1>3, <2>1 DEF Answered!setVars
<1> HIDE DEF C, D
<1>4. ASSUME Seen(t) = Answered!Idle, bits' = bits,
             \/ \E op \in {"set", "clear", "test"}, s \in Slots :
                  Seen(t)' = Answered!SlotCall(op, s)
             \/ \E op \in Sweeps : Seen(t)' = Answered!SweepCall(op, bits)
      PROVE  Answered!Call(t)
  <2> DEFINE S == {Answered!SlotCall(op, s) : op \in {"set", "clear", "test"}, s \in Slots}
                  \cup {Answered!SweepCall(op, bits) : op \in Answered!Sweeps}
  <2>1. Answered!Call(t) <=> /\ C[t] = Answered!Idle
                             /\ \E c \in S : C' = [C EXCEPT ![t] = c]
                             /\ bits' = bits
    BY DEF Answered!Call, C
  <2>2. Seen(t)' \in S
    BY <1>4 DEF Sweeps, Answered!Sweeps
  <2> HIDE DEF S
  <2>3. QED
    BY <1>1, <1>2, <1>4, <2>1, <2>2
<1>5. ASSUME NEW s \in Slots, Seen(t) = Answered!SlotCall("set", s), bits' = bits \cup {s},
             Seen(t)' = Answered!Done
      PROVE  Answered!Set(t)
  <2>1. C[t].op = "set" /\ C[t].slot = s /\ D = [C EXCEPT ![t] = Answered!Done]
    BY <1>1, <1>2, <1>5 DEF Answered!SlotCall
  <2>2. QED
    BY <1>1, <1>5, <2>1 DEF Answered!Set, C, D
<1>6. ASSUME NEW s \in Slots, Seen(t) = Answered!SlotCall("test", s), bits' = bits,
             Seen(t)' = Answered!Answer(s \in bits)
      PROVE  Answered!Test(t)
  <2>1. C[t].op = "test" /\ C[t].slot = s /\ D = [C EXCEPT ![t] = Answered!Answer(s \in bits)]
    BY <1>1, <1>2, <1>6 DEF Answered!SlotCall
  <2>2. QED
    BY <1>1, <1>6, <2>1 DEF Answered!Test, C, D
<1>7. ASSUME NEW due \in SUBSET Slots, NEW some \in SUBSET bits, bits' = bits,
             Seen(t) = Answered!SweepCall("forEachSetBit", due),
             Seen(t)' = Answered!SweepCall("forEachSetBit", due \ some)
      PROVE  Answered!Visit(t)
  <2>1. C[t].op = "forEachSetBit" /\ [C[t] EXCEPT !.due = @ \ some] = Seen(t)'
    BY <1>1, <1>7 DEF Answered!SweepCall
  <2>2. D = [C EXCEPT ![t].due = @ \ some]
    BY <1>2, <2>1 DEF C
  <2>3. QED
    BY <1>1, <1>7, <2>1, <2>2 DEF Answered!Visit, C, D
<1>8. ASSUME \/ Seen(t).op \in {"done", "answer"}
             \/ Seen(t).op \in Sweeps /\ Seen(t).due = {},
             Seen(t)' = Answered!Idle, bits' = bits
      PROVE  Answered!Return(t)
  BY <1>1, <1>2, <1>8 DEF Answered!Return, Sweeps, Answered!Sweeps, C, D
<1>9. \/ Answered!Call(t) \/ Answered!Set(t) \/ Answered!Test(t) \/ Answered!Visit(t)
      \/ Answered!Return(t)
      => Answered!Next
  BY DEF Answered!Next
<1>10. QED
  BY <1>3, <1>4, <1>5, <1>6, <1>7, <1>8, <1>9 DEF SetStep

LEMMA ForgettingStepIs ==
  ASSUME NEW t \in Threads, NEW cleared, SetStepForgetting(t, cleared),
         OthersForget(t, cleared), bits' = bits \ cleared
  PROVE  Answered!Next
<1> DEFINE C == [u \in Threads |-> CallSeen(frame[u], pc[u])]
           D == [u \in Threads |-> CallSeen(frame'[u], pc'[u])]
           F == Answered!Forget(C, cleared)
<1>1. C[t] = Seen(t) /\ D[t] = Seen(t)' /\ C' = D
  BY DEF Seen
<1>2. \A u \in Threads \ {t} : D[u] = F[u]
  BY DEF OthersForget, Seen, Answered!Forget, Sweeps, Answered!Sweeps
<1>3. /\ F = [u \in Threads |-> F[u]] /\ D = [u \in Threads |-> D[u]]
      /\ F[t] = IF C[t].op \in Sweeps THEN Answered!SweepCall(C[t].op, C[t].due \ cleared)
                ELSE C[t]
  BY DEF Answered!Forget, Sweeps, Answered!Sweeps
<1> HIDE DEF C, D, F
<1>4. ASSUME NEW s \in Slots, cleared = {s}, Seen(t) = Answered!SlotCall("clear", s),
             Seen(t)' = Answered!Done
      PROVE  Answered!Clear(t)
  <2>1. C[t].op = "clear" /\ C[t].slot = s /\ D[t] = Answered!Done
    BY <1>1, <1>4 DEF Answered!SlotCall
  <2>2. D = [F EXCEPT ![t] = Answered!Done]
    BY <1>2, <1>3, <2>1
  <2>3. QED
    BY <1>1, <1>4, <2>1, <2>2 DEF Answered!Clear, C, D, F
<1>5. ASSUME NEW due \in SUBSET Slots, cleared \in SUBSET bits,
             Seen(t) = Answered!SweepCall("clearAll", due),
             Seen(t)' = Answered!SweepCall("clearAll", due \ cleared)
      PROVE  Answered!ClearSome(t)
  <2>1. C[t].op = "clearAll" /\ C[t].due = due
    BY <1>1, <1>5 DEF Answered!SweepCall
  <2>2. F[t] = D[t]
    BY <1>1, <1>3, <1>5, <2>1 DEF Sweeps
  <2>3. D = F
    BY <1>2, <1>3, <2>2
  <2>4. QED
    BY <1>1, <1>5, <2>1, <2>3 DEF Answered!ClearSome, C, D, F
<1>6. QED
  BY <1>4, <1>5 DEF SetStepForgetting, Answered!Next

(* Which step of SlotSet each step of the bitmap is. *)
LEMMA NothingSeen ==
  ASSUME BitmapInv, NEW t \in Threads, BitmapInv', OthersKeep(t), bits' = bits,
         frame'[t].op = frame[t].op, frame'[t].slot = frame[t].slot,
         frame'[t].due = frame[t].due, frame'[t].present = frame[t].present,
         frame[t].op \in {"set", "clear"} =>
           (pc[t] \in {"count", "return"} <=> pc'[t] \in {"count", "return"}),
         frame[t].op = "test" => (pc[t] = "return" <=> pc'[t] = "return")
  PROVE  [Answered!Next]_(Answered!setVars)
<1>1. frame[t] \in Frame /\ frame'[t] \in Frame
  BY DEF BitmapInv, BitmapTypeOK
<1>2. Seen(t)' = Seen(t)
  BY <1>1, SeenAlike DEF Seen
<1>3. QED
  BY <1>2, OthersSeenSame, SetStepIs DEF SetStep

LEMMA CallsSeen ==
  ASSUME BitmapInv, NEW t \in Threads, BitmapInv', OthersKeep(t), NEW f, NEW label,
         Enter(t, f, label)
  PROVE  /\ Seen(t) = Answered!Idle /\ Seen(t)' = CallSeen(f, label)
         /\ bits' = bits /\ \A u \in Threads \ {t} : Seen(u)' = Seen(u)
<1>1. /\ pc[t] = "idle" /\ UNCHANGED memory /\ frame'[t] = f /\ pc'[t] = label
      /\ frame[t] = NoFrame
  BY DEF Enter, Goto, BitmapInv, BitmapTypeOK, ThreadFits, CallFits
<1>2. Seen(t) = Answered!Idle
  BY <1>1, NoFrameFields, WhatIsSeen DEF Seen
<1>3. QED
  BY <1>1, <1>2, OthersSeenSame DEF Seen, memory

LEMMA CallImplements ==
  ASSUME BitmapInv, NEW t \in Threads,
         \/ \E op \in {"set", "clear", "test"}, s \in Slots : callOnSlot(t, op, s)
         \/ \E op \in Sweeps : callSweep(t, op)
         \/ \E n \in Reservations : reserveSlots(t, n)
  PROVE  [Answered!Next]_(Answered!setVars)
<1>1. BitmapInv' /\ OthersKeep(t)
  BY callsFit
<1>2. ASSUME NEW op \in {"set", "clear", "test"}, NEW s \in Slots, callOnSlot(t, op, s)
      PROVE  [Answered!Next]_(Answered!setVars)
  <2> DEFINE f == [NoFrame EXCEPT !.op = op, !.slot = s]
  <2>1. f.op = op /\ f.slot = s
    BY NoFrameFields DEF Frame
  <2>2. Enter(t, f, "start")
    BY <1>2 DEF callOnSlot
  <2> HIDE DEF f
  <2>3. CallSeen(f, "start") = Answered!SlotCall(op, s)
    BY <2>1, WhatIsSeen
  <2>4. QED
    BY <1>1, <2>2, <2>3, CallsSeen, SetStepIs DEF SetStep
<1>3. ASSUME NEW op \in Sweeps, callSweep(t, op)
      PROVE  [Answered!Next]_(Answered!setVars)
  <2> DEFINE f == [NoFrame EXCEPT !.op = op, !.due = bits]
  <2>1. f.op = op /\ f.due = bits
    BY NoFrameFields DEF Frame
  <2>2. Enter(t, f, "start")
    BY <1>3 DEF callSweep
  <2> HIDE DEF f
  <2>3. CallSeen(f, "start") = Answered!SweepCall(op, bits)
    BY <2>1, WhatIsSeen
  <2>4. QED
    BY <1>1, <2>2, <2>3, CallsSeen, SetStepIs DEF SetStep
<1>4. ASSUME NEW n \in Reservations, reserveSlots(t, n)
      PROVE  [Answered!Next]_(Answered!setVars)
  <2> DEFINE f == [NoFrame EXCEPT !.op = "reserve", !.target = WordsFor(n)]
  <2>1. f.op = "reserve"
    BY NoFrameFields DEF Frame
  <2>2. Enter(t, f, "ensure")
    BY <1>4 DEF reserveSlots
  <2> HIDE DEF f
  <2>3. CallSeen(f, "ensure") = Answered!Idle
    BY <2>1, WhatIsSeen
  <2>4. QED
    BY <1>1, <2>2, <2>3, CallsSeen, SetStepIs DEF SetStep
<1>5. QED
  BY <1>2, <1>3, <1>4

LEMMA ReturnImplements ==
  ASSUME BitmapInv, NEW t \in Threads, return(t)
  PROVE  [Answered!Next]_(Answered!setVars)
<1> DEFINE f == frame[t]
<1>1. BitmapInv' /\ OthersKeep(t)
  BY returnFits
<1>2. /\ pc[t] = "return" /\ frame'[t] = NoFrame /\ bits' = bits
      /\ f \in Frame /\ f.op # "none" /\ f.due = {}
  BY DEF return, memory, BitmapInv, BitmapTypeOK, ThreadFits, CallFits, DueAhead
<1>3. Seen(t)' = Answered!Idle /\ Seen(t) = CallSeen(f, "return")
  BY <1>2, NoFrameFields, WhatIsSeen DEF Seen
<1> HIDE DEF f
<1>4. \/ Seen(t) = Answered!Idle
      \/ Seen(t).op \in {"done", "answer"}
      \/ Seen(t).op \in Sweeps /\ Seen(t).due = {}
  <2>1. CASE f.op = "reserve"
    BY <1>3, <2>1, WhatIsSeen
  <2>2. CASE f.op \in Sweeps
    BY <1>2, <1>3, <2>2, WhatIsSeen DEF Answered!SweepCall
  <2>3. CASE f.op = "test"
    BY <1>3, <2>3, WhatIsSeen DEF Answered!Answer
  <2>4. CASE f.op \in {"set", "clear"}
    BY <1>3, <2>4, WhatIsSeen DEF Answered!Done
  <2>5. QED
    BY <1>2, <2>1, <2>2, <2>3, <2>4 DEF Frame
<1>5. \A u \in Threads \ {t} : Seen(u)' = Seen(u)
  BY <1>1, <1>2, OthersSeenSame
<1>6. QED
  BY <1>2, <1>3, <1>4, <1>5, SetStepIs DEF SetStep

LEMMA GrowthImplements ==
  ASSUME BitmapInv, NEW t \in Threads,
         \/ ensureWordCount(t) \/ pageExists(t) \/ pageMissing(t) \/ installPage(t)
         \/ publish(t) \/ publishFails(t)
  PROVE  [Answered!Next]_(Answered!setVars)
<1>1. BitmapInv' /\ OthersKeep(t)
  BY ensureWordCountFits, pagesFit, publishFits, publishFailsFits
<1>2. /\ frame \in [Threads -> Frame] /\ DOMAIN pc = Threads
      /\ pc[t] \in Growing => frame[t].op \in {"set", "reserve"}
  BY DEF BitmapInv, BitmapTypeOK, ThreadFits, CallFits
<1>3. /\ pc[t] \in Growing /\ bits' = bits
      /\ pc'[t] \in Growing \cup {AfterEnsure(t)}
      /\ frame'[t].op = frame[t].op /\ frame'[t].slot = frame[t].slot
      /\ frame'[t].due = frame[t].due /\ frame'[t].present = frame[t].present
  <2>1. CASE ensureWordCount(t) \/ publish(t) \/ publishFails(t)
    BY <1>2, <2>1 DEF ensureWordCount, publish, publishFails, Goto, memory, Growing, Frame
  <2>2. CASE pageExists(t) \/ pageMissing(t) \/ installPage(t)
    BY <1>2, <2>2 DEF pageExists, pageMissing, installPage, NextPage, Goto, memory, Growing,
       Frame
  <2>3. QED
    BY <2>1, <2>2
<1>4. frame[t].op = "set" => pc'[t] \notin {"count", "return"} /\ pc[t] \notin {"count", "return"}
  BY <1>3 DEF Growing, AfterEnsure
<1>5. QED
  BY <1>1, <1>2, <1>3, <1>4, NothingSeen

LEMMA SlotStepsImplement ==
  ASSUME BitmapInv, NEW t \in Threads,
         startSet(t) \/ startOther(t) \/ setBit(t) \/ testBit(t)
  PROVE  [Answered!Next]_(Answered!setVars)
<1> DEFINE f == frame[t]
           g == frame'[t]
<1>1. BitmapInv' /\ OthersKeep(t)
  BY startSetFits, startOtherFits, setBitFits, testBitFits
<1>2. /\ frame \in [Threads -> Frame] /\ DOMAIN pc = Threads /\ CallFits(t)
      /\ \A s \in bits : WordOf(s) < wordCount
  BY DEF BitmapInv, BitmapTypeOK, ThreadFits, PublishedWords
<1>3. CASE startSet(t)
  <2>1. /\ pc[t] = "start" /\ f.op = "set" /\ pc'[t] \in {"touch", "ensure"} /\ bits' = bits
        /\ g.op = f.op /\ g.slot = f.slot /\ g.due = f.due /\ g.present = f.present
    BY <1>2, <1>3 DEF startSet, Goto, memory, Frame
  <2>2. QED
    BY <1>1, <2>1, NothingSeen
<1>4. CASE setBit(t)
  <2>1. /\ pc[t] = "touch" /\ f.op = "set" /\ pc'[t] \in {"count", "return"}
        /\ bits' = bits \cup {f.slot} /\ g.op = f.op /\ f.slot \in Slots
    BY <1>2, <1>4 DEF setBit, Goto, Frame, CallFits
  <2>2. Seen(t) = Answered!SlotCall("set", f.slot) /\ Seen(t)' = Answered!Done
    BY <2>1, WhatIsSeen DEF Seen
  <2>3. \A u \in Threads \ {t} : Seen(u)' = Seen(u)
    BY <1>1, <2>1, OthersSeenSame
  <2>4. QED
    BY <2>1, <2>2, <2>3, SetStepIs DEF SetStep
<1>5. CASE testBit(t)
  <2>1. /\ pc[t] = "touch" /\ f.op = "test" /\ pc'[t] = "return"
        /\ bits' = bits /\ g.op = f.op /\ f.slot \in Slots /\ g.present = (f.slot \in bits)
    BY <1>2, <1>5 DEF testBit, Goto, Frame, CallFits, memory
  <2>2. Seen(t) = Answered!SlotCall("test", f.slot) /\ Seen(t)' = Answered!Answer(f.slot \in bits)
    BY <2>1, WhatIsSeen DEF Seen
  <2>3. \A u \in Threads \ {t} : Seen(u)' = Seen(u)
    BY <1>1, <2>1, OthersSeenSame
  <2>4. QED
    BY <2>1, <2>2, <2>3, SetStepIs DEF SetStep
<1>6. CASE startOther(t)
  <2>1. /\ pc[t] = "start" /\ f.op \in {"clear", "test"} /\ bits' = bits /\ g = f
        /\ f.slot \in Slots /\ f.present = FALSE
        /\ pc'[t] = IF WordOf(f.slot) < wordCount THEN "touch" ELSE "return"
    BY <1>2, <1>6 DEF startOther, Goto, CallFits, memory
  <2>2. CASE WordOf(f.slot) < wordCount
    BY <1>1, <2>1, <2>2, NothingSeen
  <2>3. CASE ~(WordOf(f.slot) < wordCount)
    <3>1. f.slot \notin bits /\ pc'[t] = "return"
      BY <1>2, <2>1, <2>3
    <3>2. CASE f.op = "test"
      <4>1. /\ Seen(t) = Answered!SlotCall("test", f.slot)
            /\ Seen(t)' = Answered!Answer(f.present)
        BY <2>1, <3>1, <3>2, WhatIsSeen DEF Seen
      <4>2. \A u \in Threads \ {t} : Seen(u)' = Seen(u)
        BY <1>1, <2>1, OthersSeenSame
      <4>3. f.present = (f.slot \in bits)
        <5>1. \A s, S : s \notin S => FALSE = (s \in S)
          OBVIOUS
        <5>2. FALSE = (f.slot \in bits) /\ f.present = FALSE
          BY <2>1, <3>1, <5>1
        <5> HIDE DEF f
        <5>3. QED
          BY <5>2, Zenon
      <4>4. QED
        BY <2>1, <4>1, <4>2, <4>3, SetStepIs DEF SetStep
    <3>3. CASE f.op = "clear"
      <4>1. Seen(t) = Answered!SlotCall("clear", f.slot) /\ Seen(t)' = Answered!Done
        BY <2>1, <3>1, <3>3, WhatIsSeen DEF Seen
      <4>2. bits' = bits \ {f.slot} /\ bits \cap {f.slot} = bits \ bits'
        BY <2>1, <3>1
      <4>3. OthersForget(t, {f.slot})
        BY <1>1, <4>2, OthersSeen
      <4>4. SetStepForgetting(t, {f.slot})
        BY <2>1, <4>1 DEF SetStepForgetting
      <4>5. QED
        BY <4>2, <4>3, <4>4, ForgettingStepIs
    <3>4. QED
      BY <2>1, <3>2, <3>3
  <2>4. QED
    BY <2>2, <2>3
<1>7. QED
  BY <1>3, <1>4, <1>5, <1>6

LEMMA clearBitImplements ==
  ASSUME BitmapInv, NEW t \in Threads, clearBit(t)
  PROVE  Answered!Next
<1> DEFINE s == frame[t].slot
           h == Forgotten({s})
<1>1. BitmapInv' /\ OthersKeep(t)
  BY clearBitFits
<1>2. /\ frame \in [Threads -> Frame] /\ DOMAIN pc = Threads /\ s \in Slots
  BY DEF clearBit, BitmapInv, BitmapTypeOK, ThreadFits, CallFits
<1>3. h \in [Threads -> Frame] /\ h[t].op = frame[t].op
  BY <1>2, ForgottenFields
<1>4. /\ pc[t] = "touch" /\ frame[t].op = "clear" /\ bits' = bits \ {s}
      /\ pc'[t] \in {"count", "return"} /\ frame' = [h EXCEPT ![t].change = -1]
  BY <1>2 DEF clearBit, Goto
<1> HIDE DEF h
<1>5. frame'[t].op = "clear"
  BY <1>3, <1>4 DEF Frame
<1>6. Seen(t) = Answered!SlotCall("clear", s) /\ Seen(t)' = Answered!Done
  BY <1>4, <1>5, WhatIsSeen DEF Seen
<1> HIDE DEF s
<1>7. OthersForget(t, {s})
  <2>1. bits \cap {s} = bits \ bits'
    BY <1>4
  <2>2. QED
    BY <1>1, <2>1, OthersSeen
<1>8. SetStepForgetting(t, {s})
  BY <1>2, <1>6 DEF SetStepForgetting
<1>9. QED
  BY <1>4, <1>7, <1>8, ForgettingStepIs

LEMMA clearWordImplements ==
  ASSUME BitmapInv, NEW t \in Threads, clearWord(t)
  PROVE  Answered!Next
<1> DEFINE some == bits \cap SlotsOf(frame[t].index)
           due == frame[t].due
           h == Forgotten(some)
           n == -Cardinality(some)
<1>1. BitmapInv' /\ OthersKeep(t)
  BY clearWordFits
<1>2. /\ frame \in [Threads -> Frame] /\ some \in SUBSET Slots /\ some \in SUBSET bits
      /\ due \in SUBSET Slots
  BY DEF BitmapInv, BitmapTypeOK, Frame
<1>3. h \in [Threads -> Frame] /\ h[t].op = frame[t].op /\ h[t].due = due \ some
  BY <1>2, ForgottenFields
<1>4. /\ frame[t].op = "clearAll" /\ bits' = bits \ some
      /\ frame' = [h EXCEPT ![t].change = n]
  BY DEF clearWord
<1> HIDE DEF h, n, some, due
<1>5. frame'[t].op = "clearAll" /\ frame'[t].due = due \ some
  BY <1>3, <1>4 DEF Frame
<1>6. /\ Seen(t) = Answered!SweepCall("clearAll", due)
      /\ Seen(t)' = Answered!SweepCall("clearAll", due \ some)
  BY <1>4, <1>5, WhatIsSeen DEF Seen, Sweeps, due
<1>7. OthersForget(t, some)
  <2>1. bits \cap some = bits \ bits'
    BY <1>2, <1>4
  <2>2. QED
    BY <1>1, <2>1, OthersSeen
<1>8. SetStepForgetting(t, some)
  BY <1>2, <1>6 DEF SetStepForgetting
<1>9. QED
  BY <1>4, <1>7, <1>8, ForgettingStepIs

LEMMA SweepsImplement ==
  ASSUME BitmapInv, NEW t \in Threads, startSweep(t) \/ visitWord(t) \/ count(t)
  PROVE  [Answered!Next]_(Answered!setVars)
<1> DEFINE f == frame[t]
           g == frame'[t]
<1>1. BitmapInv' /\ OthersKeep(t)
  BY startSweepFits, visitWordFits, countFits
<1>2. frame \in [Threads -> Frame] /\ DOMAIN pc = Threads /\ CallFits(t)
  BY DEF BitmapInv, BitmapTypeOK, ThreadFits
<1>3. CASE startSweep(t)
  <2>1. /\ f.op \in Sweeps /\ bits' = bits
        /\ g.op = f.op /\ g.slot = f.slot /\ g.due = f.due /\ g.present = f.present
    BY <1>2, <1>3 DEF startSweep, memory, Frame
  <2>2. f.op \notin {"set", "clear", "test"}
    BY <2>1 DEF Sweeps
  <2>3. QED
    BY <1>1, <2>1, <2>2, NothingSeen
<1>4. CASE visitWord(t)
  <2> DEFINE some == bits \cap SlotsOf(f.index)
  <2>1. /\ f.op = "forEachSetBit" /\ bits' = bits /\ g.op = f.op /\ g.due = f.due \ some
        /\ f.due \in SUBSET Slots
    BY <1>2, <1>4 DEF visitWord, memory, Frame
  <2>2. /\ Seen(t) = Answered!SweepCall("forEachSetBit", f.due)
        /\ Seen(t)' = Answered!SweepCall("forEachSetBit", f.due \ some)
    BY <2>1, WhatIsSeen DEF Seen, Sweeps
  <2>3. \A u \in Threads \ {t} : Seen(u)' = Seen(u)
    BY <1>1, <2>1, OthersSeenSame
  <2>4. some \in SUBSET bits
    OBVIOUS
  <2> HIDE DEF some, f
  <2>5. SetStep(t)
    BY <2>1, <2>2, <2>4 DEF SetStep
  <2>6. QED
    BY <2>3, <2>5, SetStepIs
<1>5. CASE count(t)
  <2>1. /\ pc[t] = "count" /\ f.op \in {"set", "clear", "clearAll"} /\ bits' = bits
        /\ f.op # "clearAll" => pc'[t] = "return"
        /\ g.op = f.op /\ g.slot = f.slot /\ g.due = f.due /\ g.present = f.present
    BY <1>2, <1>5 DEF count, Goto, CallFits, Frame
  <2>2. QED
    BY <1>1, <2>1, NothingSeen
<1>6. QED
  BY <1>3, <1>4, <1>5

(* However its words are grown, shared and swept, the bitmap is a set to its *)
(* callers: each step is a step of SlotSet, or one they cannot see.           *)
THEOREM BitmapImplementsSlotSet == BitmapSpec => ImplementsSlotSet
<1>1. BitmapInit => Answered!Init
  <2> SUFFICES ASSUME BitmapInit PROVE Answered!Init
    OBVIOUS
  <2>1. \A t \in Threads : CallSeen(frame[t], pc[t]) = Answered!Idle
    BY NoFrameFields, WhatIsSeen DEF BitmapInit
  <2>2. QED
    BY <2>1 DEF BitmapInit, Answered!Init
<1>2. ASSUME BitmapInv, [BitmapNext]_bitmapVars PROVE [Answered!Next]_(Answered!setVars)
  <2>1. CASE UNCHANGED bitmapVars
    BY <2>1 DEF bitmapVars, Answered!setVars
  <2>2. CASE BitmapNext
    <3>1. ASSUME NEW t \in Threads, clearBit(t) \/ clearWord(t)
          PROVE  Answered!Next
      BY <1>2, <3>1, clearBitImplements, clearWordImplements
    <3>2. QED
      BY <1>2, <2>2, <3>1, CallImplements, ReturnImplements, GrowthImplements,
         SlotStepsImplement, SweepsImplement DEF BitmapNext
  <2>3. QED
    BY <1>2, <2>1, <2>2
<1>3. QED
  BY <1>1, <1>2, BitmapInvariant, PTL DEF BitmapSpec, ImplementsSlotSet, Answered!Spec
=============================================================================
