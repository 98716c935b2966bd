----------------------------- MODULE SlotBitmap -----------------------------
(***************************************************************************)
(* Entitys/SlotBitmap.hpp: a growing array of atomic words, one bit a slot, *)
(* in pages that are never moved.  Any number of threads set, clear, test,  *)
(* sweep and grow it at once; every atomic operation of the code is a step. *)
(***************************************************************************)
EXTENDS Integers, SequencesExt

CONSTANTS
  Threads,
  Slots,         \* the slots threads use
  Reservations,  \* the arguments of reserveSlots
  WordBits,      \* bits in a word: 64 in the code
  MaxWords       \* MAX_WORD_COUNT: 2^26 in the code

ASSUME BitmapAssumptions ==
  /\ WordBits \in Nat \ {0}
  /\ MaxWords \in Nat \ {0}
  /\ Slots \subseteq 0 .. MaxWords * WordBits - 1
  /\ Reservations \subseteq 0 .. MaxWords * WordBits

VARIABLES
  pages,        \* _words: the pages that exist
  bits,         \* the slots whose bit is one
  wordCount,    \* _wordCount
  setBitCount,  \* _setBitCount
  pc,           \* what each thread does next
  frame         \* the local variables of each thread's call

bitmapVars == <<pages, bits, wordCount, setBitCount, pc, frame>>
memory == <<pages, bits, wordCount, setBitCount>>

Sweeps == {"clearAll", "forEachSetBit"}

(* current: the loaded word count; target: the word count wanted; index: a  *)
(* page or a word; change: what the bit count is due; due (history): the     *)
(* slots set when a sweep began that nobody has cleared since.               *)
NoFrame == [op |-> "none", slot |-> 0, current |-> 0, target |-> 0, index |-> 0,
            change |-> 0, present |-> FALSE, due |-> {}]

Frame ==
  [op : {"none", "set", "clear", "test", "reserve"} \cup Sweeps,
   slot : Slots \cup {0}, current : 0 .. MaxWords, target : 0 .. MaxWords,
   index : 0 .. MaxWords, change : Int, present : BOOLEAN, due : SUBSET Slots]

(* std::bit_width. *)
BitWidth(n) == CHOOSE w \in 0 .. n : n < 2 ^ w /\ (w = 0 \/ 2 ^ (w - 1) <= n)

WordOf(slot) == slot \div WordBits
PageOf(word) == BitWidth(word)
SlotsOf(word) == {s \in Slots : WordOf(s) = word}
WordsFor(slotCount) == (slotCount + WordBits - 1) \div WordBits

BitmapInit ==
  /\ pages = {}
  /\ bits = {}
  /\ wordCount = 0
  /\ setBitCount = 0
  /\ pc = [t \in Threads |-> "idle"]
  /\ frame = [t \in Threads |-> NoFrame]

Goto(t, label) == pc' = [pc EXCEPT ![t] = label]

(* The call takes its arguments and sees how many words there are. *)
Enter(t, f, label) ==
  /\ pc[t] = "idle"
  /\ frame' = [frame EXCEPT ![t] = f]
  /\ Goto(t, label)
  /\ UNCHANGED memory

callOnSlot(t, op, s) == Enter(t, [NoFrame EXCEPT !.op = op, !.slot = s], "start")

callSweep(t, op) == Enter(t, [NoFrame EXCEPT !.op = op, !.due = bits], "start")

reserveSlots(t, n) ==
  Enter(t, [NoFrame EXCEPT !.op = "reserve", !.target = WordsFor(n)], "ensure")

return(t) ==
  /\ pc[t] = "return"
  /\ frame' = [frame EXCEPT ![t] = NoFrame]
  /\ Goto(t, "idle")
  /\ UNCHANGED memory

-----------------------------------------------------------------------------
(* ensureWordCount. *)

(* Mutant: the last page is that of the largest power of two below count. *)
LastPageRoundedDown(count) == BitWidth(count) - 1

FirstPage(current) == IF current = 0 THEN 0 ELSE PageOf(current - 1)
LastPage(count) == PageOf(count - 1)

AfterEnsure(t) == IF frame[t].op = "set" THEN "touch" ELSE "return"

ensureWordCount(t) ==
  /\ pc[t] = "ensure"
  /\ frame' = [frame EXCEPT ![t].current = wordCount, ![t].index = FirstPage(wordCount)]
  /\ Goto(t, IF frame[t].target <= wordCount THEN AfterEnsure(t) ELSE "page")
  /\ UNCHANGED memory

NextPage(t) ==
  LET f == frame[t] IN
    IF f.index < LastPage(f.target)
    THEN frame' = [frame EXCEPT ![t].index = @ + 1] /\ Goto(t, "page")
    ELSE UNCHANGED frame /\ Goto(t, "publish")

pageExists(t) ==
  /\ pc[t] = "page"
  /\ frame[t].index \in pages
  /\ NextPage(t)
  /\ UNCHANGED memory

pageMissing(t) ==
  /\ pc[t] = "page"
  /\ frame[t].index \notin pages
  /\ Goto(t, "install")
  /\ UNCHANGED <<memory, frame>>

(* Mutant: the new page is stored, not exchanged for a null pointer. *)
storePage(t) ==
  /\ pc[t] = "install"
  /\ pages' = pages \cup {frame[t].index}
  /\ bits' = {s \in bits : PageOf(WordOf(s)) # frame[t].index}
  /\ NextPage(t)
  /\ UNCHANGED <<wordCount, setBitCount>>

(* The page of whoever installed it first is kept. *)
installPage(t) ==
  /\ pc[t] = "install"
  /\ pages' = pages \cup {frame[t].index}
  /\ NextPage(t)
  /\ UNCHANGED <<bits, wordCount, setBitCount>>

publish(t) ==
  /\ pc[t] = "publish"
  /\ wordCount = frame[t].current
  /\ wordCount' = frame[t].target
  /\ Goto(t, AfterEnsure(t))
  /\ UNCHANGED <<pages, bits, setBitCount, frame>>

publishFails(t) ==
  /\ pc[t] = "publish"
  /\ frame' = [frame EXCEPT ![t].current = wordCount]
  /\ Goto(t, IF wordCount < frame[t].target THEN "publish" ELSE AfterEnsure(t))
  /\ UNCHANGED memory

-----------------------------------------------------------------------------
(* set, clear and test. *)

(* Doubling, up to the last word there can be. *)
GrownWordCount(word) == Min({MaxWords, Max({word + 1, 2 * wordCount})})

startSet(t) ==
  LET word == WordOf(frame[t].slot) IN
    /\ pc[t] = "start"
    /\ frame[t].op = "set"
    /\ IF word < wordCount
       THEN Goto(t, "touch") /\ UNCHANGED frame
       ELSE /\ Goto(t, "ensure")
            /\ frame' = [frame EXCEPT ![t].target = GrownWordCount(word)]
    /\ UNCHANGED memory

(* Slots beyond the words there are count as unset. *)
startOther(t) ==
  /\ pc[t] = "start"
  /\ frame[t].op \in {"clear", "test"}
  /\ Goto(t, IF WordOf(frame[t].slot) < wordCount THEN "touch" ELSE "return")
  /\ UNCHANGED <<memory, frame>>

setBit(t) ==
  LET s == frame[t].slot IN
    /\ pc[t] = "touch"
    /\ frame[t].op = "set"
    /\ bits' = bits \cup {s}
    /\ frame' = [frame EXCEPT ![t].change = 1]
    /\ Goto(t, IF s \in bits THEN "return" ELSE "count")
    /\ UNCHANGED <<pages, wordCount, setBitCount>>

(* frame after t clears the slots, as far as sweeps are concerned. *)
Forgotten(cleared) == [u \in Threads |-> [frame[u] EXCEPT !.due = @ \ cleared]]

(* Mutant: the count is lowered whether or not the bit was one. *)
AnyBit(s) == TRUE
WasSet(s) == s \in bits

clearBit(t) ==
  LET s == frame[t].slot IN
    /\ pc[t] = "touch"
    /\ frame[t].op = "clear"
    /\ bits' = bits \ {s}
    /\ frame' = [Forgotten({s}) EXCEPT ![t].change = -1]
    /\ Goto(t, IF WasSet(s) THEN "count" ELSE "return")
    /\ UNCHANGED <<pages, wordCount, setBitCount>>

testBit(t) ==
  /\ pc[t] = "touch"
  /\ frame[t].op = "test"
  /\ frame' = [frame EXCEPT ![t].present = frame[t].slot \in bits]
  /\ Goto(t, "return")
  /\ UNCHANGED memory

-----------------------------------------------------------------------------
(* forEachSetBit and clearAll. *)

startSweep(t) ==
  /\ pc[t] = "start"
  /\ frame[t].op \in Sweeps
  /\ frame' = [frame EXCEPT ![t].current = wordCount]
  /\ Goto(t, IF wordCount = 0 THEN "return" ELSE "sweep")
  /\ UNCHANGED memory

AfterWord(t) == IF frame[t].index + 1 < frame[t].current THEN "sweep" ELSE "return"

visitWord(t) ==
  /\ pc[t] = "sweep"
  /\ frame[t].op = "forEachSetBit"
  /\ frame' = [frame EXCEPT ![t].index = @ + 1,
                            ![t].due = @ \ (bits \cap SlotsOf(frame[t].index))]
  /\ Goto(t, AfterWord(t))
  /\ UNCHANGED memory

clearWord(t) ==
  LET previous == bits \cap SlotsOf(frame[t].index) IN
    /\ pc[t] = "sweep"
    /\ frame[t].op = "clearAll"
    /\ bits' = bits \ previous
    /\ frame' = [Forgotten(previous) EXCEPT ![t].change = -Cardinality(previous)]
    /\ Goto(t, "count")
    /\ UNCHANGED <<pages, wordCount, setBitCount>>

(* The count follows the bits, in a step of its own. *)
count(t) ==
  /\ pc[t] = "count"
  /\ setBitCount' = setBitCount + frame[t].change
  /\ IF frame[t].op = "clearAll"
     THEN /\ frame' = [frame EXCEPT ![t].index = @ + 1, ![t].change = 0]
          /\ Goto(t, AfterWord(t))
     ELSE UNCHANGED frame /\ Goto(t, "return")
  /\ UNCHANGED <<pages, bits, wordCount>>

BitmapNext ==
  \E t \in Threads :
    \/ \E op \in {"set", "clear", "test"}, s \in Slots : callOnSlot(t, op, s)
    \/ \E op \in Sweeps : callSweep(t, op)
    \/ \E n \in Reservations : reserveSlots(t, n)
    \/ ensureWordCount(t) \/ pageExists(t) \/ pageMissing(t) \/ installPage(t)
    \/ publish(t) \/ publishFails(t)
    \/ startSet(t) \/ startOther(t) \/ setBit(t) \/ clearBit(t) \/ testBit(t)
    \/ startSweep(t) \/ visitWord(t) \/ clearWord(t) \/ count(t) \/ return(t)

BitmapSpec == BitmapInit /\ [][BitmapNext]_bitmapVars

-----------------------------------------------------------------------------
(* Types of the state. *)
BitmapTypeOK ==
  /\ pages \subseteq 0 .. BitWidth(MaxWords)
  /\ bits \subseteq Slots
  /\ wordCount \in 0 .. MaxWords
  /\ setBitCount \in Int
  /\ pc \in [Threads -> {"idle", "start", "ensure", "page", "install", "publish",
                         "touch", "sweep", "count", "return"}]
  /\ frame \in [Threads -> Frame]

(* Where a thread goes through the page table to a word, and to which. *)
Touches(t, word) ==
  \/ pc[t] = "touch" /\ word = WordOf(frame[t].slot)
  \/ pc[t] = "sweep" /\ word = frame[t].index

(* However threads grow the bitmap at once, a published word has its page:  *)
(* nobody goes through a null page to a bit, and a slot whose bit is one is  *)
(* within the words that clear, test and the joins look at.                  *)
PagesBackWords ==
  /\ \A word \in 0 .. wordCount - 1 : PageOf(word) \in pages
  /\ \A t \in Threads, word \in 0 .. MaxWords : Touches(t, word) => word < wordCount
  /\ \A s \in bits : WordOf(s) < wordCount

(* What threads have still to add to the count (sign 1) or to take from it  *)
(* (sign -1), a pair for each.                                               *)
Owed(sign) ==
  UNION {{t} \X (1 .. sign * frame[t].change) : t \in {u \in Threads : pc[u] = "count"}}

(* The count is what the bits say and the changes still under way account   *)
(* for the rest: it may lag, and even be negative, but it settles.  (A view  *)
(* that reads zero skips its iteration.)                                     *)
CountSettles ==
  setBitCount + Cardinality(Owed(1)) = Cardinality(bits) + Cardinality(Owed(-1))

(* setBitCount() itself never reports less than nothing. *)
ReportedCount == Max({0, setBitCount})

(* What a call at some place has still to do, to its caller. *)
CallSeen(f, place) ==
  CASE f.op \in {"none", "reserve"} -> [op |-> "idle"]
    [] f.op \in Sweeps -> [op |-> f.op, due |-> f.due]
    [] f.op = "test" /\ place = "return" -> [op |-> "answer", present |-> f.present]
    [] f.op \in {"set", "clear"} /\ place \in {"count", "return"} -> [op |-> "done"]
    [] OTHER -> [op |-> f.op, slot |-> f.slot]

Answered == INSTANCE SlotSet WITH
  members <- bits,
  calls <- [t \in Threads |-> CallSeen(frame[t], pc[t])]

(* To its callers the bitmap is a set (SlotSet), growth or no growth: set,   *)
(* clear and test act at one instant inside the call, and a sweep reaches    *)
(* every slot that was set before it began and stayed so.                    *)
ImplementsSlotSet == Answered!Spec
=============================================================================
