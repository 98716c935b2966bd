---------------------------- MODULE OperatorLemmas ----------------------------
(***************************************************************************)
(* What the library's operators return that several modules use, by length  *)
(* and elements: push, pop and replacement at the end of a sequence (the     *)
(* call stacks), removal in its middle (the lists of systems), the least of  *)
(* a set of numbers, and remainders near the modulus.                        *)
(***************************************************************************)
EXTENDS SequencesExt, SequenceTheorems, WellFoundedInduction, TLAPS

(* The last element and what is before it. *)
LEMMA FrontLast ==
  ASSUME NEW S, NEW s \in Seq(S), s # <<>>
  PROVE  /\ Len(s) \in Nat \ {0}
         /\ Last(s) = s[Len(s)] /\ Last(s) \in S
         /\ Front(s) \in Seq(S)
         /\ Len(Front(s)) = Len(s) - 1
         /\ \A i \in 1 .. Len(s) - 1 : Front(s)[i] = s[i]
<1> DEFINE n == Len(s)
<1>1. n \in Nat \ {0}
  BY EmptySeq
<1>2. Last(s) = s[n] /\ s[n] \in S
  BY <1>1, ElementOfSeq DEF Last
<1>3. \A i \in 1 .. n - 1 : s[i] \in S
  BY <1>1, ElementOfSeq
<1>4. /\ SubSeq(s, 1, n - 1) \in Seq(S)
      /\ Len(SubSeq(s, 1, n - 1)) = IF 1 <= n - 1 THEN (n - 1) - 1 + 1 ELSE 0
      /\ \A i \in 1 .. (n - 1) - 1 + 1 : SubSeq(s, 1, n - 1)[i] = s[1 + i - 1]
  BY <1>1, <1>3, SubSeqProperties
<1>5. \A k \in Nat \ {0} : (IF 1 <= k - 1 THEN (k - 1) - 1 + 1 ELSE 0) = k - 1
  OBVIOUS
<1>6. Len(SubSeq(s, 1, n - 1)) = n - 1
  BY <1>1, <1>4, <1>5, Zenon
<1>7. \A i \in 1 .. n - 1 : i \in 1 .. (n - 1) - 1 + 1 /\ 1 + i - 1 = i
  BY <1>1
<1>8. \A i \in 1 .. n - 1 : SubSeq(s, 1, n - 1)[i] = s[i]
  BY <1>4, <1>7
<1>9. QED
  BY <1>1, <1>2, <1>4, <1>6, <1>8 DEF Front

LEMMA Pushed ==
  ASSUME NEW S, NEW s \in Seq(S), NEW x \in S
  PROVE  /\ Len(s) \in Nat
         /\ Append(s, x) \in Seq(S)
         /\ Append(s, x) # <<>>
         /\ Len(Append(s, x)) = Len(s) + 1
         /\ \A i \in 1 .. Len(s) : Append(s, x)[i] = s[i]
         /\ Append(s, x)[Len(s) + 1] = x
BY AppendProperties, LenProperties

(* The last element replaced. *)
LEMMA Replaced ==
  ASSUME NEW S, NEW s \in Seq(S), s # <<>>, NEW x \in S
  PROVE  /\ Len(s) \in Nat \ {0}
         /\ Append(Front(s), x) \in Seq(S)
         /\ Append(Front(s), x) # <<>>
         /\ Len(Append(Front(s), x)) = Len(s)
         /\ \A i \in 1 .. Len(s) - 1 : Append(Front(s), x)[i] = s[i]
         /\ Append(Front(s), x)[Len(s)] = x
<1>1. /\ Front(s) \in Seq(S) /\ Len(s) \in Nat \ {0} /\ Len(Front(s)) = Len(s) - 1
      /\ \A i \in 1 .. Len(s) - 1 : Front(s)[i] = s[i]
  BY FrontLast
<1>2. /\ Append(Front(s), x) \in Seq(S)
      /\ Append(Front(s), x) # <<>>
      /\ Len(Append(Front(s), x)) = (Len(s) - 1) + 1
      /\ \A i \in 1 .. Len(s) - 1 : Append(Front(s), x)[i] = Front(s)[i]
      /\ Append(Front(s), x)[(Len(s) - 1) + 1] = x
  BY <1>1, Pushed
<1>3. (Len(s) - 1) + 1 = Len(s)
  BY <1>1
<1>4. QED
  BY <1>1, <1>2, <1>3

(* Erasing the element at an index moves the later ones down. *)
LEMMA Removed ==
  ASSUME NEW S, NEW s \in Seq(S), NEW i \in 1 .. Len(s)
  PROVE  /\ Len(s) \in Nat
         /\ RemoveAt(s, i) \in Seq(S)
         /\ Len(RemoveAt(s, i)) = Len(s) - 1
         /\ \A j \in 1 .. Len(s) - 1 :
              RemoveAt(s, i)[j] = IF j < i THEN s[j] ELSE s[j + 1]
<1> DEFINE n == Len(s)
           a == SubSeq(s, 1, i - 1)
           b == SubSeq(s, i + 1, n)
<1>1. n \in Nat /\ i \in 1 .. n /\ \A j \in 1 .. n : s[j] \in S
  BY LenProperties, ElementOfSeq
<1>2. /\ a \in Seq(S)
      /\ Len(a) = IF 1 <= i - 1 THEN (i - 1) - 1 + 1 ELSE 0
      /\ \A j \in 1 .. (i - 1) - 1 + 1 : a[j] = s[1 + j - 1]
  <2>1. \A j \in 1 .. i - 1 : s[j] \in S
    BY <1>1
  <2>2. QED
    BY <1>1, <2>1, SubSeqProperties
<1>3. /\ b \in Seq(S)
      /\ Len(b) = IF i + 1 <= n THEN n - (i + 1) + 1 ELSE 0
      /\ \A j \in 1 .. n - (i + 1) + 1 : b[j] = s[(i + 1) + j - 1]
  <2>1. \A j \in i + 1 .. n : s[j] \in S
    BY <1>1
  <2>2. QED
    BY <1>1, <2>1, SubSeqProperties
<1>4. Len(a) = i - 1
  <2>1. \A k \in Nat \ {0} : (IF 1 <= k - 1 THEN (k - 1) - 1 + 1 ELSE 0) = k - 1
    OBVIOUS
  <2>2. QED
    BY <1>1, <1>2, <2>1
<1>5. Len(b) = n - i
  <2>1. (IF i + 1 <= n THEN n - (i + 1) + 1 ELSE 0) = n - i
    BY <1>1
  <2>2. QED
    BY <1>3, <2>1
<1> HIDE DEF a, b
<1>6. /\ a \o b \in Seq(S)
      /\ Len(a \o b) = Len(a) + Len(b)
      /\ \A j \in 1 .. Len(a) + Len(b) :
           (a \o b)[j] = IF j <= Len(a) THEN a[j] ELSE b[j - Len(a)]
  BY <1>2, <1>3, ConcatProperties
<1>7. Len(a \o b) = n - 1
  BY <1>1, <1>4, <1>5, <1>6
<1>8. ASSUME NEW j \in 1 .. n - 1
      PROVE  (a \o b)[j] = IF j < i THEN s[j] ELSE s[j + 1]
  <2>1. j \in 1 .. Len(a) + Len(b)
    BY <1>1, <1>4, <1>5
  <2>2. CASE j < i
    <3>1. j <= Len(a) /\ j \in 1 .. (i - 1) - 1 + 1 /\ 1 + j - 1 = j
      BY <1>1, <1>4, <2>2
    <3>2. QED
      BY <1>2, <1>6, <2>1, <2>2, <3>1
  <2>3. CASE ~(j < i)
    <3>1. ~(j <= Len(a)) /\ j - Len(a) \in 1 .. n - (i + 1) + 1
      BY <1>1, <1>4, <2>3
    <3>2. (i + 1) + (j - Len(a)) - 1 = j + 1
      BY <1>1, <1>4
    <3>3. QED
      BY <1>3, <1>6, <2>1, <2>3, <3>1, <3>2
  <2>4. QED
    BY <2>2, <2>3
<1>9. QED
  BY <1>1, <1>6, <1>7, <1>8 DEF RemoveAt, a, b

(* A set of numbers that is not empty has a least one. *)
LEMMA MinOf ==
  ASSUME NEW S \in SUBSET Nat, S # {}
  PROVE  Min(S) \in S /\ \A x \in S : Min(S) <= x
<1> DEFINE R == OpToRel(<, Nat)
<1>1. IsWellFoundedOn(R, Nat)
  BY NatLessThanWellFounded
<1>2. PICK x \in S : \A y \in S : ~(<<y, x>> \in R)
  BY <1>1, WFMin
<1>3. \A y \in S : ~(y < x)
  BY <1>2 DEF OpToRel
<1>4. \A y \in S : x <= y
  BY <1>3
<1>5. QED
  BY <1>4 DEF Min

LEMMA MinOfOne == ASSUME NEW i \in Nat PROVE Min({i}) = i
BY MinOf

(* In a list without repetitions the first occurrence is the only one. *)
LEMMA RemovedFirst ==
  ASSUME NEW S, NEW s \in Seq(S), IsInjective(s), NEW i \in 1 .. Len(s)
  PROVE  RemoveFirst(s, s[i]) = RemoveAt(s, i)
<1>1. DOMAIN s = 1 .. Len(s) /\ i \in Nat
  BY LenProperties
<1>2. {j \in 1 .. Len(s) : s[j] = s[i]} = {i}
  BY <1>1 DEF IsInjective
<1>3. SelectInSeq(s, LAMBDA v : v = s[i]) = i
  BY <1>1, <1>2, MinOfOne DEF SelectInSeq
<1>4. QED
  BY <1>3 DEF RemoveFirst

(* A list stays without repetitions. *)
LEMMA PushedInjective ==
  ASSUME NEW S, NEW s \in Seq(S), IsInjective(s), NEW x \in S,
         \A i \in 1 .. Len(s) : s[i] # x
  PROVE  IsInjective(Append(s, x))
<1> DEFINE a == Append(s, x)
<1>1. /\ Len(s) \in Nat /\ Len(a) = Len(s) + 1 /\ a \in Seq(S)
      /\ \A i \in 1 .. Len(s) : a[i] = s[i]
      /\ a[Len(s) + 1] = x
  BY Pushed
<1> HIDE DEF a
<1>2. DOMAIN a = 1 .. Len(a) /\ DOMAIN s = 1 .. Len(s)
  BY <1>1, LenProperties
<1>3. \A i \in 1 .. Len(a) : i \in 1 .. Len(s) \/ i = Len(s) + 1
  BY <1>1
<1>4. \A i, j \in 1 .. Len(s) : s[i] = s[j] => i = j
  BY <1>2 DEF IsInjective
<1>5. \A i, j \in 1 .. Len(a) : a[i] = a[j] => i = j
  BY <1>1, <1>3, <1>4
<1>6. QED
  BY <1>2, <1>5 DEF IsInjective, a

LEMMA RemovedInjective ==
  ASSUME NEW S, NEW s \in Seq(S), IsInjective(s), NEW i \in 1 .. Len(s)
  PROVE  IsInjective(RemoveAt(s, i))
<1> DEFINE a == RemoveAt(s, i)
           From(j) == IF j < i THEN j ELSE j + 1
<1>1. /\ Len(s) \in Nat /\ Len(a) = Len(s) - 1 /\ a \in Seq(S)
      /\ \A j \in 1 .. Len(s) - 1 : a[j] = IF j < i THEN s[j] ELSE s[j + 1]
  BY Removed
<1> HIDE DEF a
<1>2. DOMAIN a = 1 .. Len(a) /\ DOMAIN s = 1 .. Len(s)
  BY <1>1, LenProperties
<1>3. \A j, k \in 1 .. Len(s) : s[j] = s[k] => j = k
  BY <1>2 DEF IsInjective
<1>4. \A j \in 1 .. Len(a) : From(j) \in 1 .. Len(s) /\ a[j] = s[From(j)]
  BY <1>1
<1>5. \A j, k \in 1 .. Len(a) : From(j) = From(k) => j = k
  BY <1>1
<1> HIDE DEF From
<1>6. \A j, k \in 1 .. Len(a) : a[j] = a[k] => j = k
  BY <1>3, <1>4, <1>5
<1>7. QED
  BY <1>2, <1>6 DEF IsInjective, a

(* Remainders of numbers less than a modulus away from its range. *)
LEMMA Remainder ==
  ASSUME NEW M \in Nat \ {0}
  PROVE  /\ \A x \in 0 .. M - 1 : x % M = x
         /\ \A x \in M .. 2 * M - 1 : x % M = x - M
         /\ \A x \in -M .. -1 : x % M = x + M
OBVIOUS
=============================================================================
