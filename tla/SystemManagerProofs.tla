-------------------------- MODULE SystemManagerProofs --------------------------
(***************************************************************************)
(* Theorems of the two models of SystemManager.  Of ExecutionLayers, for any *)
(* number of systems and declarations: what Kahn's algorithm and the split   *)
(* at write conflicts compute, by induction over the systems, and that the   *)
(* layers in force are that.  Of UpdateLoop, for any managers, systems,      *)
(* layers and lengths of the queues: updates, flushes and systems at work.    *)
(***************************************************************************)
EXTENDS ExecutionLayers, UpdateLoop, OperatorLemmas, FiniteSetTheorems

(* Induction up to N: the least number outside S would follow one inside. *)
LEMMA UpTo ==
  ASSUME NEW N \in Nat, NEW S, 0 \in S, \A n \in 1 .. N : n - 1 \in S => n \in S
  PROVE  0 .. N \subseteq S
<1> DEFINE T == (0 .. N) \ S
<1> SUFFICES ASSUME T # {} PROVE FALSE
  OBVIOUS
<1>1. T \in SUBSET Nat
  OBVIOUS
<1>2. Min(T) \in T /\ \A x \in T : Min(T) <= x
  BY <1>1, MinOf
<1> DEFINE m == Min(T)
<1>3. m \in 0 .. N /\ m \notin S /\ \A x \in T : m <= x
  BY <1>2
<1> HIDE DEF m
<1>4. m \in 1 .. N
  BY <1>3
<1>5. m - 1 \in 0 .. N /\ ~(m <= m - 1)
  BY <1>4
<1>6. m - 1 \in S
  BY <1>3, <1>5
<1>7. QED
  BY <1>3, <1>4, <1>6

(* A function on 0 .. N can be defined from each value to the next. *)
Iterates(N, D, b, G) ==
  \E f \in [0 .. N -> D] : f[0] = b /\ \A n \in 1 .. N : f[n] = G[n][f[n - 1]]

LEMMA Iterated ==
  ASSUME NEW N \in Nat, NEW D, NEW b \in D, NEW G \in [1 .. N -> [D -> D]]
  PROVE  Iterates(N, D, b, G)
<1> DEFINE Goes(f, m) == f[0] = b /\ \A n \in 1 .. m : f[n] = G[n][f[n - 1]]
           S == {m \in 0 .. N : \E f \in [0 .. m -> D] : Goes(f, m)}
<1>1. 0 \in S
  <2> DEFINE f == [n \in 0 .. 0 |-> b]
  <2>1. f \in [0 .. 0 -> D] /\ f[0] = b /\ 1 .. 0 = {}
    OBVIOUS
  <2> HIDE DEF f
  <2>2. Goes(f, 0) /\ 0 \in 0 .. N
    BY <2>1
  <2>3. QED
    BY <2>1, <2>2
<1>2. ASSUME NEW m \in 1 .. N, m - 1 \in S
      PROVE  m \in S
  <2>1. PICK g \in [0 .. m - 1 -> D] : Goes(g, m - 1)
    BY <1>2
  <2> DEFINE f == [n \in 0 .. m |-> IF n = m THEN G[m][g[m - 1]] ELSE g[n]]
  <2>2. /\ m \in Nat /\ m - 1 \in 0 .. m - 1 /\ 0 \in 0 .. m - 1
        /\ \A n \in 0 .. m : n # m => n \in 0 .. m - 1
        /\ \A n \in 1 .. m : n # m => n \in 1 .. m - 1 /\ n - 1 \in 0 .. m - 1 /\ n - 1 # m
        /\ m # 0 /\ m - 1 # m /\ m - 1 \in 0 .. m /\ m \in 0 .. N
        /\ \A n \in 1 .. m : n - 1 \in 0 .. m /\ n \in 0 .. m
    OBVIOUS
  <2>3. G[m][g[m - 1]] \in D
    BY <2>1, <2>2
  <2>4. f \in [0 .. m -> D]
    BY <2>1, <2>2, <2>3
  <2>5. f[m] = G[m][g[m - 1]] /\ \A n \in 0 .. m - 1 : f[n] = g[n]
    BY <2>2
  <2> HIDE DEF f
  <2>6. Goes(f, m)
    <3>1. f[0] = b
      BY <2>1, <2>2, <2>5
    <3>2. ASSUME NEW n \in 1 .. m PROVE f[n] = G[n][f[n - 1]]
      <4>1. CASE n = m
        BY <2>2, <2>5, <4>1
      <4>2. CASE n # m
        <5>1. n \in 1 .. m - 1 /\ n \in 0 .. m - 1 /\ n - 1 \in 0 .. m - 1
          BY <2>2, <4>2
        <5>2. g[n] = G[n][g[n - 1]]
          BY <2>1, <5>1
        <5>3. QED
          BY <2>5, <5>1, <5>2
      <4>3. QED
        BY <4>1, <4>2
    <3>3. QED
      BY <3>1, <3>2
  <2>7. QED
    BY <2>2, <2>4, <2>6
<1>3. N \in S
  <2> HIDE DEF S
  <2>1. 0 .. N \subseteq S
    BY <1>1, <1>2, UpTo
  <2>2. QED
    BY <2>1
<1>4. QED
  BY <1>3 DEF Iterates

-----------------------------------------------------------------------------
(* What resolveExecutionSequence computes.  Kahn's rounds. *)
Size == Len(systemCore)

LEMMA ProcessedIs ==
  ASSUME SchedulingTypeOK
  PROVE  /\ Size \in Nat /\ Indices = 1 .. Size
         /\ Processed \in [0 .. Size -> SUBSET Indices]
         /\ Processed[0] = {}
         /\ \A n \in 1 .. Size :
              Processed[n] = Processed[n - 1] \cup Ready(Processed[n - 1])
<1> DEFINE N == Size
           D == SUBSET Indices
           Next(done) == done \cup Ready(done)
           Body(f) == [n \in 0 .. N |-> IF n = 0 THEN {} ELSE Next(f[n - 1])]
           G == [n \in 1 .. N |-> [done \in D |-> Next(done)]]
           P == CHOOSE f : f = Body(f)
<1>1. N \in Nat /\ Indices = 1 .. N
  BY LenProperties DEF SchedulingTypeOK, Indices, Size
<1>2. Processed = P
  BY DEF Processed, Size
<1>3. \A done \in D : Next(done) \in D
  BY DEF Ready
<1> HIDE DEF Next, D, N
<1>4. /\ G \in [1 .. N -> [D -> D]] /\ {} \in D
      /\ \A n \in 1 .. N, done \in D : G[n][done] = Next(done)
  BY <1>3 DEF D
<1> HIDE DEF G
<1>5. \E f \in [0 .. N -> D] : f[0] = {} /\ \A n \in 1 .. N : f[n] = G[n][f[n - 1]]
  <2>1. Iterates(N, D, {}, G)
    BY <1>1, <1>4, Iterated
  <2>2. QED
    BY <2>1 DEF Iterates
<1> PICK f \in [0 .. N -> D] : f[0] = {} /\ \A n \in 1 .. N : f[n] = G[n][f[n - 1]]
  BY <1>5
<1>6. /\ \A n \in 0 .. N : n # 0 => n \in 1 .. N
      /\ \A n \in 1 .. N : n - 1 \in 0 .. N
  BY <1>1
<1>61. \A n \in 1 .. N : f[n] = Next(f[n - 1])
  BY <1>4, <1>6
<1>62. f = [n \in 0 .. N |-> f[n]] /\ f[0] = {}
  OBVIOUS
<1>7. f = Body(f)
  BY <1>6, <1>61, <1>62
<1>8. P = Body(P)
  BY <1>7
<1> HIDE DEF P
<1>9. /\ P[0] = {} /\ 0 \in 0 .. N
      /\ \A n \in 1 .. N : n \in 0 .. N /\ n # 0
      /\ P = [n \in 0 .. N |-> P[n]]
  BY <1>1, <1>8
<1>10. \A n \in 1 .. N : P[n] = Next(P[n - 1])
  BY <1>8, <1>9
<1> DEFINE S == {n \in 0 .. N : P[n] \in D}
<1>11. 0 \in S
  BY <1>4, <1>9
<1>12. \A n \in 1 .. N : n - 1 \in S => n \in S
  BY <1>3, <1>9, <1>10
<1> HIDE DEF S
<1>13. 0 .. N \subseteq S
  BY <1>1, <1>11, <1>12, UpTo
<1>14. \A n \in 0 .. N : P[n] \in D
  BY <1>13 DEF S
<1>15. P \in [0 .. N -> D]
  BY <1>9, <1>14
<1>16. QED
  BY <1>1, <1>2, <1>9, <1>10, <1>15 DEF D, N, Next

(* typeToIndex names a registered system for a registered type. *)
LEMMA IndexOfIs ==
  ASSUME SchedulingTypeOK, NEW type \in Registered
  PROVE  IndexOf(type) \in Indices
<1> DEFINE N == Size
           T == {N - i : i \in {j \in 1 .. N : systemCore[j] = type}}
<1>1. /\ N \in Nat /\ Indices = 1 .. N /\ DOMAIN systemCore = 1 .. N
  BY ProcessedIs, LenProperties DEF SchedulingTypeOK, Size
<1>2. PICK j \in 1 .. N : systemCore[j] = type
  BY <1>1 DEF Registered, ToSet
<1> HIDE DEF N
<1>3. T \in SUBSET Nat /\ T # {}
  BY <1>1, <1>2
<1>4. Min(T) \in T /\ \A x \in T : Min(T) <= x
  BY <1>3, MinOf
<1>5. PICK i \in 1 .. N : systemCore[i] = type /\ Min(T) = N - i
  BY <1>4
<1>6. ASSUME NEW k \in 1 .. N, systemCore[k] = type PROVE k <= i
  <2>1. N - k \in T
    BY <1>6
  <2>2. N - i <= N - k
    BY <1>4, <1>5, <2>1
  <2>3. QED
    BY <1>1, <2>2
<1>7. QED
  BY <1>1, <1>5, <1>6 DEF IndexOf

LEMMA EdgesBetween ==
  ASSUME SchedulingTypeOK, ~UnknownTarget
  PROVE  \A e \in Edges : e[1] \in Indices /\ e[2] \in Indices /\ e = <<e[1], e[2]>>
<1>1. \A i \in Indices : \A type \in Of(i).before \cup Of(i).after : IndexOf(type) \in Indices
  <2>1. SUFFICES ASSUME NEW i \in Indices, NEW type \in Of(i).before \cup Of(i).after
                 PROVE  type \in Registered
    BY IndexOfIs
  <2>2. systemCore[i] \in Registered
    BY LenProperties DEF SchedulingTypeOK, Indices, Registered, ToSet
  <2>3. QED
    BY <2>2 DEF UnknownTarget, Of
<1>2. \A e \in DataEdges : e[1] \in Indices /\ e[2] \in Indices /\ e = <<e[1], e[2]>>
  BY DEF DataEdges
<1>3. \A e \in BeforeEdges : \E i \in Indices : \E type \in Of(i).before : e = <<i, IndexOf(type)>>
  BY DEF BeforeEdges
<1>4. \A e \in AfterEdges : \E i \in Indices : \E type \in Of(i).after : e = <<IndexOf(type), i>>
  BY DEF AfterEdges
<1>5. QED
  BY <1>1, <1>2, <1>3, <1>4 DEF Edges

(* The round that processes a system. *)
Round == [i \in Indices |-> Min({n \in 0 .. Size : i \in Processed[n]})]

LEMMA RoundIs ==
  ASSUME SchedulingTypeOK, Processed[Size] = Indices
  PROVE  /\ Round \in [Indices -> Indices]
         /\ \A i \in Indices, n \in 0 .. Size : i \in Processed[n] <=> Round[i] <= n
         /\ \A i \in Indices : i \in Ready(Processed[Round[i] - 1])
         /\ \A n \in 1 .. Size : \A i \in Ready(Processed[n - 1]) : Round[i] = n
<1> DEFINE N == Size
           P == Processed
<1>1. /\ N \in Nat /\ Indices = 1 .. N
      /\ P \in [0 .. N -> SUBSET Indices]
      /\ P[0] = {} /\ P[N] = Indices
      /\ \A n \in 1 .. N : P[n] = P[n - 1] \cup Ready(P[n - 1])
  BY ProcessedIs
<1>2. Round = [i \in Indices |-> Min({n \in 0 .. N : i \in P[n]})]
  BY DEF Round
<1>3. \A n \in 1 .. N : n - 1 \in 0 .. N /\ n \in 0 .. N
  BY <1>1
<1> HIDE DEF N, P
<1>4. ASSUME NEW i \in Indices
      PROVE  /\ Round[i] \in 1 .. N /\ i \in P[Round[i]]
             /\ \A n \in 0 .. N : i \in P[n] => Round[i] <= n
  <2> DEFINE R == {n \in 0 .. N : i \in P[n]}
  <2>1. R \in SUBSET Nat /\ N \in R
    BY <1>1
  <2>2. Min(R) \in R /\ \A n \in R : Min(R) <= n
    BY <2>1, MinOf
  <2>3. Min(R) # 0
    BY <1>1, <2>2
  <2>4. Round[i] = Min(R)
    BY <1>2
  <2> HIDE DEF Round
  <2>5. QED
    BY <1>1, <2>2, <2>3, <2>4
<1>5. Round \in [Indices -> Indices]
  <2>1. Round = [i \in Indices |-> Round[i]]
    BY <1>2
  <2>2. QED
    BY <1>1, <1>4, <2>1
(* What a round has processed stays processed. *)
<1>6. ASSUME NEW i \in Indices, NEW n \in 0 .. N, Round[i] <= n PROVE i \in P[n]
  <2> DEFINE S == {k \in 0 .. N : Round[i] <= k => i \in P[k]}
  <2>1. 0 \in S
    BY <1>1, <1>4
  <2>2. ASSUME NEW k \in 1 .. N, k - 1 \in S PROVE k \in S
    <3>1. Round[i] <= k => Round[i] = k \/ Round[i] <= k - 1
      BY <1>1, <1>4
    <3>2. P[k - 1] \subseteq P[k]
      BY <1>1
    <3>3. QED
      BY <1>3, <1>4, <2>2, <3>1, <3>2
  <2> HIDE DEF S
  <2>3. n \in S
    BY <1>1, <2>1, <2>2, UpTo
  <2>4. QED
    BY <1>6, <2>3 DEF S
<1>7. \A i \in Indices, n \in 0 .. N : i \in P[n] <=> Round[i] <= n
  BY <1>4, <1>6
<1>8. ASSUME NEW i \in Indices PROVE i \in Ready(P[Round[i] - 1])
  <2>1. Round[i] \in 1 .. N /\ i \in P[Round[i]] /\ ~(Round[i] <= Round[i] - 1)
    BY <1>1, <1>4
  <2>2. i \notin P[Round[i] - 1]
    BY <1>3, <1>7, <2>1
  <2>3. QED
    BY <1>1, <2>1, <2>2
<1>9. ASSUME NEW n \in 1 .. N, NEW i \in Ready(P[n - 1]) PROVE Round[i] = n
  <2>1. i \in Indices /\ i \notin P[n - 1] /\ i \in P[n]
    BY <1>1, <1>9 DEF Ready
  <2>2. Round[i] <= n /\ ~(Round[i] <= n - 1) /\ Round[i] \in 1 .. N
    BY <1>3, <1>4, <1>7, <2>1
  <2>3. QED
    BY <1>1, <2>2
<1>10. QED
  BY <1>5, <1>7, <1>8, <1>9 DEF N, P

(* The rounds are how deep the systems lie: a system is processed in the     *)
(* round after the last of those it follows.                                  *)
LEMMA RoundIsDepth ==
  ASSUME SchedulingTypeOK, ~UnknownTarget, Processed[Size] = Indices
  PROVE  Round \in Depths
<1> DEFINE N == Size
           P == Processed
<1>1. /\ N \in Nat /\ Indices = 1 .. N
      /\ \A n \in 1 .. N : P[n] = P[n - 1] \cup Ready(P[n - 1])
  BY ProcessedIs
<1>2. /\ Round \in [Indices -> Indices]
      /\ \A i \in Indices, n \in 0 .. N : i \in P[n] <=> Round[i] <= n
      /\ \A i \in Indices : i \in Ready(P[Round[i] - 1])
  BY RoundIs
<1> HIDE DEF N, P, Round
<1>3. \A i \in Indices : Round[i] \in 1 .. N /\ Round[i] - 1 \in 0 .. N
  BY <1>1, <1>2
<1>4. ASSUME NEW i \in Indices, NEW j \in Indices, <<j, i>> \in Edges
      PROVE  Round[j] <= Round[i] - 1
  <2>1. j \in P[Round[i] - 1]
    BY <1>2, <1>4 DEF Ready
  <2>2. QED
    BY <1>2, <1>3, <2>1
<1>5. \A edge \in Edges : Round[edge[1]] < Round[edge[2]]
  <2>1. SUFFICES ASSUME NEW edge \in Edges PROVE Round[edge[1]] < Round[edge[2]]
    OBVIOUS
  <2>2. edge[1] \in Indices /\ edge[2] \in Indices /\ <<edge[1], edge[2]>> \in Edges
    BY EdgesBetween
  <2>3. Round[edge[1]] <= Round[edge[2]] - 1
    BY <1>4, <2>2
  <2>4. QED
    BY <1>1, <1>3, <2>2, <2>3
<1>6. ASSUME NEW i \in Indices, Round[i] # 1
      PROVE  \E j \in Indices : <<j, i>> \in Edges /\ Round[j] = Round[i] - 1
  <2> DEFINE n == Round[i] - 1
  <2>1. n \in 1 .. N /\ n - 1 \in 0 .. N /\ ~(Round[i] <= n)
        /\ Round[i] = n + 1 /\ n \in 0 .. N
    BY <1>1, <1>3, <1>6
  <2> HIDE DEF n
  <2>2. i \notin P[n] /\ i \notin P[n - 1] /\ i \notin Ready(P[n - 1])
    BY <1>1, <1>2, <2>1
  <2>3. PICK j \in Indices : <<j, i>> \in Edges /\ j \notin P[n - 1]
    BY <2>2 DEF Ready
  <2>4. ~(Round[j] <= n - 1) /\ Round[j] <= n
    BY <1>2, <1>4, <2>1, <2>3 DEF n
  <2>5. Round[j] = n
    BY <1>1, <1>3, <2>1, <2>4
  <2>6. QED
    BY <2>3, <2>5 DEF n
<1>7. QED
  BY <1>2, <1>5, <1>6 DEF Depths

-----------------------------------------------------------------------------
(* The split of a layer. *)

(* q holds the systems of L, each once, none with one that writes the same;  *)
(* each sublayer before its own has an earlier system it conflicts with.      *)
Sublayers(q, L) ==
  /\ q \in Seq(SUBSET Indices)
  /\ \A i \in Indices : i \in L <=> \E s \in 1 .. Len(q) : i \in q[s]
  /\ \A s, r \in 1 .. Len(q) : s # r => q[s] \cap q[r] = {}
  /\ \A s \in 1 .. Len(q) : \A i, j \in q[s] : i # j => Of(i).writes \cap Of(j).writes = {}
  /\ \A r, s \in 1 .. Len(q) : r < s =>
       \A i \in q[s] : \E j \in q[r] : j < i /\ Of(j).writes \cap Of(i).writes # {}

LEMMA OpenIs ==
  ASSUME NEW layer, NEW i
  PROVE  Open(layer, i) <=> \A j \in layer : Of(i).writes \cap Of(j).writes = {}
BY DEF Open, WritesOf

LEMMA PlaceAdds ==
  ASSUME NEW L, NEW q, Sublayers(q, L), NEW i \in Indices, i \notin L,
         \A j \in L : j < i
  PROVE  Sublayers(Place(q, i), L \cup {i})
<1> DEFINE n == Len(q)
           open == {s \in 1 .. n : Open(q[s], i)}
           p == Place(q, i)
<1>1. /\ q \in Seq(SUBSET Indices) /\ n \in Nat /\ DOMAIN q = 1 .. n
      /\ q \in [1 .. n -> SUBSET Indices]
  BY LenProperties DEF Sublayers
<1>2. /\ \A k \in Indices : k \in L <=> \E s \in 1 .. n : k \in q[s]
      /\ \A s, r \in 1 .. n : s # r => q[s] \cap q[r] = {}
      /\ \A s \in 1 .. n : \A k, j \in q[s] : k # j => Of(k).writes \cap Of(j).writes = {}
      /\ \A r, s \in 1 .. n : r < s =>
           \A k \in q[s] : \E j \in q[r] : j < k /\ Of(j).writes \cap Of(k).writes # {}
  BY DEF Sublayers
<1>3. \A s \in 1 .. n : i \notin q[s]
  BY <1>2
<1>31. ASSUME NEW s \in 1 .. n, ~Open(q[s], i)
       PROVE  \E j \in q[s] : j < i /\ Of(j).writes \cap Of(i).writes # {}
  <2>1. PICK j \in q[s] : Of(i).writes \cap Of(j).writes # {}
    BY <1>31, OpenIs
  <2>2. j \in Indices
    BY <1>1
  <2>3. j < i
    BY <1>2, <2>1, <2>2
  <2>4. QED
    BY <2>1, <2>3
<1>4. p = IF open = {} THEN Append(q, {i}) ELSE [q EXCEPT ![Min(open)] = @ \cup {i}]
  BY <1>1 DEF Place
<1> HIDE DEF n, open, p
<1>5. CASE open = {}
  <2>1. /\ p \in Seq(SUBSET Indices) /\ Len(p) = n + 1 /\ p[n + 1] = {i}
        /\ \A s \in 1 .. n : p[s] = q[s]
    BY <1>1, <1>4, <1>5, AppendProperties DEF n
  <2>2. \A s \in 1 .. n + 1 : s \in 1 .. n \/ s = n + 1
    BY <1>1
  <2>3. \A s, r \in 1 .. n + 1 : s # r => p[s] \cap p[r] = {}
    BY <1>2, <1>3, <2>1, <2>2
  <2>4. \A s \in 1 .. n + 1 : \A k, j \in p[s] : k # j => Of(k).writes \cap Of(j).writes = {}
    BY <1>2, <2>1, <2>2
  <2>5. \A k \in Indices : k \in L \cup {i} <=> \E s \in 1 .. n + 1 : k \in p[s]
    <3>1. n + 1 \in 1 .. n + 1 /\ \A s \in 1 .. n : s \in 1 .. n + 1
      BY <1>1
    <3>2. QED
      BY <1>2, <2>1, <2>2, <3>1
  <2>6. ASSUME NEW r \in 1 .. n + 1, NEW s \in 1 .. n + 1, r < s, NEW k \in p[s]
        PROVE  \E j \in p[r] : j < k /\ Of(j).writes \cap Of(k).writes # {}
    <3>1. r \in 1 .. n /\ p[r] = q[r]
      BY <1>1, <2>1, <2>6
    <3>2. CASE s \in 1 .. n
      BY <1>2, <2>1, <2>6, <3>1, <3>2
    <3>3. CASE s = n + 1
      <4>1. k = i /\ ~Open(q[r], i)
        BY <1>5, <2>1, <3>1, <3>3 DEF open
      <4>2. QED
        BY <1>31, <3>1, <4>1
    <3>4. QED
      BY <2>2, <3>2, <3>3
  <2>7. QED
    BY <2>1, <2>3, <2>4, <2>5, <2>6 DEF Sublayers, p
<1>6. CASE open # {}
  <2> DEFINE m == Min(open)
  <2>1. open \in SUBSET Nat
    BY <1>1 DEF open
  <2>2. m \in open /\ \A s \in open : m <= s
    BY <1>6, <2>1, MinOf
  <2> HIDE DEF m
  <2>3. m \in 1 .. n /\ Open(q[m], i) /\ \A s \in 1 .. n : s < m => ~Open(q[s], i)
    <3>1. m \in 1 .. n /\ Open(q[m], i)
      BY <2>2 DEF open
    <3>2. \A s \in 1 .. n : s < m => ~(m <= s)
      BY <1>1, <3>1
    <3>3. QED
      BY <2>2, <3>1, <3>2 DEF open
  <2>4. p = [q EXCEPT ![m] = @ \cup {i}]
    BY <1>4, <1>6 DEF m
  <2>5. /\ p \in [1 .. n -> SUBSET Indices] /\ p[m] = q[m] \cup {i}
        /\ \A s \in 1 .. n : s # m => p[s] = q[s]
    BY <1>1, <2>3, <2>4
  <2>6. p \in Seq(SUBSET Indices) /\ Len(p) = n
    BY <1>1, <2>5, SeqDef DEF n
  <2>7. \A s, r \in 1 .. n : s # r => p[s] \cap p[r] = {}
    BY <1>2, <1>3, <2>3, <2>5
  <2>8. \A s \in 1 .. n : \A k, j \in p[s] : k # j => Of(k).writes \cap Of(j).writes = {}
    <3>1. \A j \in q[m] : Of(i).writes \cap Of(j).writes = {}
      BY <2>3, OpenIs
    <3>2. \A j \in q[m] : Of(j).writes \cap Of(i).writes = {}
      BY <3>1
    <3>3. QED
      BY <1>2, <2>3, <2>5, <3>1, <3>2
  <2>9. \A k \in Indices : k \in L \cup {i} <=> \E s \in 1 .. n : k \in p[s]
    BY <1>2, <2>3, <2>5
  <2>10. ASSUME NEW r \in 1 .. n, NEW s \in 1 .. n, r < s, NEW k \in p[s]
         PROVE  \E j \in p[r] : j < k /\ Of(j).writes \cap Of(k).writes # {}
    <3>1. q[r] \subseteq p[r]
      BY <2>5
    <3>2. CASE k \in q[s]
      BY <1>2, <2>10, <3>1, <3>2
    <3>3. CASE k \notin q[s]
      <4>1. s = m /\ k = i
        BY <2>5, <3>3
      <4>2. ~Open(q[r], i)
        BY <2>3, <2>10, <4>1
      <4>3. QED
        BY <1>31, <3>1, <4>1, <4>2
    <3>4. QED
      BY <3>2, <3>3
  <2>11. QED
    BY <2>6, <2>7, <2>8, <2>9, <2>10 DEF Sublayers, p
<1>7. QED
  BY <1>5, <1>6

LEMMA PlaceType ==
  ASSUME NEW q \in Seq(SUBSET Indices), NEW i \in Indices
  PROVE  Place(q, i) \in Seq(SUBSET Indices)
<1> DEFINE n == Len(q)
           open == {s \in DOMAIN q : Open(q[s], i)}
           r == [q EXCEPT ![Min(open)] = @ \cup {i}]
<1>1. q \in [1 .. n -> SUBSET Indices] /\ n \in Nat
  BY LenProperties
<1>2. Append(q, {i}) \in Seq(SUBSET Indices)
  BY AppendProperties
<1>3. r \in [1 .. n -> SUBSET Indices]
  <2> HIDE DEF n, open
  <2>1. QED
    BY <1>1
<1>4. r \in Seq(SUBSET Indices)
  <2> HIDE DEF r, n
  <2>1. QED
    BY <1>1, <1>3, SeqDef
<1>5. Place(q, i) = IF open = {} THEN Append(q, {i}) ELSE r
  BY DEF Place
<1> HIDE DEF open, r
<1>6. QED
  BY <1>2, <1>4, <1>5

LEMMA SplitIs ==
  ASSUME SchedulingTypeOK, NEW layer \in SUBSET Indices
  PROVE  Sublayers(Split(layer), layer)
<1> DEFINE N == Size
           D == Seq(SUBSET Indices)
           Next(n, q) == IF n \in layer THEN Place(q, n) ELSE q
           Body(f) == [n \in 0 .. N |-> IF n = 0 THEN <<>> ELSE Next(n, f[n - 1])]
           G == [n \in 1 .. N |-> [q \in D |-> Next(n, q)]]
           P == CHOOSE f : f = Body(f)
<1>1. N \in Nat /\ Indices = 1 .. N
  BY ProcessedIs
<1>2. Split(layer) = P[N]
  BY DEF Split, Size
<1>3. \A n \in 1 .. N, q \in D : Next(n, q) \in D
  BY <1>1, PlaceType
<1>4. <<>> \in D
  BY EmptySeq
<1> HIDE DEF Next, D, N
<1>5. /\ G \in [1 .. N -> [D -> D]]
      /\ \A n \in 1 .. N, q \in D : G[n][q] = Next(n, q)
  BY <1>3
<1> HIDE DEF G
<1>6. \E f \in [0 .. N -> D] : f[0] = <<>> /\ \A n \in 1 .. N : f[n] = G[n][f[n - 1]]
  <2>1. Iterates(N, D, <<>>, G)
    BY <1>1, <1>4, <1>5, Iterated
  <2>2. QED
    BY <2>1 DEF Iterates
<1> PICK f \in [0 .. N -> D] : f[0] = <<>> /\ \A n \in 1 .. N : f[n] = G[n][f[n - 1]]
  BY <1>6
<1>7. /\ \A n \in 0 .. N : n # 0 => n \in 1 .. N
      /\ \A n \in 1 .. N : n - 1 \in 0 .. N /\ n \in 0 .. N /\ n # 0
      /\ 0 \in 0 .. N /\ N \in 0 .. N
  BY <1>1
<1>8. \A n \in 1 .. N : f[n] = Next(n, f[n - 1])
  BY <1>5, <1>7
<1>9. f = [n \in 0 .. N |-> f[n]] /\ f[0] = <<>>
  OBVIOUS
<1>10. f = Body(f)
  BY <1>7, <1>8, <1>9
<1>11. P = Body(P)
  BY <1>10
<1> HIDE DEF P
<1>12. P[0] = <<>> /\ \A n \in 1 .. N : P[n] = Next(n, P[n - 1])
  BY <1>7, <1>11
<1> DEFINE S == {n \in 0 .. N : Sublayers(P[n], layer \cap (1 .. n))}
<1>13. 0 \in S
  <2>1. Len(<<>>) = 0 /\ 1 .. 0 = {}
    BY EmptySeq
  <2>2. layer \cap (1 .. 0) = {}
    BY <2>1
  <2>3. Sublayers(<<>>, {})
    BY <1>4, <2>1 DEF Sublayers, D
  <2>4. QED
    BY <1>7, <1>12, <2>2, <2>3
<1>14. ASSUME NEW n \in 1 .. N, n - 1 \in S
       PROVE  n \in S
  <2>1. Sublayers(P[n - 1], layer \cap (1 .. n - 1))
    BY <1>14
  <2>2. /\ n \notin 1 .. n - 1 /\ n \in Indices
        /\ 1 .. n = (1 .. n - 1) \cup {n}
    BY <1>1
  <2>3. P[n] = Next(n, P[n - 1])
    BY <1>12
  <2>4. CASE n \in layer
    <3>1. layer \cap (1 .. n) = (layer \cap (1 .. n - 1)) \cup {n}
      BY <2>2, <2>4
    <3>2. P[n] = Place(P[n - 1], n)
      BY <2>3, <2>4 DEF Next
    <3>3. n \notin layer \cap (1 .. n - 1) /\ \A j \in layer \cap (1 .. n - 1) : j < n
      BY <1>1, <2>2
    <3>4. Sublayers(Place(P[n - 1], n), (layer \cap (1 .. n - 1)) \cup {n})
      BY <2>1, <2>2, <3>3, PlaceAdds
    <3>5. QED
      BY <1>7, <3>1, <3>2, <3>4
  <2>5. CASE n \notin layer
    <3>1. layer \cap (1 .. n) = layer \cap (1 .. n - 1)
      BY <2>2, <2>5
    <3>2. P[n] = P[n - 1]
      BY <2>3, <2>5 DEF Next
    <3>3. QED
      BY <1>7, <2>1, <3>1, <3>2
  <2>6. QED
    BY <2>4, <2>5
<1> HIDE DEF S
<1>15. N \in S
  BY <1>1, <1>7, <1>13, <1>14, UpTo
<1>16. layer \cap (1 .. N) = layer
  BY <1>1
<1>17. QED
  BY <1>2, <1>15, <1>16 DEF S

-----------------------------------------------------------------------------
(* The layers. *)

(* r holds the systems of P, each once, after all that go before it, none     *)
(* with one it races with; an earlier layer holds only systems less deep by   *)
(* d, or as deep with an earlier one that conflicts.                           *)
Layered(r, P, d) ==
  /\ r \in Seq(SUBSET Indices)
  /\ \A i \in Indices : i \in P <=> \E s \in 1 .. Len(r) : i \in r[s]
  /\ \A s, t \in 1 .. Len(r) : s # t => r[s] \cap r[t] = {}
  /\ \A s \in 1 .. Len(r) : \A i, j \in r[s] :
       i # j => Of(i).writes \cap (Of(j).reads \cup Of(j).writes) = {}
  /\ \A s \in 1 .. Len(r) : \A j \in r[s] : \A i \in Indices :
       <<i, j>> \in Edges => \E t \in 1 .. s - 1 : i \in r[t]
  /\ \A s, t \in 1 .. Len(r) : s < t =>
       \A j \in r[s], i \in r[t] :
         \/ d[j] < d[i]
         \/ d[j] = d[i] /\ \E k \in r[s] : k < i /\ Of(k).writes \cap Of(i).writes # {}

LEMMA RoundAdds ==
  ASSUME NEW P \in SUBSET Indices, NEW d, NEW r, Layered(r, P, d),
         \A i \in P, j \in Ready(P) : d[i] < d[j],
         \A i, j \in Ready(P) : d[i] = d[j],
         NEW q, Sublayers(q, Ready(P))
  PROVE  Layered(r \o q, P \cup Ready(P), d)
<1> DEFINE n == Len(r)
           m == Len(q)
           L == Ready(P)
           u == r \o q
<1>1. /\ r \in Seq(SUBSET Indices) /\ n \in Nat
      /\ q \in Seq(SUBSET Indices) /\ m \in Nat
  BY LenProperties DEF Layered, Sublayers
<1>2. /\ u \in Seq(SUBSET Indices) /\ Len(u) = n + m
      /\ \A s \in 1 .. n + m : u[s] = IF s <= n THEN r[s] ELSE q[s - n]
  BY <1>1, ConcatProperties
<1>3. /\ \A i \in Indices : i \in P <=> \E s \in 1 .. n : i \in r[s]
      /\ \A s, t \in 1 .. n : s # t => r[s] \cap r[t] = {}
      /\ \A s \in 1 .. n : \A i, j \in r[s] :
           i # j => Of(i).writes \cap (Of(j).reads \cup Of(j).writes) = {}
      /\ \A s \in 1 .. n : \A j \in r[s] : \A i \in Indices :
           <<i, j>> \in Edges => \E t \in 1 .. s - 1 : i \in r[t]
      /\ \A s, t \in 1 .. n : s < t =>
           \A j \in r[s], i \in r[t] :
             \/ d[j] < d[i]
             \/ d[j] = d[i] /\ \E k \in r[s] : k < i /\ Of(k).writes \cap Of(i).writes # {}
  BY DEF Layered
<1>4. /\ \A i \in Indices : i \in L <=> \E s \in 1 .. m : i \in q[s]
      /\ \A s, t \in 1 .. m : s # t => q[s] \cap q[t] = {}
      /\ \A s \in 1 .. m : \A i, j \in q[s] : i # j => Of(i).writes \cap Of(j).writes = {}
      /\ \A s, t \in 1 .. m : s < t =>
           \A i \in q[t] : \E k \in q[s] : k < i /\ Of(k).writes \cap Of(i).writes # {}
  BY DEF Sublayers
<1>5. /\ L \in SUBSET Indices /\ L \cap P = {}
      /\ \A i \in L, j \in Indices : <<j, i>> \in Edges => j \in P
  BY DEF Ready
<1>6. /\ \A i \in P, j \in L : d[i] < d[j]
      /\ \A i, j \in L : d[i] = d[j]
  OBVIOUS
<1>7. \A s \in 1 .. n : r[s] \subseteq P
  BY <1>1, <1>3
<1>71. \A s \in 1 .. m : q[s] \subseteq L
  BY <1>1, <1>4
<1>8. \A i, j \in Indices :
        i # j /\ Of(i).writes \cap Of(j).reads # {} => <<i, j>> \in Edges
  BY DEF Edges, DataEdges
<1>9. /\ \A s \in 1 .. n : r[s] \in SUBSET Indices
      /\ \A s \in 1 .. m : q[s] \in SUBSET Indices
  BY <1>1, ElementOfSeq
<1> HIDE DEF n, m, L, u
(* The positions of u are those of r, then those of q. *)
<1>12. /\ \A s \in 1 .. n : s \in 1 .. n + m /\ u[s] = r[s]
       /\ \A s \in 1 .. m : n + s \in 1 .. n + m /\ u[n + s] = q[s]
  <2>1. ASSUME NEW s \in 1 .. n PROVE s \in 1 .. n + m /\ u[s] = r[s]
    <3>1. s \in 1 .. n + m /\ s <= n
      BY <1>1
    <3>2. QED
      BY <1>2, <3>1
  <2>2. ASSUME NEW s \in 1 .. m PROVE n + s \in 1 .. n + m /\ u[n + s] = q[s]
    <3> DEFINE k == n + s
    <3>1. k \in 1 .. n + m /\ ~(k <= n) /\ k - n = s
      BY <1>1
    <3> HIDE DEF k
    <3>2. u[k] = q[s]
      BY <1>2, <3>1
    <3>3. QED
      BY <3>1, <3>2 DEF k
  <2>3. QED
    BY <2>1, <2>2
<1>13. ASSUME NEW s \in 1 .. n + m
       PROVE  s \in 1 .. n \/ \E k \in 1 .. m : s = n + k
  <2>1. s \in 1 .. n \/ (s - n \in 1 .. m /\ s = n + (s - n))
    BY <1>1
  <2>2. QED
    BY <2>1
<1>14. \A i \in Indices : i \in P \cup L <=> \E s \in 1 .. n + m : i \in u[s]
  BY <1>3, <1>4, <1>12, <1>13
<1>15. ASSUME NEW s \in 1 .. n + m, NEW t \in 1 .. n + m, s # t
       PROVE  u[s] \cap u[t] = {}
  <2>1. \A a \in 1 .. n, b \in 1 .. m : r[a] \cap q[b] = {}
    BY <1>5, <1>7, <1>71
  <2>2. CASE s \in 1 .. n /\ t \in 1 .. n
    BY <1>3, <1>12, <1>15, <2>2
  <2>3. CASE s \in 1 .. n /\ \E k \in 1 .. m : t = n + k
    BY <1>12, <2>1, <2>3
  <2>4. CASE t \in 1 .. n /\ \E k \in 1 .. m : s = n + k
    BY <1>12, <2>1, <2>4
  <2>5. CASE (\E k \in 1 .. m : s = n + k) /\ (\E k \in 1 .. m : t = n + k)
    BY <1>4, <1>12, <1>15, <2>5
  <2>6. QED
    BY <1>13, <2>2, <2>3, <2>4, <2>5
<1>16. ASSUME NEW s \in 1 .. n + m, NEW i \in u[s], NEW j \in u[s], i # j
       PROVE  Of(i).writes \cap (Of(j).reads \cup Of(j).writes) = {}
  <2>1. CASE s \in 1 .. n
    BY <1>3, <1>12, <1>16, <2>1
  <2>2. ASSUME NEW k \in 1 .. m, s = n + k
        PROVE  Of(i).writes \cap (Of(j).reads \cup Of(j).writes) = {}
    <3>1. i \in q[k] /\ j \in q[k] /\ i \in L /\ j \in L /\ i \in Indices /\ j \in Indices
      BY <1>4, <1>9, <1>12, <2>2
    <3>2. Of(i).writes \cap Of(j).writes = {}
      BY <1>4, <1>16, <3>1
    <3>3. <<i, j>> \notin Edges
      BY <1>5, <3>1
    <3>4. Of(i).writes \cap Of(j).reads = {}
      BY <1>8, <1>16, <3>1, <3>3
    <3>5. QED
      BY <3>2, <3>4
  <2>3. QED
    BY <1>13, <2>1, <2>2
<1>17. ASSUME NEW s \in 1 .. n + m, NEW j \in u[s], NEW i \in Indices, <<i, j>> \in Edges
       PROVE  \E t \in 1 .. s - 1 : i \in u[t]
  <2>1. CASE s \in 1 .. n
    <3>1. PICK t \in 1 .. s - 1 : i \in r[t]
      BY <1>3, <1>12, <1>17, <2>1
    <3>2. t \in 1 .. n
      BY <1>1, <2>1
    <3>3. QED
      BY <1>12, <3>1, <3>2
  <2>2. ASSUME NEW k \in 1 .. m, s = n + k
        PROVE  \E t \in 1 .. s - 1 : i \in u[t]
    <3>1. j \in L
      BY <1>4, <1>9, <1>12, <2>2
    <3>2. i \in P
      BY <1>5, <1>17, <3>1
    <3>3. PICK t \in 1 .. n : i \in r[t]
      BY <1>3, <3>2
    <3>4. t \in 1 .. s - 1
      BY <1>1, <2>2
    <3>5. QED
      BY <1>12, <3>3, <3>4
  <2>3. QED
    BY <1>13, <2>1, <2>2
<1>18. ASSUME NEW s \in 1 .. n + m, NEW t \in 1 .. n + m, s < t,
              NEW j \in u[s], NEW i \in u[t]
       PROVE  \/ d[j] < d[i]
              \/ d[j] = d[i] /\ \E k \in u[s] : k < i /\ Of(k).writes \cap Of(i).writes # {}
  <2>1. CASE t \in 1 .. n
    <3>1. s \in 1 .. n
      BY <1>1, <1>18, <2>1
    <3>2. QED
      BY <1>3, <1>12, <1>18, <2>1, <3>1
  <2>2. ASSUME NEW b \in 1 .. m, t = n + b, s \in 1 .. n PROVE d[j] < d[i]
    BY <1>6, <1>7, <1>71, <1>12, <2>2
  <2>3. ASSUME NEW b \in 1 .. m, t = n + b, NEW a \in 1 .. m, s = n + a
        PROVE  d[j] = d[i] /\ \E k \in u[s] : k < i /\ Of(k).writes \cap Of(i).writes # {}
    <3>1. a < b
      BY <1>1, <1>18, <2>3
    <3>2. u[s] = q[a] /\ u[t] = q[b]
      BY <1>12, <2>3
    <3>3. QED
      BY <1>4, <1>6, <1>71, <3>1, <3>2
  <2>4. QED
    BY <1>13, <2>1, <2>2, <2>3
<1>20. Layered(u, P \cup L, d)
  BY <1>2, <1>14, <1>15, <1>16, <1>17, <1>18 DEF Layered
<1>21. QED
  BY <1>20 DEF u, L

LEMMA ResolvedIs ==
  ASSUME SchedulingTypeOK, Processed[Size] = Indices
  PROVE  Layered(ResolvedLayers, Indices, Round)
<1> DEFINE N == Size
           D == Seq(SUBSET Indices)
           Next(n, r) == r \o Split(Processed[n] \ Processed[n - 1])
           Body(f) == [n \in 0 .. N |-> IF n = 0 THEN <<>> ELSE Next(n, f[n - 1])]
           G == [n \in 1 .. N |-> [r \in D |-> Next(n, r)]]
           P == CHOOSE f : f = Body(f)
<1>1. /\ N \in Nat /\ Indices = 1 .. N
      /\ Processed \in [0 .. N -> SUBSET Indices]
      /\ Processed[0] = {}
      /\ \A n \in 1 .. N : Processed[n] = Processed[n - 1] \cup Ready(Processed[n - 1])
  BY ProcessedIs
<1>2. ResolvedLayers = P[N]
  BY DEF ResolvedLayers, Size
<1>3. /\ \A n \in 0 .. N : n # 0 => n \in 1 .. N
      /\ \A n \in 1 .. N : n - 1 \in 0 .. N /\ n \in 0 .. N /\ n # 0
      /\ 0 \in 0 .. N /\ N \in 0 .. N
  BY <1>1
<1> HIDE DEF N
<1>4. ASSUME NEW n \in 1 .. N
      PROVE  /\ Processed[n] \ Processed[n - 1] = Ready(Processed[n - 1])
             /\ Ready(Processed[n - 1]) \in SUBSET Indices
  <2>1. /\ Ready(Processed[n - 1]) \cap Processed[n - 1] = {}
        /\ Ready(Processed[n - 1]) \in SUBSET Indices
    BY DEF Ready
  <2>2. QED
    BY <1>1, <2>1
<1>5. \A n \in 1 .. N : Sublayers(Split(Processed[n] \ Processed[n - 1]), Ready(Processed[n - 1]))
  BY <1>4, SplitIs
<1>6. \A n \in 1 .. N, r \in D : Next(n, r) \in D
  <2>1. \A n \in 1 .. N : Split(Processed[n] \ Processed[n - 1]) \in D
    BY <1>5 DEF Sublayers
  <2>2. QED
    BY <2>1, ConcatProperties
<1>7. <<>> \in D
  BY EmptySeq
<1>8. \A n \in 1 .. N, r \in D : Next(n, r) = r \o Split(Processed[n] \ Processed[n - 1])
  OBVIOUS
<1> HIDE DEF Next, D
<1>9. /\ G \in [1 .. N -> [D -> D]]
      /\ \A n \in 1 .. N, r \in D : G[n][r] = Next(n, r)
  BY <1>6
<1> HIDE DEF G
<1>10. \E f \in [0 .. N -> D] : f[0] = <<>> /\ \A n \in 1 .. N : f[n] = G[n][f[n - 1]]
  <2>1. Iterates(N, D, <<>>, G)
    BY <1>1, <1>7, <1>9, Iterated
  <2>2. QED
    BY <2>1 DEF Iterates
<1> PICK f \in [0 .. N -> D] : f[0] = <<>> /\ \A n \in 1 .. N : f[n] = G[n][f[n - 1]]
  BY <1>10
<1>11. \A n \in 1 .. N : f[n] = Next(n, f[n - 1])
  BY <1>3, <1>9
<1>12. f = [n \in 0 .. N |-> f[n]] /\ f[0] = <<>>
  OBVIOUS
<1>13. f = Body(f)
  BY <1>3, <1>11, <1>12
<1>14. P = Body(P)
  BY <1>13
<1> HIDE DEF P
<1>15. P[0] = <<>> /\ \A n \in 1 .. N : P[n] = Next(n, P[n - 1])
  BY <1>3, <1>14
<1> DEFINE S == {n \in 0 .. N : Layered(P[n], Processed[n], Round)}
<1>16. 0 \in S
  <2>1. Len(<<>>) = 0 /\ 1 .. 0 = {}
    BY EmptySeq
  <2>2. Layered(<<>>, {}, Round)
    BY <1>7, <2>1 DEF Layered, D
  <2>3. QED
    BY <1>1, <1>3, <1>15, <2>2
<1>17. ASSUME NEW n \in 1 .. N, n - 1 \in S
       PROVE  n \in S
  <2> DEFINE a == Processed[n - 1]
             p == P[n - 1]
             q == Split(Processed[n] \ Processed[n - 1])
  <2>1. /\ a \in SUBSET Indices /\ Layered(p, a, Round) /\ Sublayers(q, Ready(a))
        /\ Processed[n] = a \cup Ready(a) /\ P[n] = p \o q
    BY <1>1, <1>3, <1>5, <1>15, <1>17 DEF Next
  <2>11. /\ \A i \in a, j \in Ready(a) : Round[i] < Round[j]
         /\ \A i, j \in Ready(a) : Round[i] = Round[j]
    <3>1. \A j \in Ready(a) : j \in Indices /\ Round[j] = n
      BY <1>4, RoundIs DEF N
    <3>2. /\ Round \in [Indices -> Indices] /\ n - 1 \in 0 .. N
          /\ \A i \in Indices, k \in 0 .. N : i \in Processed[k] <=> Round[i] <= k
      BY <1>3, RoundIs DEF N
    <3>3. \A i \in a : Round[i] \in 1 .. N /\ Round[i] <= n - 1
      BY <1>1, <2>1, <3>2
    <3> HIDE DEF a
    <3>4. QED
      BY <1>1, <3>1, <3>3
  <2> HIDE DEF a, p, q
  <2>2. Layered(p \o q, a \cup Ready(a), Round)
    BY <2>1, <2>11, RoundAdds
  <2>3. QED
    BY <1>3, <2>1, <2>2
<1> HIDE DEF S
<1>18. N \in S
  BY <1>1, <1>3, <1>16, <1>17, UpTo
<1>19. QED
  BY <1>2, <1>18 DEF S, N

-----------------------------------------------------------------------------
(* The layers in force are those resolved for the present declarations. *)

(* Strengthens the properties of the layers in force.  A step that changes a *)
(* declaration makes the order dirty, so it may say what the layers are for   *)
(* the declarations of the same state.                                        *)
SchedulingInv ==
  /\ SchedulingTypeOK
  /\ Len(systemCore) <= MaxSystems
  /\ InForce =>
       /\ ~UndeclaredAccess
       /\ ~UnknownTarget
       /\ \E d \in Depths : Layered(layers, Indices, d)

LEMMA EdgesStay ==
  ASSUME UNCHANGED <<systemCore, metadata>>
  PROVE  /\ Indices' = Indices /\ Edges' = Edges /\ Depths' = Depths
         /\ \A i : Of(i)' = Of(i)
<1>1. Indices' = Indices
  BY DEF Indices
<1>2. \A i : Of(i)' = Of(i)
  BY DEF Of
<1>3. Edges' = Edges
  BY DEF Edges, DataEdges, BeforeEdges, AfterEdges, IndexOf, Indices, Of
<1>4. Depths' = Depths
  BY <1>1, <1>3 DEF Depths
<1>5. QED
  BY <1>1, <1>2, <1>3, <1>4

LEMMA LayeredStays ==
  ASSUME UNCHANGED <<systemCore, metadata>>,
         \E d \in Depths : Layered(layers', Indices, d)
  PROVE  (\E d \in Depths : Layered(layers, Indices, d))'
<1>1. /\ Indices' = Indices /\ Edges' = Edges /\ Depths' = Depths
      /\ \A i : Of(i)' = Of(i)
  BY EdgesStay
<1>2. QED
  BY <1>1 DEF Layered

LEMMA SchedulingInitially == SchedulingInit => SchedulingInv
<1> SUFFICES ASSUME SchedulingInit PROVE SchedulingInv
  OBVIOUS
<1>1. <<>> \in Seq(Types) /\ <<>> \in Seq(SUBSET (1 .. MaxSystems)) /\ Len(<<>>) = 0
  BY EmptySeq
<1>2. 0 <= MaxSystems
  BY SchedulingAssumptions
<1>3. metadata \in [Types -> Metadata]
  BY DEF SchedulingInit, NoDeclarations, Metadata
<1>4. QED
  BY <1>1, <1>2, <1>3 DEF SchedulingInit, SchedulingInv, SchedulingTypeOK, InForce

LEMMA DeclarePreserves ==
  ASSUME SchedulingInv, NEW type \in Types, NEW declared \in Metadata,
         declare(type, declared)
  PROVE  SchedulingInv'
<1>1. metadata' \in [Types -> Metadata]
  BY DEF SchedulingInv, SchedulingTypeOK, declare
<1>2. QED
  BY <1>1 DEF SchedulingInv, SchedulingTypeOK, InForce, declare

LEMMA ResolvePreserves ==
  ASSUME SchedulingInv, resolveExecutionSequence
  PROVE  SchedulingInv'
<1>1. UNCHANGED <<systemCore, metadata>>
  BY DEF resolveExecutionSequence
<1>2. CASE systemCore = <<>>
  <2>1. <<>> \in Seq(SUBSET (1 .. MaxSystems))
    BY EmptySeq
  <2>2. QED
    BY <1>1, <1>2, <2>1
    DEF SchedulingInv, SchedulingTypeOK, InForce, resolveExecutionSequence
<1>3. CASE systemCore # <<>> /\ (UndeclaredAccess \/ UnknownTarget \/ CycleDetected)
  BY <1>1, <1>3 DEF SchedulingInv, SchedulingTypeOK, InForce, resolveExecutionSequence
<1>4. CASE systemCore # <<>> /\ ~(UndeclaredAccess \/ UnknownTarget \/ CycleDetected)
  <2>1. layers' = ResolvedLayers /\ UNCHANGED aborted /\ dirty' = FALSE
    BY <1>4 DEF resolveExecutionSequence
  <2>2. Size \in Nat /\ Indices = 1 .. Size /\ Processed[Size] = Indices
    BY <1>4, ProcessedIs DEF SchedulingInv, CycleDetected, Size
  <2>3. Round \in Depths /\ Layered(layers', Indices, Round)
    BY <1>4, <2>1, <2>2, ResolvedIs, RoundIsDepth DEF SchedulingInv
  <2>4. (\E d \in Depths : Layered(layers, Indices, d))'
    BY <1>1, <2>3, LayeredStays
  <2>5. layers' \in Seq(SUBSET (1 .. MaxSystems))
    <3>1. Indices \subseteq 1 .. MaxSystems
      BY <2>2, SchedulingAssumptions DEF SchedulingInv, Size
    <3>2. layers' \in Seq(SUBSET Indices)
      BY <2>3 DEF Layered
    <3>3. layers' \in [1 .. Len(layers') -> SUBSET Indices] /\ Len(layers') \in Nat
      BY <3>2, LenProperties
    <3>4. layers' \in [1 .. Len(layers') -> SUBSET (1 .. MaxSystems)]
      BY <3>1, <3>3
    <3>5. QED
      BY <3>3, <3>4, SeqDef
  <2>6. ~UndeclaredAccess' /\ ~UnknownTarget'
    BY <1>1, <1>4 DEF UndeclaredAccess, UnknownTarget, Registered
  <2>7. QED
    BY <1>1, <2>1, <2>4, <2>5, <2>6 DEF SchedulingInv, SchedulingTypeOK, InForce
<1>5. QED
  BY <1>2, <1>3, <1>4

LEMMA SchedulingStep == SchedulingInv /\ [SchedulingNext]_schedulingVars => SchedulingInv'
<1> SUFFICES ASSUME SchedulingInv, [SchedulingNext]_schedulingVars
             PROVE  SchedulingInv'
  OBVIOUS
<1>1. ASSUME NEW type \in Types, addSystem(type)
      PROVE  SchedulingInv'
  <2>1. systemCore' \in Seq(Types) /\ Len(systemCore') = Len(systemCore) + 1
    BY <1>1, AppendProperties DEF addSystem, SchedulingInv, SchedulingTypeOK
  <2>2. Len(systemCore) \in Nat /\ Len(systemCore) < MaxSystems
    BY <1>1, LenProperties DEF addSystem, SchedulingInv, SchedulingTypeOK
  <2>3. Len(systemCore') <= MaxSystems
    BY <2>1, <2>2, SchedulingAssumptions
  <2>4. QED
    BY <1>1, <2>1, <2>3 DEF addSystem, SchedulingInv, SchedulingTypeOK, InForce
<1>2. ASSUME NEW type \in Types, NEW c \in Components, reads(type, c) \/ writes(type, c)
      PROVE  SchedulingInv'
  <2>1. /\ [metadata[type] EXCEPT !.reads = @ \cup {c}] \in Metadata
        /\ [metadata[type] EXCEPT !.writes = @ \cup {c}] \in Metadata
    <3> DEFINE m == metadata[type]
    <3>1. m \in Metadata
      BY DEF SchedulingInv, SchedulingTypeOK
    <3> HIDE DEF m
    <3>2. /\ [m EXCEPT !.reads = @ \cup {c}] \in Metadata
          /\ [m EXCEPT !.writes = @ \cup {c}] \in Metadata
      BY <3>1 DEF Metadata
    <3>3. QED
      BY <3>2 DEF m
  <2>2. QED
    BY <1>2, <2>1, DeclarePreserves DEF reads, writes
<1>3. ASSUME NEW type \in Types, NEW other \in Types, before(type, other) \/ after(type, other)
      PROVE  SchedulingInv'
  <2>1. /\ [metadata[type] EXCEPT !.before = @ \cup {other}] \in Metadata
        /\ [metadata[type] EXCEPT !.after = @ \cup {other}] \in Metadata
    <3> DEFINE m == metadata[type]
    <3>1. m \in Metadata
      BY DEF SchedulingInv, SchedulingTypeOK
    <3> HIDE DEF m
    <3>2. /\ [m EXCEPT !.before = @ \cup {other}] \in Metadata
          /\ [m EXCEPT !.after = @ \cup {other}] \in Metadata
      BY <3>1 DEF Metadata
    <3>3. QED
      BY <3>2 DEF m
  <2>2. QED
    BY <1>3, <2>1, DeclarePreserves DEF before, after
<1>4. CASE resolveExecutionSequence
  BY <1>4, ResolvePreserves
<1>5. CASE UNCHANGED schedulingVars
  <2>1. UNCHANGED <<systemCore, metadata, dirty, layers, aborted>>
    BY <1>5 DEF schedulingVars
  <2>2. InForce' => /\ ~UndeclaredAccess' /\ ~UnknownTarget'
                    /\ (\E d \in Depths : Layered(layers, Indices, d))'
    BY <2>1, LayeredStays
    DEF SchedulingInv, InForce, UndeclaredAccess, UnknownTarget, Registered
  <2>3. QED
    BY <2>1, <2>2 DEF SchedulingInv, SchedulingTypeOK
<1>6. QED
  BY <1>1, <1>2, <1>3, <1>4, <1>5 DEF SchedulingNext

-----------------------------------------------------------------------------
(* What an update may rely on. *)

(* The layers in force are what resolveExecutionSequence computes for the    *)
(* declarations of the same state, whatever was registered and declared.      *)
THEOREM SchedulingInvariant == SchedulingSpec => []SchedulingInv
<1>1. SchedulingInit => SchedulingInv
  BY SchedulingInitially
<1>2. SchedulingInv /\ [SchedulingNext]_schedulingVars => SchedulingInv'
  BY SchedulingStep
<1>3. QED
  BY <1>1, <1>2, PTL DEF SchedulingSpec

(* Type correctness of the scheduling state. *)
THEOREM SchedulingTypes == SchedulingSpec => []SchedulingTypeOK
<1>1. SchedulingInv => SchedulingTypeOK
  BY DEF SchedulingInv
<1>2. QED
  BY <1>1, SchedulingInvariant, PTL

(* A system is in one of the layers in force, and in one only. *)
LEMMA InOneLayer ==
  ASSUME SchedulingInv, InForce, NEW i \in Indices
  PROVE  \E n \in DOMAIN layers :
           /\ i \in layers[n]
           /\ \A m \in DOMAIN layers : i \in layers[m] => m = n
<1>1. PICK d \in Depths : Layered(layers, Indices, d)
  BY DEF SchedulingInv
<1>2. DOMAIN layers = 1 .. Len(layers)
  BY <1>1, LenProperties DEF Layered
<1>3. PICK n \in 1 .. Len(layers) : i \in layers[n]
  BY <1>1 DEF Layered
<1>4. \A m \in 1 .. Len(layers) : i \in layers[m] => m = n
  BY <1>1, <1>3 DEF Layered
<1>5. QED
  BY <1>2, <1>3, <1>4

(* Every registered system runs exactly once per update: Kahn's algorithm     *)
(* processes it in one round, and the split puts it in one sublayer.          *)
THEOREM OncePerUpdate == SchedulingSpec => []EverySystemOnce
<1>1. ASSUME SchedulingInv PROVE EverySystemOnce
  <2>1. SUFFICES ASSUME InForce, NEW i \in Indices
                 PROVE  Cardinality({n \in DOMAIN layers : i \in layers[n]}) = 1
    BY DEF EverySystemOnce
  <2>2. PICK n \in DOMAIN layers :
          /\ i \in layers[n]
          /\ \A m \in DOMAIN layers : i \in layers[m] => m = n
    BY <1>1, <2>1, InOneLayer
  <2>3. {m \in DOMAIN layers : i \in layers[m]} = {n}
    BY <2>2
  <2>4. Cardinality({n}) = 1
    BY FS_Singleton
  <2>5. QED
    BY <2>3, <2>4
<1>2. QED
  BY <1>1, SchedulingInvariant, PTL

(* No two systems that run in parallel race for a component: a reader waits   *)
(* for every writer by the order, and the split separates the writers.        *)
THEOREM LayersFreeOfRaces == SchedulingSpec => []LayersRaceFree
<1>1. ASSUME SchedulingInv PROVE LayersRaceFree
  <2>1. SUFFICES ASSUME InForce, NEW n \in DOMAIN layers, NEW i \in layers[n],
                        NEW j \in layers[n], i # j
                 PROVE  Of(i).writes \cap (Of(j).reads \cup Of(j).writes) = {}
    BY DEF LayersRaceFree
  <2>2. PICK d \in Depths : Layered(layers, Indices, d)
    BY <1>1, <2>1 DEF SchedulingInv
  <2>3. DOMAIN layers = 1 .. Len(layers)
    BY <2>2, LenProperties DEF Layered
  <2>4. QED
    BY <2>1, <2>2, <2>3 DEF Layered
<1>2. QED
  BY <1>1, SchedulingInvariant, PTL

(* Whatever a declaration orders stays ordered: each constraint is an edge,   *)
(* and the source of an edge is in an earlier layer than its target.          *)
THEOREM ConstraintsKept == SchedulingSpec => []OrderRespected
<1>1. ASSUME SchedulingInv PROVE OrderRespected
  <2>1. SUFFICES ASSUME InForce, NEW i \in Indices, NEW j \in Indices,
                        \/ i # j /\ Of(i).writes \cap Of(j).reads # {}
                        \/ systemCore[j] \in Of(i).before /\ j = IndexOf(systemCore[j])
                        \/ systemCore[i] \in Of(j).after /\ i = IndexOf(systemCore[i])
                 PROVE  LayerOf(i) < LayerOf(j)
    BY DEF OrderRespected
  <2>2. <<i, j>> \in Edges
    <3>1. CASE i # j /\ Of(i).writes \cap Of(j).reads # {}
      BY <3>1 DEF Edges, DataEdges
    <3>2. CASE systemCore[j] \in Of(i).before /\ j = IndexOf(systemCore[j])
      BY <3>2 DEF Edges, BeforeEdges
    <3>3. CASE systemCore[i] \in Of(j).after /\ i = IndexOf(systemCore[i])
      BY <3>3 DEF Edges, AfterEdges
    <3>4. QED
      BY <2>1, <3>1, <3>2, <3>3
  <2>3. PICK d \in Depths : Layered(layers, Indices, d)
    BY <1>1, <2>1 DEF SchedulingInv
  <2>4. DOMAIN layers = 1 .. Len(layers) /\ Len(layers) \in Nat
    BY <2>3, LenProperties DEF Layered
  <2>5. PICK s \in 1 .. Len(layers) :
          j \in layers[s] /\ \A m \in DOMAIN layers : j \in layers[m] => m = s
    BY <1>1, <2>1, <2>4, InOneLayer
  <2>6. PICK t \in 1 .. s - 1 : i \in layers[t]
    BY <2>2, <2>3, <2>5 DEF Layered
  <2>7. t \in 1 .. Len(layers) /\ t < s
    BY <2>4
  <2>8. \A m \in DOMAIN layers : i \in layers[m] => m = t
    BY <1>1, <2>1, <2>4, <2>6, <2>7, InOneLayer
  <2>9. LayerOf(i) = t /\ LayerOf(j) = s
    BY <2>4, <2>5, <2>6, <2>7, <2>8 DEF LayerOf
  <2>10. QED
    BY <2>7, <2>9
<1>2. QED
  BY <1>1, SchedulingInvariant, PTL

(* Systems run by depth: a round of Kahn's algorithm takes every system that  *)
(* is ready, so it is one depth, and the split puts each system of a round in  *)
(* the first sublayer open to it, past those where one registered before it     *)
(* writes what it writes.                                                        *)
THEOREM LayersByDepth == SchedulingSpec => []LayeredByDepth
<1>1. ASSUME SchedulingInv PROVE LayeredByDepth
  <2>1. SUFFICES ASSUME InForce
                 PROVE  \E d \in Depths : \A i, j \in Indices :
                          LayerOf(j) < LayerOf(i) =>
                            \/ d[j] < d[i]
                            \/ /\ d[j] = d[i]
                               /\ \E k \in layers[LayerOf(j)] :
                                    k < i /\ Of(k).writes \cap Of(i).writes # {}
    BY DEF LayeredByDepth
  <2>2. PICK d \in Depths : Layered(layers, Indices, d)
    BY <1>1, <2>1 DEF SchedulingInv
  <2>3. DOMAIN layers = 1 .. Len(layers)
    BY <2>2, LenProperties DEF Layered
  <2>4. ASSUME NEW i \in Indices PROVE LayerOf(i) \in 1 .. Len(layers) /\ i \in layers[LayerOf(i)]
    BY <1>1, <2>1, <2>3, InOneLayer DEF LayerOf
  <2>5. ASSUME NEW i \in Indices, NEW j \in Indices, LayerOf(j) < LayerOf(i)
        PROVE  \/ d[j] < d[i]
               \/ /\ d[j] = d[i]
                  /\ \E k \in layers[LayerOf(j)] :
                       k < i /\ Of(k).writes \cap Of(i).writes # {}
    <3> DEFINE s == LayerOf(j)
               t == LayerOf(i)
    <3>1. s \in 1 .. Len(layers) /\ t \in 1 .. Len(layers) /\ s < t
          /\ j \in layers[s] /\ i \in layers[t]
      BY <2>4, <2>5
    <3> HIDE DEF s, t
    <3>2. \/ d[j] < d[i]
          \/ d[j] = d[i] /\ \E k \in layers[s] : k < i /\ Of(k).writes \cap Of(i).writes # {}
      BY <2>2, <3>1 DEF Layered
    <3>3. QED
      BY <3>2 DEF s
  <2>6. QED
    BY <2>5
<1>2. QED
  BY <1>1, SchedulingInvariant, PTL

-----------------------------------------------------------------------------
(* When update() aborts. *)

(* Kahn's algorithm processes every system exactly where a ranking of the     *)
(* systems satisfies every constraint: the rounds are one, and a system of    *)
(* rank n is processed by the n-th round.                                     *)
LEMMA CycleIs ==
  ASSUME SchedulingTypeOK, ~UnknownTarget
  PROVE  ~CycleDetected <=>
           \E rank \in [Indices -> Indices] :
             \A edge \in Edges : rank[edge[1]] < rank[edge[2]]
<1> DEFINE N == Size
           P == Processed
           Ranks(rank) == \A edge \in Edges : rank[edge[1]] < rank[edge[2]]
<1>1. /\ N \in Nat /\ Indices = 1 .. N
      /\ P \in [0 .. N -> SUBSET Indices]
      /\ P[0] = {}
      /\ \A n \in 1 .. N : P[n] = P[n - 1] \cup Ready(P[n - 1])
  BY ProcessedIs
<1>2. CycleDetected <=> P[N] # Indices
  BY DEF CycleDetected, Size
<1> HIDE DEF N, P
<1>3. ASSUME P[N] = Indices
      PROVE  \E rank \in [Indices -> Indices] : Ranks(rank)
  <2>1. Round \in Depths
    BY <1>3, RoundIsDepth DEF N, P
  <2>2. QED
    BY <2>1 DEF Depths
<1>4. ASSUME NEW rank \in [Indices -> Indices], Ranks(rank)
      PROVE  P[N] = Indices
  <2> DEFINE S == {n \in 0 .. N : \A i \in Indices : rank[i] <= n => i \in P[n]}
  <2>1. 0 \in S
    BY <1>1
  <2>2. ASSUME NEW n \in 1 .. N, n - 1 \in S PROVE n \in S
    <3>1. SUFFICES ASSUME NEW i \in Indices, rank[i] <= n, i \notin P[n - 1]
                   PROVE  i \in P[n]
      BY <1>1
    <3>2. ASSUME NEW j \in Indices, <<j, i>> \in Edges PROVE j \in P[n - 1]
      <4>1. rank[j] < rank[i]
        BY <1>4, <3>2
      <4>2. rank[j] <= n - 1
        BY <1>1, <3>1, <4>1
      <4>3. QED
        BY <2>2, <4>2
    <3>3. i \in Ready(P[n - 1])
      BY <3>1, <3>2 DEF Ready
    <3>4. QED
      BY <1>1, <3>3
  <2> HIDE DEF S
  <2>3. N \in S
    <3>1. 0 .. N \subseteq S
      BY <1>1, <2>1, <2>2, UpTo
    <3>2. QED
      BY <1>1, <3>1
  <2>4. \A i \in Indices : rank[i] <= N
    BY <1>1
  <2>5. QED
    BY <1>1, <2>3, <2>4 DEF S
<1>5. QED
  BY <1>2, <1>3, <1>4

(* update() aborts on exactly the declarations that no schedule satisfies,    *)
(* or that name an unregistered system or hide what a system accesses.        *)
THEOREM AbortsExactly == SchedulingSpec => AbortsIffUnschedulable
<1>1. ASSUME SchedulingInv, [SchedulingNext]_schedulingVars
      PROVE  [dirty /\ systemCore # <<>> /\ UNCHANGED <<systemCore, metadata>>
                => aborted' = ~Schedulable]_schedulingVars
  <2>1. SUFFICES ASSUME SchedulingNext, dirty, systemCore # <<>>,
                        UNCHANGED <<systemCore, metadata>>,
                        ~UNCHANGED schedulingVars
                 PROVE  aborted' = ~Schedulable
    BY <1>1
  <2>2. ASSUME NEW type \in Types, addSystem(type) PROVE FALSE
    <3>1. Len(systemCore') = Len(systemCore) + 1 /\ Len(systemCore) \in Nat
      BY <1>1, <2>2, AppendProperties, LenProperties
      DEF addSystem, SchedulingInv, SchedulingTypeOK
    <3>2. QED
      BY <2>1, <3>1
  <2>3. ASSUME NEW type \in Types, NEW declared, declare(type, declared) PROVE FALSE
    BY <1>1, <2>1, <2>3 DEF declare, schedulingVars, SchedulingInv, SchedulingTypeOK
  <2>4. CASE resolveExecutionSequence
    <3>1. SchedulingTypeOK
      BY <1>1 DEF SchedulingInv
    <3>2. aborted' = (UndeclaredAccess \/ UnknownTarget \/ CycleDetected)
      BY <2>1, <2>4, <3>1 DEF resolveExecutionSequence, SchedulingTypeOK
    <3>3. UnknownTarget \/ (~CycleDetected <=>
            \E rank \in [Indices -> Indices] :
              \A edge \in Edges : rank[edge[1]] < rank[edge[2]])
      BY <3>1, CycleIs
    <3>4. QED
      BY <3>2, <3>3 DEF Schedulable
  <2>5. QED
    BY <2>1, <2>2, <2>3, <2>4 DEF SchedulingNext, reads, writes, before, after
<1>2. QED
  BY <1>1, SchedulingInvariant, PTL DEF SchedulingSpec, AbortsIffUnschedulable

-----------------------------------------------------------------------------
Updates == 1 .. Len(updates)

(* No manager updates itself while it updates. *)
OneUpdateEach == \A i, j \in Updates : updates[i].manager = updates[j].manager => i = j

(* A flush leaves an empty batch to the layer after it. *)
LayersBatchless == \A i \in Updates : updates[i].phase = "layer" => updates[i].batch = <<>>

(* x modulo IdModulus, for x below twice the modulus. *)
Wrap(x) == IF x < IdModulus THEN x ELSE x - IdModulus

(* The commands of a batch and of the queue after it count on from the ones  *)
(* applied to the ones issued, and there are fewer than the modulus.          *)
CountOn(a, b, q, n) ==
  /\ Len(b) <= MaxQueue
  /\ Len(q) <= MaxQueue
  /\ \A i \in 1 .. Len(b) : b[i].id = Wrap(a + i - 1)
  /\ \A i \in 1 .. Len(q) : q[i].id = Wrap(a + Len(b) + i - 1)
  /\ n = Wrap(a + Len(b) + Len(q))

Consecutive == \A m \in Managers : CountOn(applied[m], BatchOf(m), queues[m], issued[m])

Dues ==
  \A m \in Managers :
    /\ \A i \in 1 .. Len(queues[m]) : queues[m][i].due = 1
    /\ \A i \in 1 .. Len(BatchOf(m)) : BatchOf(m)[i].due = 0

(* The systems of the layer an update is in. *)
LayerInForce(update) ==
  IF update.phase = "layer" /\ update.layer <= Len(Layers[update.manager])
  THEN Layers[update.manager][update.layer]
  ELSE {}

(* Whatever runs is in the layer of an update, and has not finished; only    *)
(* the innermost update's layer runs systems in parallel.                     *)
LayersRun ==
  /\ \A s \in running : \E i \in Updates : s \in LayerInForce(updates[i])
  /\ \A i \in Updates :
       /\ updates[i].layer # 0
       /\ updates[i].phase = "layer" =>
            updates[i].finished \subseteq LayerInForce(updates[i]) \ running
       /\ i < Len(updates) => Cardinality(LayerInForce(updates[i])) <= 1

UpdateInv ==
  /\ UpdateTypeOK
  /\ OneUpdateEach
  /\ LayersBatchless
  /\ Consecutive
  /\ Dues
  /\ LayersRun

-----------------------------------------------------------------------------
(* Numbers. *)

LEMMA Modulus ==
  /\ MaxQueue \in Nat /\ IdModulus \in Nat \ {0} /\ IdModulus = 2 * MaxQueue + 1
BY UpdateAssumptions DEF IdModulus

LEMMA WrapMod ==
  /\ \A x \in 0 .. 2 * IdModulus - 1 : x % IdModulus = Wrap(x) /\ Wrap(x) \in 0 .. IdModulus - 1
  /\ \A x \in 0 .. IdModulus - 1 : NextId(x) = Wrap(x + 1) /\ Wrap(x) = x
<1>1. ASSUME NEW x \in 0 .. 2 * IdModulus - 1
      PROVE  x % IdModulus = Wrap(x) /\ Wrap(x) \in 0 .. IdModulus - 1
  <2>1. CASE x < IdModulus
    <3>1. x \in 0 .. IdModulus - 1
      BY <2>1, Modulus
    <3>2. QED
      BY <2>1, <3>1, Modulus, Remainder DEF Wrap
  <2>2. CASE ~(x < IdModulus)
    <3>1. x \in IdModulus .. 2 * IdModulus - 1
      BY <2>2, Modulus
    <3>2. x - IdModulus \in 0 .. IdModulus - 1
      BY <3>1, Modulus
    <3>3. QED
      BY <2>2, <3>1, <3>2, Modulus, Remainder DEF Wrap
  <2>3. QED
    BY <2>1, <2>2
<1>2. ASSUME NEW x \in 0 .. IdModulus - 1 PROVE NextId(x) = Wrap(x + 1) /\ Wrap(x) = x
  <2>1. x + 1 \in 0 .. 2 * IdModulus - 1 /\ x < IdModulus
    BY Modulus
  <2>2. (x + 1) % IdModulus = Wrap(x + 1)
    BY <1>1, <2>1
  <2>3. NextId(x) = Wrap(x + 1)
    BY <2>2 DEF NextId
  <2>4. Wrap(x) = x
    BY <2>1 DEF Wrap
  <2>5. QED
    BY <2>3, <2>4
<1>3. QED
  BY <1>1, <1>2

(* Counting on from the next number. *)
LEMMA WrapShift ==
  ASSUME NEW a \in 0 .. IdModulus - 1, NEW k \in 0 .. IdModulus - 1
  PROVE  Wrap(Wrap(a + 1) + k) = Wrap(a + 1 + k)
BY Modulus DEF Wrap

LEMMA WrapNext ==
  ASSUME NEW a \in 0 .. IdModulus - 1, NEW k \in 0 .. IdModulus - 1
  PROVE  NextId(Wrap(a + k)) = Wrap(a + k + 1)
<1>1. a + k \in 0 .. 2 * IdModulus - 1
  BY Modulus
<1>2. Wrap(a + k) \in 0 .. IdModulus - 1
  BY <1>1, WrapMod
<1>3. NextId(Wrap(a + k)) = Wrap(Wrap(a + k) + 1)
  BY <1>2, WrapMod
<1>4. Wrap(Wrap(a + k) + 1) = Wrap(a + k + 1)
  BY Modulus DEF Wrap
<1>5. QED
  BY <1>3, <1>4

LEMMA Issued ==
  ASSUME NEW a \in 0 .. IdModulus - 1, NEW b \in Seq(Command), NEW q \in Seq(Command), NEW n,
         CountOn(a, b, q, n), Len(q) < MaxQueue, NEW c \in Command, c.id = n
  PROVE  CountOn(a, b, Append(q, c), NextId(n))
<1> DEFINE r == Append(q, c)
<1>1. Len(b) \in Nat /\ Len(q) \in Nat /\ Len(b) <= MaxQueue
  BY LenProperties DEF CountOn
<1>2. /\ Len(r) = Len(q) + 1
      /\ \A i \in 1 .. Len(q) : r[i] = q[i]
      /\ r[Len(q) + 1] = c
  BY Pushed
<1> HIDE DEF r
<1>3. Len(b) + Len(q) \in 0 .. IdModulus - 1 /\ Len(r) <= MaxQueue
  BY <1>1, <1>2, Modulus
<1>4. NextId(n) = Wrap(a + Len(b) + Len(r))
  <2>1. NextId(Wrap(a + (Len(b) + Len(q)))) = Wrap(a + (Len(b) + Len(q)) + 1)
    BY <1>3, WrapNext
  <2>2. /\ a + (Len(b) + Len(q)) = a + Len(b) + Len(q)
        /\ a + (Len(b) + Len(q)) + 1 = a + Len(b) + Len(r)
    BY <1>1, <1>2
  <2>3. QED
    BY <2>1, <2>2 DEF CountOn
<1>5. ASSUME NEW i \in 1 .. Len(r) PROVE r[i].id = Wrap(a + Len(b) + i - 1)
  <2>1. CASE i \in 1 .. Len(q)
    BY <1>2, <2>1 DEF CountOn
  <2>2. CASE i = Len(q) + 1
    <3>1. a + Len(b) + i - 1 = a + Len(b) + Len(q)
      BY <1>1, <2>2
    <3>2. QED
      BY <1>2, <2>2, <3>1 DEF CountOn
  <2>3. QED
    BY <1>1, <1>2, <2>1, <2>2
<1>6. QED
  BY <1>3, <1>4, <1>5 DEF CountOn, r

LEMMA Flushed ==
  ASSUME NEW a \in 0 .. IdModulus - 1, NEW q \in Seq(Command), NEW n, CountOn(a, <<>>, q, n),
         NEW t \in Seq(Command), Len(t) = Len(q), \A i \in 1 .. Len(t) : t[i].id = q[i].id
  PROVE  CountOn(a, t, <<>>, n)
<1>1. Len(t) \in Nat /\ Len(<<>>) = 0 /\ MaxQueue \in Nat
  BY LenProperties, Modulus
<1>2. a + Len(<<>>) + Len(q) = a + Len(t) + Len(<<>>)
  BY <1>1
<1>3. \A i \in 1 .. Len(t) : a + Len(<<>>) + i - 1 = a + i - 1
  BY <1>1
<1>4. Len(<<>>) <= MaxQueue /\ \A i \in 1 .. Len(<<>>) : FALSE
  BY <1>1
<1>5. QED
  BY <1>2, <1>3, <1>4 DEF CountOn

LEMMA Applied ==
  ASSUME NEW a \in 0 .. IdModulus - 1, NEW b \in Seq(Command), NEW q \in Seq(Command), NEW n,
         CountOn(a, b, q, n), b # <<>>
  PROVE  CountOn(NextId(a), Tail(b), q, n)
<1> DEFINE t == Tail(b)
<1>1. /\ Len(b) \in Nat \ {0} /\ Len(q) \in Nat /\ Len(b) <= MaxQueue /\ Len(q) <= MaxQueue
  BY LenProperties, EmptySeq DEF CountOn
<1>2. Len(t) = Len(b) - 1 /\ \A i \in 1 .. Len(t) : t[i] = b[i + 1]
  BY HeadTailProperties
<1> HIDE DEF t
<1>3. NextId(a) = Wrap(a + 1)
  BY WrapMod
<1>4. \A k \in 0 .. IdModulus - 1 : Wrap(NextId(a) + k) = Wrap(a + 1 + k)
  BY <1>3, WrapShift
<1>5. NextId(a) \in Nat
  BY <1>3, Modulus DEF Wrap
<1>6. ASSUME NEW i \in 1 .. Len(t) PROVE t[i].id = Wrap(NextId(a) + i - 1)
  <2>1. i - 1 \in 0 .. IdModulus - 1 /\ i + 1 \in 1 .. Len(b)
    BY <1>1, <1>2, Modulus
  <2>2. a + 1 + (i - 1) = a + (i + 1) - 1 /\ NextId(a) + (i - 1) = NextId(a) + i - 1
    BY <1>5
  <2>3. t[i].id = Wrap(a + (i + 1) - 1)
    BY <1>2, <2>1 DEF CountOn
  <2>4. Wrap(NextId(a) + (i - 1)) = Wrap(a + 1 + (i - 1))
    BY <1>4, <2>1
  <2>5. QED
    BY <2>2, <2>3, <2>4
<1>7. ASSUME NEW i \in 1 .. Len(q) PROVE q[i].id = Wrap(NextId(a) + Len(t) + i - 1)
  <2>1. Len(t) + i - 1 \in 0 .. IdModulus - 1
    BY <1>1, <1>2, Modulus
  <2>2. /\ a + 1 + (Len(t) + i - 1) = a + Len(b) + i - 1
        /\ NextId(a) + (Len(t) + i - 1) = NextId(a) + Len(t) + i - 1
    BY <1>1, <1>2, <1>5
  <2>3. Wrap(NextId(a) + (Len(t) + i - 1)) = Wrap(a + 1 + (Len(t) + i - 1))
    BY <1>4, <2>1
  <2>4. QED
    BY <2>2, <2>3 DEF CountOn
<1>8. n = Wrap(NextId(a) + Len(t) + Len(q))
  <2>1. Len(t) + Len(q) \in 0 .. IdModulus - 1
    BY <1>1, <1>2, Modulus
  <2>2. /\ a + 1 + (Len(t) + Len(q)) = a + Len(b) + Len(q)
        /\ NextId(a) + (Len(t) + Len(q)) = NextId(a) + Len(t) + Len(q)
    BY <1>1, <1>2, <1>5
  <2>3. Wrap(NextId(a) + (Len(t) + Len(q))) = Wrap(a + 1 + (Len(t) + Len(q)))
    BY <1>4, <2>1
  <2>4. QED
    BY <2>2, <2>3 DEF CountOn
<1>9. Len(t) <= MaxQueue
  BY <1>1, <1>2, Modulus
<1>10. QED
  BY <1>1, <1>6, <1>7, <1>8, <1>9 DEF CountOn, t

-----------------------------------------------------------------------------
(* The batch of a manager. *)

LEMMA BatchIs ==
  ASSUME NEW u \in Seq(Update), \A i, j \in 1 .. Len(u) : u[i].manager = u[j].manager => i = j,
         NEW m \in Managers, NEW D, D = {i \in DOMAIN u : u[i].manager = m}
  PROVE  \/ /\ D = {} /\ \A i \in 1 .. Len(u) : u[i].manager # m
         \/ \E i \in 1 .. Len(u) : D = {i} /\ u[i].manager = m /\ Min(D) = i
<1>1. DOMAIN u = 1 .. Len(u) /\ Len(u) \in Nat
  BY LenProperties
<1>2. ASSUME D # {} PROVE \E i \in 1 .. Len(u) : D = {i} /\ u[i].manager = m /\ Min(D) = i
  <2>1. PICK i \in 1 .. Len(u) : u[i].manager = m
    BY <1>1, <1>2
  <2>2. D = {i}
    BY <1>1, <2>1
  <2>3. Min(D) = i
    BY <1>1, <2>2, MinOfOne
  <2>4. QED
    BY <2>1, <2>2, <2>3
<1>3. QED
  BY <1>1, <1>2

LEMMA BatchNow ==
  ASSUME UpdateTypeOK, OneUpdateEach, NEW m \in Managers
  PROVE  /\ BatchOf(m) \in Seq(Command)
         /\ \A i \in Updates : updates[i].manager = m => BatchOf(m) = updates[i].batch
         /\ (\A i \in Updates : updates[i].manager # m) => BatchOf(m) = <<>>
<1>1. updates \in Seq(Update)
  BY DEF UpdateTypeOK
<1>2. \/ UpdateOf(m) = {} /\ \A i \in Updates : updates[i].manager # m
      \/ \E i \in Updates :
           /\ UpdateOf(m) = {i} /\ updates[i].manager = m /\ Min(UpdateOf(m)) = i
  BY SMTT(30), <1>1, BatchIs DEF OneUpdateEach, UpdateOf, Updates
<1>3. \A i \in Updates : updates[i] \in Update
  BY <1>1, ElementOfSeq DEF Updates
<1>4. QED
  BY <1>2, <1>3, EmptySeq DEF BatchOf, OneUpdateEach, Update

LEMMA BatchNext ==
  ASSUME UpdateTypeOK', OneUpdateEach', NEW m \in Managers
  PROVE  /\ BatchOf(m)' \in Seq(Command)
         /\ \A i \in Updates' : updates'[i].manager = m => BatchOf(m)' = updates'[i].batch
         /\ (\A i \in Updates' : updates'[i].manager # m) => BatchOf(m)' = <<>>
<1>1. updates' \in Seq(Update)
  BY DEF UpdateTypeOK
<1>2. \/ UpdateOf(m)' = {} /\ \A i \in Updates' : updates'[i].manager # m
      \/ \E i \in Updates' :
           /\ UpdateOf(m)' = {i} /\ updates'[i].manager = m /\ Min(UpdateOf(m)') = i
  BY SMTT(30), <1>1, BatchIs DEF OneUpdateEach, UpdateOf, Updates
<1>3. \A i \in Updates' : updates'[i] \in Update
  BY <1>1, ElementOfSeq DEF Updates
<1>4. QED
  BY <1>2, <1>3, EmptySeq DEF BatchOf, OneUpdateEach, Update

-----------------------------------------------------------------------------
(* The stack of updates. *)

LEMMA TopIs ==
  ASSUME UpdateTypeOK, updates # <<>>
  PROVE  /\ Len(updates) \in Nat \ {0}
         /\ Top = updates[Len(updates)] /\ Top \in Update
         /\ Front(updates) \in Seq(Update)
         /\ Len(Front(updates)) = Len(updates) - 1
         /\ \A i \in 1 .. Len(updates) - 1 : Front(updates)[i] = updates[i]
BY FrontLast DEF UpdateTypeOK, Top

LEMMA EachUpdate == ASSUME UpdateTypeOK, NEW i \in Updates PROVE updates[i] \in Update
BY ElementOfSeq DEF UpdateTypeOK, Updates

(* The rest of the stack is kept when the innermost update changes. *)
RestKept ==
  /\ updates' \in Seq(Update)
  /\ Len(updates') = Len(updates)
  /\ \A i \in 1 .. Len(updates) - 1 : updates'[i] = updates[i]

LEMMA TopBecomes ==
  ASSUME UpdateTypeOK, updates # <<>>, NEW u \in Update, Becomes(u)
  PROVE  RestKept /\ updates'[Len(updates)] = u
BY Replaced DEF UpdateTypeOK, Becomes, RestKept

(* What a flush takes is the queue, a flush nearer. *)
LEMMA TakenIs ==
  ASSUME UpdateTypeOK, Dues, updates # <<>>
  PROVE  /\ Taken \in Seq(Command)
         /\ Len(Taken) = Len(queues[Top.manager])
         /\ \A i \in 1 .. Len(Taken) :
              Taken[i].id = queues[Top.manager][i].id /\ Taken[i].due = 0
<1> DEFINE q == queues[Top.manager]
<1>1. Top.manager \in Managers
  BY TopIs DEF Update
<1>2. q \in Seq(Command)
  BY <1>1 DEF UpdateTypeOK
<1>3. Len(q) \in Nat /\ DOMAIN q = 1 .. Len(q) /\ \A i \in 1 .. Len(q) : q[i] \in Command
  BY <1>2, LenProperties, ElementOfSeq
<1>4. \A i \in 1 .. Len(q) : q[i].due = 1
  BY <1>1 DEF Dues
<1> HIDE DEF q
<1>5. ASSUME NEW i \in 1 .. Len(q)
      PROVE  /\ [q[i] EXCEPT !.due = @ - 1] \in Command
             /\ [q[i] EXCEPT !.due = @ - 1].id = q[i].id
             /\ [q[i] EXCEPT !.due = @ - 1].due = 0
  BY <1>3, <1>4 DEF Command
<1>6. Taken = [i \in 1 .. Len(q) |-> [q[i] EXCEPT !.due = @ - 1]]
  BY <1>3 DEF Taken, q
<1>7. Taken \in Seq(Command) /\ Len(Taken) = Len(q)
  BY <1>3, <1>5, <1>6
<1>8. QED
  BY <1>5, <1>6, <1>7 DEF q

(* What each action makes of the innermost update. *)
LEMMA TopSteps ==
  ASSUME UpdateInv
  PROVE  /\ \A s \in Systems : finishSystem(s) =>
              /\ updates # <<>> /\ RestKept
              /\ updates'[Len(updates)] = [Top EXCEPT !.finished = @ \cup {s}]
         /\ flushDeferred =>
              /\ updates # <<>> /\ RestKept
              /\ updates'[Len(updates)] = [Top EXCEPT !.phase = "flush", !.batch = Taken]
         /\ execute =>
              /\ updates # <<>> /\ RestKept
              /\ updates'[Len(updates)] = [Top EXCEPT !.phase = "command", !.batch = Tail(@)]
         /\ commandReturns =>
              /\ updates # <<>> /\ RestKept
              /\ updates'[Len(updates)] = [Top EXCEPT !.phase = "flush"]
         /\ flushReturns =>
              /\ updates # <<>>
              /\ AnotherLayer =>
                   /\ RestKept
                   /\ updates'[Len(updates)] =
                        [Top EXCEPT !.layer = @ + 1, !.phase = "layer", !.finished = {}]
              /\ ~AnotherLayer => updates' = Front(updates)
<1>1. UpdateTypeOK /\ Dues
  BY DEF UpdateInv
<1>2. ASSUME updates # <<>> PROVE Top \in Update
  BY <1>1, <1>2, TopIs
<1>3. ASSUME NEW s \in Systems, finishSystem(s)
      PROVE  /\ updates # <<>> /\ RestKept
             /\ updates'[Len(updates)] = [Top EXCEPT !.finished = @ \cup {s}]
  <2>1. updates # <<>> /\ Becomes([Top EXCEPT !.finished = @ \cup {s}])
    BY <1>3 DEF finishSystem, RunningHere, CurrentLayer, InLayer, In
  <2>2. [Top EXCEPT !.finished = @ \cup {s}] \in Update
    BY <1>2, <2>1 DEF Update
  <2>3. QED
    BY <1>1, <2>1, <2>2, TopBecomes
<1>4. ASSUME flushDeferred
      PROVE  /\ updates # <<>> /\ RestKept
             /\ updates'[Len(updates)] = [Top EXCEPT !.phase = "flush", !.batch = Taken]
  <2>1. updates # <<>> /\ Becomes([Top EXCEPT !.phase = "flush", !.batch = Taken])
    BY <1>4 DEF flushDeferred, In
  <2>2. Taken \in Seq(Command)
    BY <1>1, <2>1, TakenIs
  <2>3. [Top EXCEPT !.phase = "flush", !.batch = Taken] \in Update
    BY <1>2, <2>1, <2>2 DEF Update
  <2>4. QED
    BY <1>1, <2>1, <2>3, TopBecomes
<1>5. ASSUME execute
      PROVE  /\ updates # <<>> /\ RestKept
             /\ updates'[Len(updates)] = [Top EXCEPT !.phase = "command", !.batch = Tail(@)]
  <2>1. /\ updates # <<>> /\ Top.batch # <<>>
        /\ Becomes([Top EXCEPT !.phase = "command", !.batch = Tail(@)])
    BY <1>5 DEF execute, In
  <2>2. Top.batch \in Seq(Command)
    BY <1>2, <2>1 DEF Update
  <2>3. Tail(Top.batch) \in Seq(Command)
    BY <2>1, <2>2, HeadTailProperties
  <2>4. [Top EXCEPT !.phase = "command", !.batch = Tail(@)] \in Update
    BY <1>2, <2>1, <2>3 DEF Update
  <2>5. QED
    BY <1>1, <2>1, <2>4, TopBecomes
<1>6. ASSUME commandReturns
      PROVE  /\ updates # <<>> /\ RestKept
             /\ updates'[Len(updates)] = [Top EXCEPT !.phase = "flush"]
  <2>1. updates # <<>> /\ Becomes([Top EXCEPT !.phase = "flush"])
    BY <1>6 DEF commandReturns, LeavesQueued, In
  <2>2. [Top EXCEPT !.phase = "flush"] \in Update
    BY <1>2, <2>1 DEF Update
  <2>3. QED
    BY <1>1, <2>1, <2>2, TopBecomes
<1>7. ASSUME flushReturns, AnotherLayer
      PROVE  /\ RestKept
             /\ updates'[Len(updates)] =
                  [Top EXCEPT !.layer = @ + 1, !.phase = "layer", !.finished = {}]
  <2>1. /\ updates # <<>>
        /\ Becomes([Top EXCEPT !.layer = @ + 1, !.phase = "layer", !.finished = {}])
    BY <1>7 DEF flushReturns, In
  <2>2. Top.layer + 1 \in Nat
    BY <1>2, <2>1 DEF Update
  <2>3. [Top EXCEPT !.layer = @ + 1, !.phase = "layer", !.finished = {}] \in Update
    BY <1>2, <2>1, <2>2 DEF Update
  <2>4. QED
    BY <1>1, <2>1, <2>3, TopBecomes
<1>8. flushReturns => updates # <<>> /\ (~AnotherLayer => updates' = Front(updates))
  BY DEF flushReturns, In
<1>9. QED
  BY <1>3, <1>4, <1>5, <1>6, <1>7, <1>8

(* An update call goes on the stack. *)
LEMMA Pushes ==
  ASSUME UpdateInv, NEW m \in Managers, updateSystems(m)
  PROVE  /\ updates' \in Seq(Update)
         /\ Len(updates') = Len(updates) + 1
         /\ \A i \in Updates : updates'[i] = updates[i]
         /\ LET u == updates'[Len(updates) + 1]
            IN  /\ u.manager = m /\ u.layer = 1 /\ u.phase = "layer"
                /\ u.finished = {} /\ u.batch = <<>>
         /\ \A i \in Updates : updates[i].manager # m
<1> DEFINE u == [manager |-> m, layer |-> 1, phase |-> "layer",
                 finished |-> {}, batch |-> <<>>]
<1>1. updates \in Seq(Update) /\ updates' = Append(updates, u) /\ UpdateOf(m) = {}
  BY DEF UpdateInv, UpdateTypeOK, updateSystems
<1>2. u \in Update
  BY DEF Update
<1>3. \A i \in Updates : updates[i].manager # m
  BY <1>1, LenProperties DEF UpdateOf, Updates
<1>4. /\ updates' \in Seq(Update)
      /\ Len(updates') = Len(updates) + 1
      /\ \A i \in Updates : updates'[i] = updates[i]
      /\ updates'[Len(updates) + 1] = u
  BY <1>1, <1>2, Pushed DEF Updates
<1>5. QED
  BY <1>3, <1>4

(* A step leaves each update with its manager, pushes one or pops the innermost. *)
SameManagers ==
  Len(updates') = Len(updates) /\ \A i \in Updates : updates'[i].manager = updates[i].manager

LEMMA StackSteps ==
  ASSUME UpdateInv, [UpdateNext]_updateVars
  PROVE  /\ updates' \in Seq(Update)
         /\ \/ SameManagers
            \/ \E m \in Managers : updateSystems(m)
            \/ updates # <<>> /\ updates' = Front(updates)
<1> USE DEF UpdateInv
<1>1. updates \in Seq(Update) /\ Len(updates) \in Nat
  BY LenProperties DEF UpdateTypeOK
<1>2. \/ UNCHANGED updates
      \/ \E m \in Managers : updateSystems(m)
      \/ \E s \in Systems : finishSystem(s)
      \/ flushDeferred \/ execute \/ commandReturns \/ flushReturns
  BY DEF UpdateNext, updateVars, deferredChange, startSystem
<1>3. ASSUME updates # <<>>, RestKept,
             updates'[Len(updates)].manager = updates[Len(updates)].manager
      PROVE  updates' \in Seq(Update) /\ SameManagers
  BY <1>1, <1>3 DEF RestKept, SameManagers, Updates
<1>4. ASSUME updates # <<>> PROVE Top = updates[Len(updates)] /\ Top \in Update
  BY <1>4, TopIs
<1>5. CASE UNCHANGED updates
  BY <1>1, <1>5 DEF SameManagers
<1>6. ASSUME NEW m \in Managers, updateSystems(m) PROVE updates' \in Seq(Update)
  BY <1>6, Pushes
<1>7. ASSUME NEW s \in Systems, finishSystem(s)
      PROVE  updates' \in Seq(Update) /\ SameManagers
  <2>1. /\ updates # <<>> /\ RestKept
        /\ updates'[Len(updates)] = [Top EXCEPT !.finished = @ \cup {s}]
    BY <1>7, TopSteps
  <2>2. [Top EXCEPT !.finished = @ \cup {s}].manager = updates[Len(updates)].manager
    BY <1>4, <2>1 DEF Update
  <2>3. QED
    BY <1>3, <2>1, <2>2
<1>8. CASE flushDeferred
  BY <1>3, <1>4, <1>8, TopSteps DEF Update
<1>9. CASE execute
  BY <1>3, <1>4, <1>9, TopSteps DEF Update
<1>10. CASE commandReturns
  BY <1>3, <1>4, <1>10, TopSteps DEF Update
<1>11. CASE flushReturns
  <2>1. CASE AnotherLayer
    <3>1. /\ updates # <<>> /\ RestKept
          /\ updates'[Len(updates)] =
               [Top EXCEPT !.layer = @ + 1, !.phase = "layer", !.finished = {}]
      BY <1>11, <2>1, TopSteps
    <3>2. [Top EXCEPT !.layer = @ + 1, !.phase = "layer", !.finished = {}].manager
            = updates[Len(updates)].manager
      BY <1>4, <3>1 DEF Update
    <3>3. QED
      BY <1>3, <3>1, <3>2
  <2>2. CASE ~AnotherLayer
    BY <1>11, <2>2, TopSteps, TopIs
  <2>3. QED
    BY <2>1, <2>2
<1>12. QED
  BY <1>2, <1>5, <1>6, <1>7, <1>8, <1>9, <1>10, <1>11

LEMMA OneUpdateEachNext ==
  ASSUME UpdateInv, [UpdateNext]_updateVars
  PROVE  OneUpdateEach'
<1>1. OneUpdateEach /\ Len(updates) \in Nat
  BY LenProperties DEF UpdateInv, UpdateTypeOK
<1>2. CASE SameManagers
  BY <1>1, <1>2 DEF SameManagers, OneUpdateEach, Updates
<1>3. ASSUME NEW m \in Managers, updateSystems(m) PROVE OneUpdateEach'
  <2>1. /\ Len(updates') = Len(updates) + 1
        /\ \A i \in Updates : updates'[i] = updates[i] /\ updates[i].manager # m
        /\ updates'[Len(updates) + 1].manager = m
    BY <1>3, Pushes
  <2>2. \A i \in Updates' : i \in Updates \/ i = Len(updates) + 1
    BY <1>1, <2>1 DEF Updates
  <2>3. QED
    BY <1>1, <2>1, <2>2 DEF OneUpdateEach
<1>4. CASE updates # <<>> /\ updates' = Front(updates)
  <2>1. /\ Len(updates') = Len(updates) - 1
        /\ \A i \in 1 .. Len(updates) - 1 : updates'[i] = updates[i]
    BY <1>4, TopIs DEF UpdateInv
  <2>2. \A i \in Updates' : i \in Updates /\ updates'[i] = updates[i]
    BY <1>1, <2>1 DEF Updates
  <2>3. QED
    BY <1>1, <2>2 DEF OneUpdateEach
<1>5. QED
  BY <1>2, <1>3, <1>4, StackSteps

LEMMA TypesNext ==
  ASSUME UpdateInv, [UpdateNext]_updateVars
  PROVE  UpdateTypeOK'
<1>1. updates' \in Seq(Update)
  BY StackSteps
<1>2. UpdateTypeOK
  BY DEF UpdateInv
<1>3. running' \subseteq Systems
  BY <1>2 DEF UpdateTypeOK, UpdateNext, updateVars, deferredChange, updateSystems, startSystem,
       finishSystem, flushDeferred, execute, commandReturns, flushReturns
<1>4. \A x \in 0 .. IdModulus - 1 : NextId(x) \in 0 .. IdModulus - 1
  BY Modulus DEF NextId
<1>5. flushDeferred \/ execute => Top.manager \in Managers
  BY <1>2, TopIs DEF flushDeferred, execute, In, Update
<1>6. /\ issued' \in [Managers -> 0 .. IdModulus - 1]
      /\ applied' \in [Managers -> 0 .. IdModulus - 1]
  <2> DEFINE Ids == [Managers -> 0 .. IdModulus - 1]
  <2>1. ASSUME NEW f \in Ids, NEW m \in Managers PROVE [f EXCEPT ![m] = NextId(@)] \in Ids
    BY <1>4
  <2>2. issued \in Ids /\ applied \in Ids
    BY <1>2 DEF UpdateTypeOK
  <2> HIDE DEF Ids
  <2>3. \/ UNCHANGED historyVars
        \/ UNCHANGED applied /\ \E m \in Managers : issued' = [issued EXCEPT ![m] = NextId(@)]
        \/ UNCHANGED issued /\ \E m \in Managers : applied' = [applied EXCEPT ![m] = NextId(@)]
    BY <1>5 DEF UpdateNext, updateVars, historyVars, deferredChange, updateSystems,
       startSystem, finishSystem, flushDeferred, execute, commandReturns, flushReturns
  <2>4. issued' \in Ids /\ applied' \in Ids
    BY <2>1, <2>2, <2>3 DEF historyVars
  <2>5. QED
    BY <2>4 DEF Ids
<1>7. queues' \in [Managers -> Seq(Command)]
  <2>1. \/ UNCHANGED queues
        \/ \E m \in Managers : queues' = [queues EXCEPT ![m] = Append(@, NewCommand(m))]
        \/ \E m \in Managers : queues' = [queues EXCEPT ![m] = <<>>]
    BY <1>5 DEF UpdateNext, updateVars, historyVars, deferredChange, updateSystems, startSystem,
       finishSystem, flushDeferred, execute, commandReturns, LeavesQueued, flushReturns
  <2>2. \A m \in Managers : NewCommand(m) \in Command
    BY <1>2 DEF UpdateTypeOK, NewCommand, Command
  <2>3. \A m \in Managers : Append(queues[m], NewCommand(m)) \in Seq(Command)
    BY <1>2, <2>2, AppendProperties DEF UpdateTypeOK
  <2>4. \A f \in [Managers -> Seq(Command)], m \in Managers, q \in Seq(Command) :
          [f EXCEPT ![m] = q] \in [Managers -> Seq(Command)]
    OBVIOUS
  <2>5. queues \in [Managers -> Seq(Command)] /\ <<>> \in Seq(Command)
    BY <1>2 DEF UpdateTypeOK
  <2>6. CASE UNCHANGED queues
    BY <2>5, <2>6
  <2>7. ASSUME NEW m \in Managers, queues' = [queues EXCEPT ![m] = Append(@, NewCommand(m))]
        PROVE  queues' \in [Managers -> Seq(Command)]
    BY <2>3, <2>4, <2>5, <2>7
  <2>8. ASSUME NEW m \in Managers, queues' = [queues EXCEPT ![m] = <<>>]
        PROVE  queues' \in [Managers -> Seq(Command)]
    BY <2>4, <2>5, <2>8
  <2>9. QED
    BY <2>1, <2>6, <2>7, <2>8
<1>8. QED
  BY <1>1, <1>3, <1>6, <1>7 DEF UpdateTypeOK

LEMMA LayersBatchlessNext ==
  ASSUME UpdateInv, [UpdateNext]_updateVars
  PROVE  LayersBatchless'
<1>1. LayersBatchless /\ Len(updates) \in Nat
  BY LenProperties DEF UpdateInv, UpdateTypeOK
<1>2. \/ UNCHANGED updates
      \/ \E m \in Managers : updateSystems(m)
      \/ \E s \in Systems : finishSystem(s)
      \/ flushDeferred \/ execute \/ commandReturns \/ flushReturns
  BY DEF UpdateNext, updateVars, deferredChange, startSystem
<1>3. ASSUME updates # <<>>, RestKept,
             updates'[Len(updates)].phase = "layer" => updates'[Len(updates)].batch = <<>>
      PROVE  LayersBatchless'
  BY <1>1, <1>3 DEF RestKept, LayersBatchless, Updates
<1>4. ASSUME updates # <<>>
      PROVE  /\ Top = updates[Len(updates)] /\ Top \in Update
             /\ Top.phase = "layer" => Top.batch = <<>>
  <2>1. Top = updates[Len(updates)] /\ Top \in Update /\ Len(updates) \in Updates
    BY <1>1, <1>4, TopIs DEF UpdateInv, Updates
  <2>2. QED
    BY <1>1, <2>1 DEF LayersBatchless
<1>5. CASE UNCHANGED updates
  BY <1>1, <1>5 DEF LayersBatchless, Updates
<1>6. ASSUME NEW m \in Managers, updateSystems(m) PROVE LayersBatchless'
  <2>1. /\ Len(updates') = Len(updates) + 1
        /\ \A i \in Updates : updates'[i] = updates[i]
        /\ updates'[Len(updates) + 1].batch = <<>>
    BY <1>6, Pushes
  <2>2. \A i \in Updates' : i \in Updates \/ i = Len(updates) + 1
    BY <1>1, <2>1 DEF Updates
  <2>3. QED
    BY <1>1, <2>1, <2>2 DEF LayersBatchless
<1>7. ASSUME NEW s \in Systems, finishSystem(s) PROVE LayersBatchless'
  BY <1>3, <1>4, <1>7, TopSteps DEF Update
<1>8. CASE flushDeferred
  BY <1>3, <1>4, <1>8, TopSteps DEF Update
<1>9. CASE execute
  BY <1>3, <1>4, <1>9, TopSteps DEF Update
<1>10. CASE commandReturns
  BY <1>3, <1>4, <1>10, TopSteps DEF Update
<1>11. CASE flushReturns
  <2>1. Top.batch = <<>>
    BY <1>11 DEF flushReturns
  <2>2. CASE AnotherLayer
    BY <1>3, <1>4, <1>11, <2>1, <2>2, TopSteps DEF Update
  <2>3. CASE ~AnotherLayer
    <3>1. /\ Len(updates') = Len(updates) - 1
          /\ \A i \in 1 .. Len(updates) - 1 : updates'[i] = updates[i]
      BY <1>11, <2>3, TopSteps, TopIs DEF UpdateInv
    <3>2. QED
      BY <1>1, <3>1 DEF LayersBatchless, Updates
  <2>4. QED
    BY <2>2, <2>3
<1>12. QED
  BY <1>2, <1>5, <1>6, <1>7, <1>8, <1>9, <1>10, <1>11

-----------------------------------------------------------------------------
(* What is issued and not applied. *)

LEMMA SameBatches ==
  ASSUME UpdateTypeOK, OneUpdateEach, UpdateTypeOK', OneUpdateEach',
         \/ UNCHANGED updates
         \/ /\ SameManagers
            /\ \A i \in Updates : updates'[i].batch = updates[i].batch
         \/ /\ updates # <<>> /\ updates' = Front(updates)
            /\ Top.batch = <<>>
         \/ /\ Len(updates') = Len(updates) + 1
            /\ \A i \in Updates : updates'[i] = updates[i]
            /\ updates'[Len(updates) + 1].batch = <<>>,
         NEW m \in Managers
  PROVE  BatchOf(m)' = BatchOf(m)
<1>1. /\ \A i \in Updates : updates[i].manager = m => BatchOf(m) = updates[i].batch
      /\ (\A i \in Updates : updates[i].manager # m) => BatchOf(m) = <<>>
  BY BatchNow
<1>2. /\ \A i \in Updates' : updates'[i].manager = m => BatchOf(m)' = updates'[i].batch
      /\ (\A i \in Updates' : updates'[i].manager # m) => BatchOf(m)' = <<>>
  BY BatchNext
<1>3. Len(updates) \in Nat
  BY LenProperties DEF UpdateTypeOK
<1> HIDE DEF BatchOf
<1>4. CASE UNCHANGED updates
  BY <1>1, <1>2, <1>4 DEF Updates
<1>5. CASE SameManagers /\ \A i \in Updates : updates'[i].batch = updates[i].batch
  <2>1. Updates' = Updates
    BY <1>5 DEF Updates, SameManagers
  <2>2. QED
    BY <1>1, <1>2, <1>5, <2>1 DEF SameManagers
<1>6. CASE updates # <<>> /\ updates' = Front(updates) /\ Top.batch = <<>>
  <2>1. /\ Len(updates') = Len(updates) - 1 /\ Top = updates[Len(updates)]
        /\ \A i \in 1 .. Len(updates) - 1 : updates'[i] = updates[i]
        /\ Len(updates) \in Nat \ {0}
    BY <1>6, TopIs
  <2>2. /\ \A i \in Updates' : i \in Updates /\ updates'[i] = updates[i]
        /\ \A i \in Updates : i \in Updates' \/ i = Len(updates)
        /\ Len(updates) \in Updates
    BY <1>3, <2>1 DEF Updates
  <2>3. QED
    BY <1>1, <1>2, <1>6, <2>1, <2>2
<1>7. CASE /\ Len(updates') = Len(updates) + 1
           /\ \A i \in Updates : updates'[i] = updates[i]
           /\ updates'[Len(updates) + 1].batch = <<>>
  <2>1. /\ \A i \in Updates : i \in Updates'
        /\ \A i \in Updates' : i \in Updates \/ i = Len(updates) + 1
        /\ Len(updates) + 1 \in Updates'
    BY <1>3, <1>7 DEF Updates
  <2>2. QED
    BY <1>1, <1>2, <1>7, <2>1
<1>8. QED
  BY <1>4, <1>5, <1>6, <1>7

LEMMA TopBatch ==
  ASSUME UpdateTypeOK, OneUpdateEach, UpdateTypeOK', OneUpdateEach',
         updates # <<>>, RestKept, updates'[Len(updates)].manager = Top.manager,
         NEW m \in Managers
  PROVE  /\ m = Top.manager =>
              BatchOf(m) = Top.batch /\ BatchOf(m)' = updates'[Len(updates)].batch
         /\ m # Top.manager => BatchOf(m)' = BatchOf(m)
<1>1. /\ \A i \in Updates : updates[i].manager = m => BatchOf(m) = updates[i].batch
      /\ (\A i \in Updates : updates[i].manager # m) => BatchOf(m) = <<>>
  BY BatchNow
<1>2. /\ \A i \in Updates' : updates'[i].manager = m => BatchOf(m)' = updates'[i].batch
      /\ (\A i \in Updates' : updates'[i].manager # m) => BatchOf(m)' = <<>>
  BY BatchNext
<1>3. /\ Len(updates) \in Nat \ {0} /\ Top = updates[Len(updates)]
      /\ Updates' = Updates /\ Len(updates) \in Updates
      /\ \A i \in Updates : i = Len(updates) \/ updates'[i] = updates[i]
  BY TopIs DEF RestKept, Updates
<1> HIDE DEF BatchOf
<1>4. QED
  BY <1>1, <1>2, <1>3

(* The four ways of the commands issued and not applied. *)
LEMMA CommandSteps ==
  ASSUME UpdateInv, [UpdateNext]_updateVars
  PROVE  \/ /\ UNCHANGED <<queues, issued, applied>>
            /\ \A m \in Managers : BatchOf(m)' = BatchOf(m)
         \/ \E n \in Managers :
              /\ deferredChange(n)
              /\ \A m \in Managers : BatchOf(m)' = BatchOf(m)
         \/ \E n \in Managers :
              /\ queues' = [queues EXCEPT ![n] = <<>>]
              /\ UNCHANGED <<issued, applied>>
              /\ BatchOf(n) = <<>>
              /\ BatchOf(n)' \in Seq(Command)
              /\ Len(BatchOf(n)') = Len(queues[n])
              /\ \A i \in 1 .. Len(BatchOf(n)') :
                   BatchOf(n)'[i].id = queues[n][i].id /\ BatchOf(n)'[i].due = 0
              /\ \A m \in Managers \ {n} : BatchOf(m)' = BatchOf(m)
         \/ \E n \in Managers :
              /\ applied' = [applied EXCEPT ![n] = NextId(@)]
              /\ UNCHANGED <<queues, issued>>
              /\ BatchOf(n) # <<>>
              /\ BatchOf(n)' = Tail(BatchOf(n))
              /\ \A m \in Managers \ {n} : BatchOf(m)' = BatchOf(m)
<1>1. UpdateTypeOK /\ OneUpdateEach /\ UpdateTypeOK' /\ OneUpdateEach'
  BY TypesNext, OneUpdateEachNext DEF UpdateInv
<1>2. ASSUME updates # <<>>
      PROVE  /\ Top = updates[Len(updates)] /\ Top \in Update /\ Len(updates) \in Updates
             /\ Top.manager \in Managers
             /\ Top.phase = "layer" => Top.batch = <<>>
             /\ Len(updates) \in Nat \ {0}
  <2>1. /\ Top = updates[Len(updates)] /\ Top \in Update /\ Len(updates) \in Updates
        /\ Len(updates) \in Nat \ {0}
    BY <1>1, <1>2, TopIs DEF Updates
  <2>2. QED
    BY <2>1 DEF UpdateInv, LayersBatchless, Update
<1>3. ASSUME updates # <<>>, RestKept,
             updates'[Len(updates)].manager = Top.manager,
             updates'[Len(updates)].batch = Top.batch
      PROVE  SameManagers /\ \A i \in Updates : updates'[i].batch = updates[i].batch
  BY <1>2, <1>3 DEF RestKept, SameManagers, Updates
<1>4. CASE UNCHANGED updateVars
  BY <1>1, <1>4, SameBatches DEF updateVars, historyVars
<1>5. ASSUME NEW n \in Managers, deferredChange(n)
      PROVE  \A m \in Managers : BatchOf(m)' = BatchOf(m)
  BY <1>1, <1>5, SameBatches DEF deferredChange
<1>6. ASSUME NEW n \in Managers, updateSystems(n)
      PROVE  /\ UNCHANGED <<queues, issued, applied>>
             /\ \A m \in Managers : BatchOf(m)' = BatchOf(m)
  <2>1. /\ Len(updates') = Len(updates) + 1
        /\ \A i \in Updates : updates'[i] = updates[i]
        /\ updates'[Len(updates) + 1].batch = <<>>
    BY <1>6, Pushes
  <2>2. QED
    BY <1>1, <1>6, <2>1, SameBatches DEF updateSystems, historyVars
<1>7. ASSUME NEW s \in Systems, startSystem(s)
      PROVE  /\ UNCHANGED <<queues, issued, applied>>
             /\ \A m \in Managers : BatchOf(m)' = BatchOf(m)
  BY <1>1, <1>7, SameBatches DEF startSystem, historyVars
<1>8. ASSUME NEW s \in Systems, finishSystem(s)
      PROVE  /\ UNCHANGED <<queues, issued, applied>>
             /\ \A m \in Managers : BatchOf(m)' = BatchOf(m)
  <2>1. SameManagers /\ \A i \in Updates : updates'[i].batch = updates[i].batch
    BY <1>2, <1>3, <1>8, TopSteps DEF Update
  <2>2. QED
    BY <1>1, <1>8, <2>1, SameBatches DEF finishSystem, historyVars
<1>9. CASE commandReturns
  <2>1. SameManagers /\ \A i \in Updates : updates'[i].batch = updates[i].batch
    BY <1>2, <1>3, <1>9, TopSteps DEF Update
  <2>2. QED
    BY <1>1, <1>9, <2>1, SameBatches DEF commandReturns, LeavesQueued, historyVars
<1>10. CASE flushReturns
  <2>1. Top.batch = <<>>
    BY <1>10 DEF flushReturns
  <2>2. \/ SameManagers /\ \A i \in Updates : updates'[i].batch = updates[i].batch
        \/ updates # <<>> /\ updates' = Front(updates)
    BY <1>2, <1>3, <1>10, <2>1, TopSteps DEF Update
  <2>3. QED
    BY <1>1, <1>10, <2>1, <2>2, SameBatches DEF flushReturns, historyVars
<1>11. CASE flushDeferred
  <2>1. /\ updates # <<>> /\ RestKept
        /\ updates'[Len(updates)] = [Top EXCEPT !.phase = "flush", !.batch = Taken]
    BY <1>11, TopSteps
  <2>2. PICK n \in Managers : n = Top.manager
    BY <1>2, <2>1
  <2>3. updates'[Len(updates)].manager = Top.manager /\ updates'[Len(updates)].batch = Taken
    BY <1>2, <2>1 DEF Update
  <2>4. Top.batch = <<>> /\ queues' = [queues EXCEPT ![n] = <<>>] /\ UNCHANGED <<issued, applied>>
    BY <1>2, <1>11, <2>1, <2>2 DEF flushDeferred, In, historyVars
  <2>5. /\ BatchOf(n) = <<>> /\ BatchOf(n)' = Taken
        /\ \A m \in Managers \ {n} : BatchOf(m)' = BatchOf(m)
    BY <1>1, <2>1, <2>2, <2>3, <2>4, TopBatch
  <2>6. /\ Taken \in Seq(Command) /\ Len(Taken) = Len(queues[n])
        /\ \A i \in 1 .. Len(Taken) : Taken[i].id = queues[n][i].id /\ Taken[i].due = 0
    BY <2>1, <2>2, TakenIs DEF UpdateInv
  <2>7. QED
    BY <2>4, <2>5, <2>6
<1>12. CASE execute
  <2>1. /\ updates # <<>> /\ RestKept
        /\ updates'[Len(updates)] = [Top EXCEPT !.phase = "command", !.batch = Tail(@)]
    BY <1>12, TopSteps
  <2>2. PICK n \in Managers : n = Top.manager
    BY <1>2, <2>1
  <2>3. /\ updates'[Len(updates)].manager = Top.manager
        /\ updates'[Len(updates)].batch = Tail(Top.batch)
    BY <1>2, <2>1 DEF Update
  <2>4. /\ Top.batch # <<>> /\ applied' = [applied EXCEPT ![n] = NextId(@)]
        /\ UNCHANGED <<queues, issued>>
    BY <1>12, <2>2 DEF execute
  <2>5. /\ BatchOf(n) = Top.batch /\ BatchOf(n)' = Tail(Top.batch)
        /\ \A m \in Managers \ {n} : BatchOf(m)' = BatchOf(m)
    BY <1>1, <2>1, <2>2, <2>3, TopBatch
  <2>6. QED
    BY <2>4, <2>5
<1>13. QED
  BY <1>4, <1>5, <1>6, <1>7, <1>8, <1>9, <1>10, <1>11, <1>12 DEF UpdateNext

LEMMA ConsecutiveNext ==
  ASSUME UpdateInv, [UpdateNext]_updateVars
  PROVE  Consecutive'
<1>1. \A m \in Managers :
        /\ applied[m] \in 0 .. IdModulus - 1
        /\ queues[m] \in Seq(Command)
        /\ BatchOf(m) \in Seq(Command)
        /\ CountOn(applied[m], BatchOf(m), queues[m], issued[m])
  BY BatchNow DEF UpdateInv, UpdateTypeOK, Consecutive
<1>2. /\ DOMAIN applied = Managers /\ DOMAIN queues = Managers /\ DOMAIN issued = Managers
  BY DEF UpdateInv, UpdateTypeOK
<1> HIDE DEF BatchOf
<1>3. CASE /\ UNCHANGED <<queues, issued, applied>>
           /\ \A m \in Managers : BatchOf(m)' = BatchOf(m)
  BY <1>1, <1>3 DEF Consecutive
<1>4. ASSUME NEW n \in Managers, deferredChange(n),
             \A m \in Managers : BatchOf(m)' = BatchOf(m)
      PROVE  Consecutive'
  <2>1. /\ Len(queues[n]) < MaxQueue /\ UNCHANGED applied
        /\ queues' = [queues EXCEPT ![n] = Append(@, NewCommand(n))]
        /\ issued' = [issued EXCEPT ![n] = NextId(@)]
    BY <1>4 DEF deferredChange
  <2>2. NewCommand(n) \in Command /\ NewCommand(n).id = issued[n]
    BY DEF UpdateInv, UpdateTypeOK, NewCommand, Command
  <2>3. CountOn(applied[n], BatchOf(n), Append(queues[n], NewCommand(n)), NextId(issued[n]))
    BY <1>1, <2>1, <2>2, Issued
  <2>4. /\ queues'[n] = Append(queues[n], NewCommand(n)) /\ issued'[n] = NextId(issued[n])
        /\ \A m \in Managers \ {n} : queues'[m] = queues[m] /\ issued'[m] = issued[m]
    BY <1>2, <2>1
  <2>5. QED
    BY <1>1, <1>4, <2>1, <2>3, <2>4 DEF Consecutive
<1>5. ASSUME NEW n \in Managers,
             queues' = [queues EXCEPT ![n] = <<>>], UNCHANGED <<issued, applied>>,
             BatchOf(n) = <<>>, BatchOf(n)' \in Seq(Command),
             Len(BatchOf(n)') = Len(queues[n]),
             \A i \in 1 .. Len(BatchOf(n)') : BatchOf(n)'[i].id = queues[n][i].id,
             \A m \in Managers \ {n} : BatchOf(m)' = BatchOf(m)
      PROVE  Consecutive'
  <2>1. CountOn(applied[n], BatchOf(n)', <<>>, issued[n])
    BY <1>1, <1>5, Flushed
  <2>2. queues'[n] = <<>> /\ \A m \in Managers \ {n} : queues'[m] = queues[m]
    BY <1>2, <1>5
  <2>3. QED
    BY <1>1, <1>5, <2>1, <2>2 DEF Consecutive
<1>6. ASSUME NEW n \in Managers,
             applied' = [applied EXCEPT ![n] = NextId(@)], UNCHANGED <<queues, issued>>,
             BatchOf(n) # <<>>, BatchOf(n)' = Tail(BatchOf(n)),
             \A m \in Managers \ {n} : BatchOf(m)' = BatchOf(m)
      PROVE  Consecutive'
  <2>1. CountOn(NextId(applied[n]), Tail(BatchOf(n)), queues[n], issued[n])
    BY <1>1, <1>6, Applied
  <2>2. /\ applied'[n] = NextId(applied[n])
        /\ \A m \in Managers \ {n} : applied'[m] = applied[m]
    BY <1>2, <1>6
  <2>3. QED
    BY <1>1, <1>6, <2>1, <2>2 DEF Consecutive
<1>7. QED
  BY <1>3, <1>4, <1>5, <1>6, CommandSteps

LEMMA DuesNext ==
  ASSUME UpdateInv, [UpdateNext]_updateVars
  PROVE  Dues'
<1>1. \A m \in Managers :
        /\ queues[m] \in Seq(Command)
        /\ BatchOf(m) \in Seq(Command)
        /\ \A i \in 1 .. Len(queues[m]) : queues[m][i].due = 1
        /\ \A i \in 1 .. Len(BatchOf(m)) : BatchOf(m)[i].due = 0
  BY BatchNow DEF UpdateInv, UpdateTypeOK, Dues
<1>2. DOMAIN queues = Managers
  BY DEF UpdateInv, UpdateTypeOK
<1> HIDE DEF BatchOf
<1>3. CASE /\ UNCHANGED <<queues, issued, applied>>
           /\ \A m \in Managers : BatchOf(m)' = BatchOf(m)
  BY <1>1, <1>3 DEF Dues
<1>4. ASSUME NEW n \in Managers, deferredChange(n),
             \A m \in Managers : BatchOf(m)' = BatchOf(m)
      PROVE  Dues'
  <2>1. queues' = [queues EXCEPT ![n] = Append(@, NewCommand(n))]
    BY <1>4 DEF deferredChange
  <2>2. NewCommand(n) \in Command /\ NewCommand(n).due = 1
    BY DEF UpdateInv, UpdateTypeOK, NewCommand, Command
  <2>3. \A i \in 1 .. Len(Append(queues[n], NewCommand(n))) :
          Append(queues[n], NewCommand(n))[i].due = 1
    <3> DEFINE q == Append(queues[n], NewCommand(n))
    <3>1. /\ Len(queues[n]) \in Nat /\ Len(q) = Len(queues[n]) + 1
          /\ \A i \in 1 .. Len(queues[n]) : q[i] = queues[n][i]
          /\ q[Len(queues[n]) + 1] = NewCommand(n)
      BY <1>1, <2>2, Pushed
    <3> HIDE DEF q
    <3>2. \A i \in 1 .. Len(q) : i \in 1 .. Len(queues[n]) \/ i = Len(queues[n]) + 1
      BY <3>1
    <3>3. \A i \in 1 .. Len(q) : q[i].due = 1
      BY <1>1, <2>2, <3>1, <3>2
    <3>4. QED
      BY <3>3 DEF q
  <2>4. /\ queues'[n] = Append(queues[n], NewCommand(n))
        /\ \A m \in Managers \ {n} : queues'[m] = queues[m]
    BY <1>2, <2>1
  <2>5. SUFFICES ASSUME NEW m \in Managers
        PROVE  /\ \A i \in 1 .. Len(queues'[m]) : queues'[m][i].due = 1
               /\ \A i \in 1 .. Len(BatchOf(m)') : BatchOf(m)'[i].due = 0
    BY DEF Dues
  <2>6. CASE m = n
    BY <1>1, <1>4, <2>3, <2>4, <2>6
  <2>7. CASE m # n
    BY SMTT(30), <1>1, <1>4, <2>3, <2>4, <2>7
  <2>8. QED
    BY <2>6, <2>7
<1>5. ASSUME NEW n \in Managers, queues' = [queues EXCEPT ![n] = <<>>],
             \A i \in 1 .. Len(BatchOf(n)') : BatchOf(n)'[i].due = 0,
             \A m \in Managers \ {n} : BatchOf(m)' = BatchOf(m)
      PROVE  Dues'
  <2>1. queues'[n] = <<>> /\ \A m \in Managers \ {n} : queues'[m] = queues[m]
    BY <1>2, <1>5
  <2>2. \A i \in 1 .. Len(<<>>) : FALSE
    OBVIOUS
  <2>3. QED
    BY <1>1, <1>5, <2>1, <2>2 DEF Dues
<1>6. ASSUME NEW n \in Managers, UNCHANGED <<queues, issued>>,
             BatchOf(n) # <<>>, BatchOf(n)' = Tail(BatchOf(n)),
             \A m \in Managers \ {n} : BatchOf(m)' = BatchOf(m)
      PROVE  Dues'
  <2>1. /\ Len(BatchOf(n)) \in Nat /\ Len(Tail(BatchOf(n))) = Len(BatchOf(n)) - 1
        /\ \A i \in 1 .. Len(Tail(BatchOf(n))) : Tail(BatchOf(n))[i] = BatchOf(n)[i + 1]
    BY <1>1, <1>6, HeadTailProperties, LenProperties
  <2>2. \A i \in 1 .. Len(Tail(BatchOf(n))) : i + 1 \in 1 .. Len(BatchOf(n))
    BY <2>1
  <2>3. \A i \in 1 .. Len(Tail(BatchOf(n))) : Tail(BatchOf(n))[i].due = 0
    BY <1>1, <2>1, <2>2
  <2>4. SUFFICES ASSUME NEW m \in Managers
        PROVE  /\ \A i \in 1 .. Len(queues'[m]) : queues'[m][i].due = 1
               /\ \A i \in 1 .. Len(BatchOf(m)') : BatchOf(m)'[i].due = 0
    BY DEF Dues
  <2>5. CASE m = n
    BY <1>1, <1>6, <2>3, <2>5
  <2>6. CASE m # n
    BY <1>1, <1>6, <2>3, <2>6
  <2>7. QED
    BY <2>5, <2>6
<1>7. QED
  BY <1>3, <1>4, <1>5, <1>6, CommandSteps

-----------------------------------------------------------------------------
(* Layers. *)

LEMMA LayerIs ==
  ASSUME NEW u \in Update, u.layer # 0, NEW s \in LayerInForce(u)
  PROVE  /\ u.phase = "layer" /\ u.manager \in Managers
         /\ u.layer \in DOMAIN Layers[u.manager]
         /\ LayerInForce(u) = Layers[u.manager][u.layer]
         /\ LayerInForce(u) \subseteq Systems
<1>1. /\ u.phase = "layer" /\ u.layer <= Len(Layers[u.manager])
      /\ u.manager \in Managers /\ u.layer \in Nat
      /\ LayerInForce(u) = Layers[u.manager][u.layer]
  BY DEF LayerInForce, Update
<1>2. Layers[u.manager] \in Seq(SUBSET Systems)
  BY <1>1, UpdateAssumptions
<1>3. DOMAIN Layers[u.manager] = 1 .. Len(Layers[u.manager])
      /\ Len(Layers[u.manager]) \in Nat
  BY <1>2, LenProperties
<1>4. u.layer \in 1 .. Len(Layers[u.manager])
  BY <1>1, <1>3
<1>5. Layers[u.manager][u.layer] \in SUBSET Systems
  BY <1>2, <1>4, ElementOfSeq
<1>6. QED
  BY <1>1, <1>3, <1>4, <1>5

LEMMA LayersApart ==
  ASSUME UpdateInv, NEW i \in Updates, NEW j \in Updates,
         NEW s \in LayerInForce(updates[i]), s \in LayerInForce(updates[j])
  PROVE  i = j
<1>1. /\ updates[i] \in Update /\ updates[i].layer # 0
      /\ updates[j] \in Update /\ updates[j].layer # 0
  BY EachUpdate DEF UpdateInv, LayersRun
<1>2. updates[i].manager = updates[j].manager
  BY <1>1, LayerIs, UpdateAssumptions
<1>3. QED
  BY <1>2 DEF UpdateInv, OneUpdateEach

LEMMA TopLayer ==
  ASSUME UpdateTypeOK
  PROVE  /\ updates = <<>> => CurrentLayer = {}
         /\ updates # <<>> => CurrentLayer = LayerInForce(Top)
BY DEF CurrentLayer, InLayer, In, LayerInForce

LEMMA LayersRunNext ==
  ASSUME UpdateInv, [UpdateNext]_updateVars
  PROVE  LayersRun'
<1>1. UpdateTypeOK /\ LayersRun /\ Len(updates) \in Nat
  BY LenProperties DEF UpdateInv, UpdateTypeOK
<1>2. ASSUME updates # <<>>
      PROVE  /\ Len(updates) \in Nat \ {0} /\ Len(updates) \in Updates
             /\ Top = updates[Len(updates)] /\ Top \in Update
             /\ CurrentLayer = LayerInForce(Top)
             /\ Top.layer # 0
             /\ Top.phase = "layer" => Top.finished \subseteq LayerInForce(Top) \ running
  <2>1. /\ Len(updates) \in Nat \ {0} /\ Len(updates) \in Updates
        /\ Top = updates[Len(updates)] /\ Top \in Update
        /\ CurrentLayer = LayerInForce(Top)
    BY <1>1, <1>2, TopIs, TopLayer DEF Updates
  <2>2. QED
    BY <1>1, <2>1 DEF LayersRun
<1>3. ASSUME updates # <<>>, RestKept, running' \subseteq running,
             NEW u \in Update, updates'[Len(updates)] = u,
             u.layer # 0,
             u.phase = "layer" => u.finished \subseteq LayerInForce(u) \ running',
             \A s \in running' : s \in LayerInForce(Top) => s \in LayerInForce(u)
      PROVE  LayersRun'
  <2>1. /\ Updates' = Updates /\ Len(updates') = Len(updates)
        /\ \A i \in Updates :
             i = Len(updates) \/ (i < Len(updates) /\ updates'[i] = updates[i])
    BY <1>2, <1>3 DEF RestKept, Updates
  <2>2. ASSUME NEW s \in running' PROVE \E i \in Updates : s \in LayerInForce(updates'[i])
    <3>1. PICK i \in Updates : s \in LayerInForce(updates[i])
      BY <1>1, <1>3, <2>2 DEF LayersRun
    <3>2. CASE i = Len(updates)
      BY <1>2, <1>3, <2>2, <3>1, <3>2
    <3>3. CASE updates'[i] = updates[i]
      BY <3>1, <3>3
    <3>4. QED
      BY <2>1, <3>2, <3>3
  <2>3. ASSUME NEW i \in Updates
        PROVE  /\ updates'[i].layer # 0
               /\ updates'[i].phase = "layer" =>
                    updates'[i].finished \subseteq LayerInForce(updates'[i]) \ running'
               /\ i < Len(updates) => Cardinality(LayerInForce(updates'[i])) <= 1
    <3>1. CASE i = Len(updates)
      BY <1>1, <1>3, <3>1
    <3>2. CASE i < Len(updates) /\ updates'[i] = updates[i]
      BY <1>1, <1>3, <3>2 DEF LayersRun
    <3>3. QED
      BY <2>1, <3>1, <3>2
  <2>4. QED
    BY <2>1, <2>2, <2>3 DEF LayersRun
<1>4. ASSUME UNCHANGED <<updates, running>> PROVE LayersRun'
  BY <1>1, <1>4 DEF LayersRun, Updates
<1>5. ASSUME NEW m \in Managers, updateSystems(m) PROVE LayersRun'
  <2>1. /\ Len(updates') = Len(updates) + 1
        /\ \A i \in Updates : updates'[i] = updates[i]
    BY <1>5, Pushes
  <2>2. /\ updates'[Len(updates) + 1].layer = 1
        /\ updates'[Len(updates) + 1].finished = {}
    BY <1>5, Pushes
  <2>3. /\ \A i \in Updates : i \in Updates'
        /\ \A i \in Updates' : i \in Updates \/ i = Len(updates')
        /\ \A i \in Updates : i < Len(updates) \/ i = Len(updates)
    BY <1>1, <2>1 DEF Updates
  <2>4. running' = running /\ Cardinality(CurrentLayer) <= 1
    BY <1>5 DEF updateSystems
  <2>5. ASSUME NEW i \in Updates PROVE Cardinality(LayerInForce(updates[i])) <= 1
    <3>1. CASE i < Len(updates)
      BY <1>1, <3>1 DEF LayersRun
    <3>2. CASE i = Len(updates)
      <4>1. updates # <<>>
        BY <1>1, <2>5 DEF Updates
      <4>2. QED
        BY <1>2, <2>4, <3>2, <4>1
    <3>3. QED
      BY <2>3, <3>1, <3>2
  <2>6. \A i \in Updates' : i < Len(updates') => i \in Updates
    BY <1>1, <2>1 DEF Updates
  <2>7. QED
    BY <1>1, <2>1, <2>2, <2>3, <2>4, <2>5, <2>6 DEF LayersRun
<1>6. ASSUME NEW s \in Systems, startSystem(s) PROVE LayersRun'
  <2>1. /\ updates' = updates /\ running' = running \cup {s}
        /\ s \in CurrentLayer /\ s \notin Top.finished
    BY <1>6 DEF startSystem
  <2>2. updates # <<>>
    BY <1>1, <2>1, TopLayer
  <2>3. \A i \in Updates : i = Len(updates) \/ s \notin LayerInForce(updates[i])
    BY <1>2, <2>1, <2>2, LayersApart
  <2>4. \A i \in Updates :
          updates[i].phase = "layer" => updates[i].finished \subseteq LayerInForce(updates[i]) \ running'
    BY <1>1, <1>2, <2>1, <2>2, <2>3 DEF LayersRun
  <2>5. \A r \in running' : \E i \in Updates : r \in LayerInForce(updates[i])
    BY <1>1, <1>2, <2>1, <2>2 DEF LayersRun
  <2>6. QED
    BY <1>1, <2>1, <2>4, <2>5 DEF LayersRun, Updates
<1>7. ASSUME NEW s \in Systems, finishSystem(s) PROVE LayersRun'
  <2> DEFINE u == [Top EXCEPT !.finished = @ \cup {s}]
  <2>1. updates # <<>> /\ RestKept /\ updates'[Len(updates)] = u
    BY <1>7, TopSteps
  <2>2. running' = running \ {s} /\ s \in LayerInForce(Top)
    BY <1>2, <1>7, <2>1 DEF finishSystem, RunningHere
  <2>3. /\ u \in Update /\ u.layer = Top.layer /\ u.phase = Top.phase
        /\ u.manager = Top.manager /\ u.finished = Top.finished \cup {s}
    BY <1>2, <2>1 DEF Update
  <2> HIDE DEF u
  <2>4. LayerInForce(u) = LayerInForce(Top)
    BY <2>3 DEF LayerInForce
  <2>5. QED
    BY <1>2, <1>3, <2>1, <2>2, <2>3, <2>4
<1>8. CASE flushDeferred
  <2> DEFINE u == [Top EXCEPT !.phase = "flush", !.batch = Taken]
  <2>1. updates # <<>> /\ RestKept /\ updates'[Len(updates)] = u
    BY <1>8, TopSteps
  <2>2. running' = running /\ Top.phase = "layer" /\ LayerInForce(Top) \subseteq Top.finished
    BY <1>2, <1>8, <2>1 DEF flushDeferred, In, LayerDone
  <2>3. u \in Update /\ u.layer = Top.layer /\ u.phase = "flush"
    BY <1>2, <2>1, TakenIs DEF Update, UpdateInv
  <2> HIDE DEF u
  <2>4. \A s \in running : s \notin LayerInForce(Top)
    BY <1>2, <2>1, <2>2
  <2>5. QED
    BY <1>2, <1>3, <2>1, <2>2, <2>3, <2>4
<1>9. CASE execute
  <2> DEFINE u == [Top EXCEPT !.phase = "command", !.batch = Tail(@)]
  <2>1. updates # <<>> /\ RestKept /\ updates'[Len(updates)] = u
    BY <1>9, TopSteps
  <2>2. running' = running /\ Top.phase = "flush" /\ Top.batch # <<>>
    BY <1>9 DEF execute, In
  <2>3. Tail(Top.batch) \in Seq(Command)
    BY <1>2, <2>1, <2>2, HeadTailProperties DEF Update
  <2>4. u \in Update /\ u.layer = Top.layer /\ u.phase = "command"
    BY <1>2, <2>1, <2>3 DEF Update
  <2> HIDE DEF u
  <2>5. LayerInForce(Top) = {}
    BY <2>2 DEF LayerInForce
  <2>6. QED
    BY <1>2, <1>3, <2>1, <2>2, <2>4, <2>5
<1>10. CASE commandReturns
  <2> DEFINE u == [Top EXCEPT !.phase = "flush"]
  <2>1. updates # <<>> /\ RestKept /\ updates'[Len(updates)] = u
    BY <1>10, TopSteps
  <2>2. running' = running /\ Top.phase = "command"
    BY <1>10 DEF commandReturns, In
  <2>3. u \in Update /\ u.layer = Top.layer /\ u.phase = "flush"
    BY <1>2, <2>1 DEF Update
  <2> HIDE DEF u
  <2>4. LayerInForce(Top) = {}
    BY <2>2 DEF LayerInForce
  <2>5. QED
    BY <1>2, <1>3, <2>1, <2>2, <2>3, <2>4
<1>11. CASE flushReturns
  <2>1. /\ updates # <<>> /\ running' = running /\ LayerInForce(Top) = {}
    BY <1>11 DEF flushReturns, In, LayerInForce
  <2>2. CASE AnotherLayer
    <3> DEFINE u == [Top EXCEPT !.layer = @ + 1, !.phase = "layer", !.finished = {}]
    <3>1. RestKept /\ updates'[Len(updates)] = u
      BY <1>11, <2>2, TopSteps
    <3>2. Top.layer + 1 \in Nat \ {0}
      BY <1>2, <2>1 DEF Update
    <3>3. u \in Update /\ u.layer = Top.layer + 1 /\ u.finished = {}
      BY <1>2, <2>1, <3>2 DEF Update
    <3> HIDE DEF u
    <3>4. QED
      BY <1>3, <2>1, <3>1, <3>2, <3>3
  <2>3. CASE ~AnotherLayer
    <3>1. /\ Len(updates') = Len(updates) - 1
          /\ \A i \in 1 .. Len(updates) - 1 : updates'[i] = updates[i]
      BY <1>11, <2>3, TopSteps, TopIs DEF UpdateInv
    <3>2. /\ \A i \in Updates' : i \in Updates /\ i < Len(updates) /\ updates'[i] = updates[i]
          /\ \A i \in Updates : i = Len(updates) \/ i \in Updates'
      BY <1>1, <3>1 DEF Updates
    <3>3. ASSUME NEW s \in running' PROVE \E i \in Updates' : s \in LayerInForce(updates'[i])
      <4>1. PICK i \in Updates : s \in LayerInForce(updates[i])
        BY <1>1, <2>1 DEF LayersRun
      <4>2. i # Len(updates)
        BY <1>2, <2>1, <4>1
      <4>3. QED
        BY <3>2, <4>1, <4>2
    <3>4. QED
      BY <1>1, <2>1, <3>2, <3>3 DEF LayersRun
  <2>4. QED
    BY <2>2, <2>3
<1>12. ASSUME NEW m \in Managers, deferredChange(m) PROVE LayersRun'
  BY <1>4, <1>12 DEF deferredChange
<1>13. QED
  BY <1>4, <1>5, <1>6, <1>7, <1>8, <1>9, <1>10, <1>11, <1>12 DEF UpdateNext, updateVars

-----------------------------------------------------------------------------
(* The commands outstanding are those of the batch, then those of the queue. *)
LEMMA OutstandingIs ==
  ASSUME UpdateInv, NEW m \in Managers
  PROVE  /\ BatchOf(m) \in Seq(Command) /\ queues[m] \in Seq(Command)
         /\ Len(BatchOf(m)) \in Nat /\ Len(queues[m]) \in Nat
         /\ Len(Outstanding(m)) = Len(BatchOf(m)) + Len(queues[m])
         /\ DOMAIN Outstanding(m) = 1 .. Len(BatchOf(m)) + Len(queues[m])
         /\ \A i \in DOMAIN Outstanding(m) :
              Outstanding(m)[i] = IF i <= Len(BatchOf(m)) THEN BatchOf(m)[i]
                                  ELSE queues[m][i - Len(BatchOf(m))]
<1>1. BatchOf(m) \in Seq(Command) /\ queues[m] \in Seq(Command)
  BY BatchNow DEF UpdateInv, UpdateTypeOK
<1> HIDE DEF BatchOf
<1>2. /\ Outstanding(m) \in Seq(Command)
      /\ Len(Outstanding(m)) = Len(BatchOf(m)) + Len(queues[m])
      /\ \A i \in 1 .. Len(BatchOf(m)) + Len(queues[m]) :
           Outstanding(m)[i] = IF i <= Len(BatchOf(m)) THEN BatchOf(m)[i]
                               ELSE queues[m][i - Len(BatchOf(m))]
  BY <1>1, ConcatProperties DEF Outstanding
<1>3. /\ Len(BatchOf(m)) \in Nat /\ Len(queues[m]) \in Nat
      /\ DOMAIN Outstanding(m) = 1 .. Len(Outstanding(m))
  BY <1>1, <1>2, LenProperties
<1>4. QED
  BY <1>1, <1>2, <1>3

LEMMA InOrder == ASSUME UpdateInv PROVE AppliedOnceInOrder
<1> SUFFICES ASSUME NEW m \in Managers
    PROVE  /\ Len(Outstanding(m)) = (issued[m] - applied[m]) % IdModulus
           /\ \A i \in DOMAIN Outstanding(m) :
                Outstanding(m)[i].id = (applied[m] + i - 1) % IdModulus
  BY DEF AppliedOnceInOrder
<1> DEFINE a == applied[m]  b == BatchOf(m)  q == queues[m]  n == issued[m]  o == Outstanding(m)
<1>1. /\ b \in Seq(Command) /\ q \in Seq(Command) /\ Len(b) \in Nat /\ Len(q) \in Nat
      /\ Len(o) = Len(b) + Len(q) /\ DOMAIN o = 1 .. Len(b) + Len(q)
      /\ \A i \in DOMAIN o : o[i] = IF i <= Len(b) THEN b[i] ELSE q[i - Len(b)]
  BY OutstandingIs
<1>2. CountOn(a, b, q, n) /\ a \in 0 .. IdModulus - 1
  BY DEF UpdateInv, UpdateTypeOK, Consecutive
<1> HIDE DEF a, b, q, n, o
<1>3. Len(b) + Len(q) \in 0 .. IdModulus - 1
  BY <1>1, <1>2, Modulus DEF CountOn
<1>4. Len(o) = (n - a) % IdModulus
  <2>1. n = Wrap(a + (Len(b) + Len(q)))
    <3>1. a + Len(b) + Len(q) = a + (Len(b) + Len(q))
      BY <1>1, <1>2
    <3>2. QED
      BY <1>2, <3>1 DEF CountOn
  <2> DEFINE k == Len(b) + Len(q)
  <2>2. CASE a + k < IdModulus
    <3>1. n - a = k
      BY <1>2, <1>3, <2>1, <2>2, Modulus DEF Wrap
    <3>2. k % IdModulus = k
      BY <1>3, Modulus, Remainder
    <3>3. QED
      BY <1>1, <3>1, <3>2
  <2>3. CASE ~(a + k < IdModulus)
    <3>1. n - a = k - IdModulus /\ k - IdModulus \in -IdModulus .. -1
      BY <1>2, <1>3, <2>1, <2>3, Modulus DEF Wrap
    <3>2. (k - IdModulus) % IdModulus = k - IdModulus + IdModulus
      BY <3>1, Modulus, Remainder
    <3>3. k - IdModulus + IdModulus = k
      BY <1>3, Modulus
    <3>4. QED
      BY <1>1, <3>1, <3>2, <3>3
  <2>4. QED
    BY <2>2, <2>3
<1>5. ASSUME NEW i \in DOMAIN o PROVE o[i].id = (a + i - 1) % IdModulus
  <2>1. a + i - 1 \in 0 .. 2 * IdModulus - 1 /\ i \in 1 .. Len(b) + Len(q)
    BY <1>1, <1>2, <1>3, Modulus
  <2>2. (a + i - 1) % IdModulus = Wrap(a + i - 1)
    BY <2>1, WrapMod
  <2>3. CASE i <= Len(b)
    <3>1. i \in 1 .. Len(b)
      BY <1>1, <2>1, <2>3
    <3>2. QED
      BY <1>1, <1>2, <2>2, <2>3, <3>1 DEF CountOn
  <2>4. CASE ~(i <= Len(b))
    <3>1. i - Len(b) \in 1 .. Len(q) /\ a + Len(b) + (i - Len(b)) - 1 = a + i - 1
      BY <1>1, <1>2, <2>1, <2>4
    <3>2. q[i - Len(b)].id = Wrap(a + Len(b) + (i - Len(b)) - 1)
      BY <1>2, <3>1 DEF CountOn
    <3>3. QED
      BY <1>1, <2>2, <2>4, <3>1, <3>2
  <2>5. QED
    BY <2>3, <2>4
<1>6. QED
  BY <1>4, <1>5 DEF a, n, o

LEMMA ByNextFlush == ASSUME UpdateInv PROVE AppliedByNextFlush
<1>1. ASSUME NEW m \in Managers
      PROVE  DOMAIN queues[m] = 1 .. Len(queues[m]) /\ DOMAIN BatchOf(m) = 1 .. Len(BatchOf(m))
  BY OutstandingIs, LenProperties
<1>2. QED
  BY <1>1 DEF AppliedByNextFlush, UpdateInv, Dues

LEMMA Barriers ==
  ASSUME UpdateInv, [UpdateNext]_updateVars,
         NEW m \in Managers, NEW i \in DOMAIN Layers[m],
         Cardinality(Layers[m][i]) > 1, running \cap Layers[m][i] # {}
  PROVE  applied' = applied /\ running' \ running \subseteq Layers[m][i]
<1>1. UpdateTypeOK /\ LayersRun
  BY DEF UpdateInv
<1>2. PICK s \in running : s \in Layers[m][i]
  OBVIOUS
<1>3. PICK j \in Updates : s \in LayerInForce(updates[j])
  BY <1>1 DEF LayersRun
<1>4. updates[j] \in Update /\ updates[j].layer # 0
  BY <1>1, EachUpdate DEF LayersRun
<1>5. LayerInForce(updates[j]) = Layers[m][i] /\ updates[j].phase = "layer"
  BY SMTT(30), <1>2, <1>3, <1>4, LayerIs, UpdateAssumptions
<1>6. Layers[m][i] \in SUBSET Systems
  <2>1. Layers[m] \in Seq(SUBSET Systems)
    BY UpdateAssumptions
  <2>2. QED
    BY <2>1, ElementOfSeq, LenProperties
<1>7. Cardinality(Layers[m][i]) \in Nat
  BY <1>6, UpdateAssumptions, FS_Subset, FS_CardinalityType
<1>8. j = Len(updates)
  <2>1. ~(Cardinality(Layers[m][i]) <= 1)
    BY <1>7
  <2>2. ~(j < Len(updates))
    BY <1>1, <1>5, <2>1 DEF LayersRun
  <2>3. Len(updates) \in Nat
    BY <1>1, LenProperties DEF UpdateTypeOK
  <2>4. QED
    BY <2>2, <2>3 DEF Updates
<1>9. updates # <<>> /\ Top = updates[j] /\ CurrentLayer = Layers[m][i]
  <2>1. updates # <<>>
    BY <1>8, EmptySeq DEF Updates
  <2>2. QED
    BY <1>1, <1>5, <1>8, <2>1, TopIs, TopLayer
<1>10. ~In("flush")
  BY <1>5, <1>9 DEF In
<1>11. /\ \/ UNCHANGED applied \/ execute
       /\ \/ running' \subseteq running
          \/ \E r \in Systems : startSystem(r)
  BY DEF UpdateNext, updateVars, historyVars, deferredChange, updateSystems, startSystem,
     finishSystem, flushDeferred, commandReturns, flushReturns, execute
<1>12. QED
  BY <1>9, <1>10, <1>11 DEF execute, startSystem

LEMMA UpdateInitially == ASSUME UpdateInit PROVE UpdateInv
<1>1. /\ queues = [m \in Managers |-> <<>>] /\ updates = <<>> /\ running = {}
      /\ issued = [m \in Managers |-> 0] /\ applied = [m \in Managers |-> 0]
  BY DEF UpdateInit
<1>2. 0 \in 0 .. IdModulus - 1 /\ Len(<<>>) = 0 /\ 0 <= MaxQueue
  BY Modulus
<1>3. UpdateTypeOK
  BY <1>1, <1>2 DEF UpdateTypeOK
<1>4. Updates = {}
  BY <1>1 DEF Updates
<1>5. OneUpdateEach /\ LayersBatchless /\ LayersRun
  BY <1>1, <1>4 DEF OneUpdateEach, LayersBatchless, LayersRun
<1>6. \A m \in Managers : BatchOf(m) = <<>>
  BY <1>3, <1>4, <1>5, BatchNow
<1>7. Dues
  <2>1. \A i \in 1 .. Len(<<>>) : FALSE
    BY <1>2
  <2>2. QED
    BY <1>1, <1>6, <2>1 DEF Dues
<1>8. Consecutive
  <2>1. \A i \in 1 .. Len(<<>>) : FALSE
    BY <1>2
  <2>2. Wrap(0 + Len(<<>>) + Len(<<>>)) = 0
    BY <1>2, Modulus DEF Wrap
  <2>3. CountOn(0, <<>>, <<>>, 0)
    BY <1>2, <2>1, <2>2 DEF CountOn
  <2>4. QED
    BY <1>1, <1>6, <2>3 DEF Consecutive
<1>9. QED
  BY <1>3, <1>5, <1>7, <1>8 DEF UpdateInv

(* The inductive invariant: batches and queues together number the commands  *)
(* from the last applied to the last issued, and only the innermost update   *)
(* runs systems in parallel.                                                  *)
THEOREM UpdateInvariant == UpdateSpec => []UpdateInv
<1>1. UpdateInit => UpdateInv
  BY UpdateInitially
<1>2. UpdateInv /\ [UpdateNext]_updateVars => UpdateInv'
  BY TypesNext, OneUpdateEachNext, LayersBatchlessNext, ConsecutiveNext, DuesNext, LayersRunNext
     DEF UpdateInv
<1>3. QED
  BY <1>1, <1>2, PTL DEF UpdateSpec

(* The queues, the stack of updates and the histories keep their types. *)
THEOREM UpdateTypes == UpdateSpec => []UpdateTypeOK
<1>1. UpdateInv => UpdateTypeOK
  BY DEF UpdateInv
<1>2. QED
  BY <1>1, UpdateInvariant, PTL

(* DeferredChangeQueue: whatever nests, a command issued is applied once and *)
(* in its turn: none is lost when flushDeferred takes the queue, and none     *)
(* overtakes another.                                                         *)
THEOREM CommandsInOrder == UpdateSpec => []AppliedOnceInOrder
BY InOrder, UpdateInvariant, PTL

(* flushDeferred after each layer: a command is applied by the first flush   *)
(* that starts after it was issued, a flushed command's own by the next.      *)
THEOREM CommandsByNextFlush == UpdateSpec => []AppliedByNextFlush
BY ByNextFlush, UpdateInvariant, PTL

(* The parallelFor of updateSystems is a barrier: while a layer's systems    *)
(* run in parallel no command is applied and no other layer's system starts.  *)
THEOREM ParallelLayers == UpdateSpec => LayersAreBarriers
<1>1. UpdateInv /\ [UpdateNext]_updateVars =>
        [\A m \in Managers : \A i \in DOMAIN Layers[m] :
           Cardinality(Layers[m][i]) > 1 /\ running \cap Layers[m][i] # {} =>
             applied' = applied /\ running' \ running \subseteq Layers[m][i]]_updateVars
  BY Barriers
<1>2. QED
  BY <1>1, UpdateInvariant, PTL DEF UpdateSpec, LayersAreBarriers
=============================================================================
