---------------------------- MODULE JobPoolProofs ----------------------------
(***************************************************************************)
(* Theorems of JobPool and DefaultJobSystem, for any number of workers,     *)
(* threads, calls and iterations: what a call waits for is exactly what is   *)
(* still to be done, and nested calls cannot exhaust the workers.             *)
(***************************************************************************)
EXTENDS DefaultJobSystem, OperatorLemmas, FiniteSetTheorems

(* The elements of a sequence that are in S, counted. *)
CountIn(S, seq) == Cardinality({i \in 1 .. Len(seq) : seq[i] \in S})

RunningIn(S) == {w \in Workers : worker[w] = "running" /\ job[w] \in S}

(* The tasks of S wherever they are: to be enqueued by t, queued, taken by   *)
(* the destructor, or running.                                                *)
Held(S, t) ==
  CountIn(S, submits[t]) + CountIn(S, tasks) + CountIn(S, discarded)
    + Cardinality(RunningIn(S))

OwnTasks(t) == {task \in Task : task.awaited /\ task.owner = t}

TasksWith(t, i) == {task \in OwnTasks(t) : task.first <= i /\ i < task.last}

(* An awaited task is of the present call of a thread that waits for it. *)
Known(task) == task.awaited => task.call = calls[task.owner] /\ awaits[task.owner]

TasksKnown ==
  /\ \A t \in Threads : \A i \in 1 .. Len(submits[t]) :
       /\ submits[t][i].owner = t
       /\ submits[t][i].call = calls[t]
       /\ submits[t][i].awaited = awaits[t]
  /\ \A i \in 1 .. Len(tasks) : Known(tasks[i])
  /\ \A i \in 1 .. Len(discarded) : Known(discarded[i])
  /\ \A w \in Workers : worker[w] = "running" => job[w] \in Task /\ Known(job[w])

CallersKnown ==
  \A t \in Threads :
    /\ caller[t] = "submitting" => submits[t] # <<>>
    /\ caller[t] \in {"idle", "waiting", "blocking", "blocked"} => submits[t] = <<>>
    /\ caller[t] \in {"waiting", "blocking", "blocked"} => awaits[t]
    /\ caller[t] = "idle" /\ awaits[t] => remaining[t] = 0

DestructorKnown == destructor = "none" => ~stop /\ discarded = <<>>

(* The counter of a call is the number of its tasks. *)
RemainingHeld == \A t \in Threads : awaits[t] => remaining[t] = Held(OwnTasks(t), t)

(* Each iteration of a call has been run once, or is in exactly one of its   *)
(* tasks, as long as none was discarded.                                      *)
IterationsShared ==
  \A t \in Threads : \A i \in 0 .. MaxCount - 1 :
    awaits[t] /\ ~cancelled[t] /\ i \in DOMAIN executed[t]
      => executed[t][i] + Held(TasksWith(t, i), t) = 1

PoolInv ==
  /\ JobPoolTypeOK
  /\ TasksKnown
  /\ CallersKnown
  /\ DestructorKnown
  /\ RemainingHeld
  /\ IterationsShared

(* The flag says where bodies run: on workers, in the middle of a task.       *)
BodiesKnown ==
  /\ inBody \subseteq Workers
  /\ \A t \in Threads : executingJob[t] <=> t \in inBody
  /\ \A w \in inBody : worker[w] = "running" /\ job[w].first < job[w].last
  /\ \A t \in Threads : inline[t] # <<>> => t \in inBody

(* Only threads outside the pool wait, for tasks that nobody cancels. *)
OnlyClientsWait ==
  /\ \A w \in Workers : caller[w] = "idle" /\ ~awaits[w]
  /\ \A t \in Threads : ~cancelled[t] /\ (caller[t] # "idle" => awaits[t])
  /\ \A i \in 1 .. Len(tasks) : tasks[i].awaited
  /\ \A w \in Workers : worker[w] = "running" => job[w].awaited
  /\ destructor = "none"

JobSystemInv ==
  /\ PoolInv
  /\ executingJob \in [Threads -> BOOLEAN]
  /\ inline \in [Threads -> Seq(1 .. MaxCount)]
  /\ BodiesKnown
  /\ OnlyClientsWait

-----------------------------------------------------------------------------
(* Counting. *)

LEMMA Counted ==
  ASSUME NEW S, NEW seq \in Seq(Task)
  PROVE  /\ CountIn(S, seq) \in Nat
         /\ IsFiniteSet({i \in 1 .. Len(seq) : seq[i] \in S})
         /\ CountIn(S, seq) = 0 <=> \A i \in 1 .. Len(seq) : seq[i] \notin S
<1> DEFINE D == {i \in 1 .. Len(seq) : seq[i] \in S}
<1>1. IsFiniteSet(1 .. Len(seq))
  BY LenProperties, FS_Interval
<1>2. IsFiniteSet(D)
  BY <1>1, FS_Subset, D \subseteq 1 .. Len(seq)
<1>3. Cardinality(D) \in Nat /\ (Cardinality(D) = 0 <=> D = {})
  BY <1>2, FS_CardinalityType, FS_EmptySet
<1>4. QED
  BY <1>2, <1>3 DEF CountIn

LEMMA CountedNone == ASSUME NEW S PROVE CountIn(S, <<>>) = 0
<1>1. {i \in 1 .. Len(<<>>) : <<>>[i] \in S} = {}
  OBVIOUS
<1>2. QED
  BY <1>1, FS_EmptySet DEF CountIn

LEMMA CountedAppend ==
  ASSUME NEW S, NEW seq \in Seq(Task), NEW x \in Task
  PROVE  CountIn(S, Append(seq, x)) = CountIn(S, seq) + (IF x \in S THEN 1 ELSE 0)
<1> DEFINE D == {i \in 1 .. Len(seq) : seq[i] \in S}
           E == {i \in 1 .. Len(Append(seq, x)) : Append(seq, x)[i] \in S}
<1>1. /\ Len(seq) \in Nat
      /\ Len(Append(seq, x)) = Len(seq) + 1
      /\ \A i \in 1 .. Len(seq) : Append(seq, x)[i] = seq[i]
      /\ Append(seq, x)[Len(seq) + 1] = x
  BY AppendProperties, LenProperties
<1>2. \A i \in 1 .. Len(seq) + 1 : i \in 1 .. Len(seq) \/ i = Len(seq) + 1
  BY <1>1
<1>3. Len(seq) + 1 \notin D /\ IsFiniteSet(D) /\ Cardinality(D) \in Nat
  <2>1. Len(seq) + 1 \notin 1 .. Len(seq)
    BY <1>1
  <2>2. QED
    BY <2>1, Counted DEF CountIn
<1>4. CASE x \in S
  <2>1. E = D \cup {Len(seq) + 1}
    BY <1>1, <1>2, <1>4
  <2>2. Cardinality(E) = Cardinality(D) + 1
    BY <1>3, <2>1, FS_AddElement
  <2>3. CountIn(S, seq) = Cardinality(D) /\ CountIn(S, Append(seq, x)) = Cardinality(E)
    BY DEF CountIn
  <2> HIDE DEF D, E
  <2>4. QED
    BY <1>4, <2>2, <2>3
<1>5. CASE x \notin S
  <2>1. E = D
    BY <1>1, <1>2, <1>5
  <2>2. CountIn(S, seq) = Cardinality(D) /\ CountIn(S, Append(seq, x)) = Cardinality(E)
    BY DEF CountIn
  <2> HIDE DEF D, E
  <2>3. QED
    BY <1>3, <1>5, <2>1, <2>2
<1>6. QED
  BY <1>4, <1>5

LEMMA CountedTail ==
  ASSUME NEW S, NEW seq \in Seq(Task), seq # <<>>
  PROVE  CountIn(S, seq) = CountIn(S, Tail(seq)) + (IF Head(seq) \in S THEN 1 ELSE 0)
<1> DEFINE D == {i \in 1 .. Len(seq) : seq[i] \in S}
           E == {i \in 1 .. Len(Tail(seq)) : Tail(seq)[i] \in S}
           f == [i \in E |-> i + 1]
<1>1. /\ Len(seq) \in Nat \ {0}
      /\ Tail(seq) \in Seq(Task)
      /\ Len(Tail(seq)) = Len(seq) - 1
      /\ \A i \in 1 .. Len(Tail(seq)) : Tail(seq)[i] = seq[i + 1]
      /\ Head(seq) = seq[1]
  BY HeadTailProperties, LenProperties, EmptySeq
<1>2. IsFiniteSet(E) /\ Cardinality(E) \in Nat /\ IsFiniteSet(D) /\ Cardinality(D) \in Nat
  BY <1>1, Counted DEF CountIn
<1>3. f \in Bijection(E, D \ {1})
  <2>1. f \in [E -> D \ {1}]
    BY <1>1
  <2>2. \A a, b \in E : f[a] = f[b] => a = b
    BY <1>1
  <2>3. \A d \in D \ {1} : d - 1 \in E /\ f[d - 1] = d
    BY <1>1
  <2>4. QED
    BY <2>1, <2>2, <2>3 DEF Bijection, Injection, Surjection, IsInjective
<1>4. Cardinality(D \ {1}) = Cardinality(E)
  <2> HIDE DEF D, E, f
  <2>1. ExistsBijection(E, D \ {1})
    BY <1>3 DEF ExistsBijection
  <2>2. QED
    BY <1>2, <2>1, FS_Bijection
<1>5. Cardinality(D \ {1}) = IF 1 \in D THEN Cardinality(D) - 1 ELSE Cardinality(D)
  BY <1>2, FS_RemoveElement
<1>6. 1 \in D <=> Head(seq) \in S
  BY <1>1
<1>7. CountIn(S, seq) = Cardinality(D) /\ CountIn(S, Tail(seq)) = Cardinality(E)
  BY DEF CountIn
<1> HIDE DEF D, E
<1>8. QED
  BY <1>2, <1>4, <1>5, <1>6, <1>7

-----------------------------------------------------------------------------
(* The shares of a call. *)

LEMMA Division ==
  ASSUME NEW n \in Nat \ {0}, NEW k \in 1 .. n
  PROVE  n \div k \in Nat /\ n % k \in 0 .. k - 1 /\ n = k * (n \div k) + (n % k)
OBVIOUS

LEMMA Shares ==
  ASSUME NEW n \in Nat \ {0}, NEW k \in 1 .. n
  PROVE  /\ ChunkStart(n, k, 0) = 0
         /\ ChunkStart(n, k, k) = n
         /\ \A i \in 0 .. k : ChunkStart(n, k, i) \in 0 .. n
         /\ \A i, j \in 0 .. k : i <= j => ChunkStart(n, k, i) <= ChunkStart(n, k, j)
<1> DEFINE q == n \div k
           r == n % k
           C(i) == i * q + (IF i < r THEN i ELSE r)
<1>1. k \in Nat \ {0} /\ q \in Nat /\ r \in 0 .. k - 1 /\ n = k * q + r
  BY Division
<1>2. \A i : ChunkStart(n, k, i) = C(i)
  BY DEF ChunkStart
<1> HIDE DEF q, r
<1>3. C(0) = 0 /\ C(k) = n
  BY <1>1
<1>4. \A i \in 0 .. k : C(i) \in Nat
  <2>1. ASSUME NEW i \in 0 .. k PROVE C(i) \in Nat
    <3>1. i * q \in Nat
      BY <1>1
    <3>2. QED
      BY <1>1, <3>1
  <2>2. QED
    BY <2>1
<1>5. ASSUME NEW i \in 0 .. k, NEW j \in 0 .. k, i <= j
      PROVE  C(i) <= C(j)
  <2>1. i * q \in Nat /\ j * q \in Nat /\ i * q <= j * q
    <3>1. PICK d \in Nat : j = i + d
      <4>1. j - i \in Nat /\ j = i + (j - i)
        BY <1>1, <1>5
      <4>2. QED
        BY <4>1
    <3>2. j * q = i * q + d * q
      BY <1>1, <3>1
    <3>3. i * q \in Nat /\ d * q \in Nat
      BY <1>1, <3>1
    <3>4. QED
      BY <3>2, <3>3
  <2>2. (IF i < r THEN i ELSE r) <= (IF j < r THEN j ELSE r)
    BY <1>1, <1>5
  <2>3. QED
    BY <1>1, <2>1, <2>2
<1> HIDE DEF C
<1>6. \A i \in 0 .. k : C(i) \in 0 .. n
  <2>1. ASSUME NEW i \in 0 .. k PROVE C(i) \in 0 .. n
    <3>1. k \in 0 .. k /\ i <= k
      BY <1>1
    <3>2. C(i) \in Nat /\ C(i) <= n
      BY <1>3, <1>4, <1>5, <3>1
    <3>3. QED
      BY <3>2
  <2>2. QED
    BY <2>1
<1>7. QED
  BY <1>2, <1>3, <1>5, <1>6

(* Every iteration is in exactly one share. *)
LEMMA OneShare ==
  ASSUME NEW n \in Nat \ {0}, NEW k \in 1 .. n, NEW x \in 0 .. n - 1
  PROVE  \E m \in 1 .. k : \A i \in 1 .. k :
           i = m <=> ChunkStart(n, k, i - 1) <= x /\ x < ChunkStart(n, k, i)
<1> DEFINE C(i) == ChunkStart(n, k, i)
           D == {j \in 0 .. k : x < C(j)}
<1>1. /\ C(0) = 0 /\ C(k) = n
      /\ \A i \in 0 .. k : C(i) \in 0 .. n
      /\ \A i, j \in 0 .. k : i <= j => C(i) <= C(j)
  BY Shares
<1> HIDE DEF C
<1>2. k \in D /\ D \in SUBSET Nat
  BY <1>1
<1>3. PICK m \in D : \A j \in D : m <= j
  <2> HIDE DEF D
  <2>1. Min(D) \in D /\ \A j \in D : Min(D) <= j
    BY <1>2, MinOf
  <2>2. QED
    BY <2>1
<1>4. m \in 1 .. k /\ m - 1 \in 0 .. k /\ m - 1 \notin D
  BY <1>1, <1>3
<1>5. C(m - 1) <= x /\ x < C(m)
  BY <1>1, <1>3, <1>4
<1>6. ASSUME NEW i \in 1 .. k, C(i - 1) <= x, x < C(i)
      PROVE  i = m
  <2>1. i \in D /\ m <= i
    BY <1>3, <1>6
  <2>2. CASE m <= i - 1
    <3>1. C(m) <= C(i - 1) /\ C(m) \in Nat /\ C(i - 1) \in Nat
      BY <1>1, <1>4, <2>2
    <3>2. QED
      BY <1>5, <1>6, <3>1
  <2>3. QED
    BY <1>4, <2>1, <2>2
<1>7. QED
  BY <1>4, <1>5, <1>6 DEF C

LEMMA ChunkCount ==
  ASSUME NEW n \in 1 .. MaxCount
  PROVE  /\ Cardinality(Workers) \in Nat \ {0}
         /\ Chunks(n) \in 1 .. n /\ Chunks(n) \in 1 .. Cardinality(Workers)
<1>1. Cardinality(Workers) \in Nat /\ Cardinality(Workers) # 0 /\ n \in Nat \ {0}
  BY JobPoolAssumptions, FS_CardinalityType, FS_EmptySet
<1>2. QED
  BY <1>1 DEF Chunks

(* The tasks of a new call cover its iterations, each once. *)
LEMMA NewTasks ==
  ASSUME NEW t \in Threads, NEW n \in 1 .. MaxCount, NEW awaited \in BOOLEAN,
         calls[t] + 1 \in 1 .. MaxCalls
  PROVE  LET new == TasksOf(t, n, awaited) IN
         /\ new \in Seq(Task) /\ Len(new) = Chunks(n) /\ new # <<>>
         /\ \A i \in 1 .. Len(new) :
              new[i].owner = t /\ new[i].call = calls[t] + 1 /\ new[i].awaited = awaited
         /\ awaited => CountIn(OwnTasks(t), new) = Chunks(n)
<1> DEFINE k == Chunks(n)
           new == TasksOf(t, n, awaited)
<1>1. /\ n \in Nat \ {0} /\ k \in 1 .. n /\ n <= MaxCount /\ MaxCount \in Nat
      /\ Cardinality(Workers) \in Nat /\ k <= Cardinality(Workers)
  BY ChunkCount, JobPoolAssumptions
<1>2. \A i \in 0 .. k : ChunkStart(n, k, i) \in 0 .. MaxCount
  BY <1>1, Shares
<1>3. new = [i \in 1 .. k |->
               [owner |-> t, call |-> calls[t] + 1, awaited |-> awaited,
                first |-> ChunkStart(n, k, i - 1), last |-> ChunkStart(n, k, i)]]
  BY DEF TasksOf
<1> HIDE DEF new, k
<1>4. \A i \in 1 .. k : i - 1 \in 0 .. k /\ i \in 0 .. k
  BY <1>1
<1>5. \A i \in 1 .. k : new[i] \in Task
  BY <1>2, <1>3, <1>4 DEF Task
<1>6. new \in Seq(Task) /\ Len(new) = k /\ k \in Nat \ {0}
  <2>1. new \in [1 .. k -> Task] /\ k \in Nat \ {0}
    BY <1>1, <1>3, <1>5
  <2>2. QED
    BY <2>1, LenProperties, IsASeq
<1>7. new # <<>>
  BY <1>6, EmptySeq
<1>8. ASSUME awaited PROVE CountIn(OwnTasks(t), new) = k
  <2>1. {i \in 1 .. Len(new) : new[i] \in OwnTasks(t)} = 1 .. k
    BY <1>3, <1>5, <1>6, <1>8 DEF OwnTasks
  <2>2. Cardinality(1 .. k) = k
    BY <1>6, FS_Interval
  <2>3. QED
    BY <2>1, <2>2 DEF CountIn
<1>9. \A i \in 1 .. Len(new) :
         new[i].owner = t /\ new[i].call = calls[t] + 1 /\ new[i].awaited = awaited
  BY <1>3, <1>6
<1>10. QED
  BY <1>6, <1>7, <1>8, <1>9 DEF new, k

LEMMA NewTasksShare ==
  ASSUME NEW t \in Threads, NEW n \in 1 .. MaxCount, calls[t] + 1 \in 1 .. MaxCalls,
         NEW x \in 0 .. n - 1
  PROVE  CountIn(TasksWith(t, x), TasksOf(t, n, TRUE)) = 1
<1> DEFINE k == Chunks(n)
           new == TasksOf(t, n, TRUE)
<1>1. n \in Nat \ {0} /\ k \in 1 .. n
  BY ChunkCount, JobPoolAssumptions
<1>2. new = [i \in 1 .. k |->
               [owner |-> t, call |-> calls[t] + 1, awaited |-> TRUE,
                first |-> ChunkStart(n, k, i - 1), last |-> ChunkStart(n, k, i)]]
  BY DEF TasksOf
<1>3. new \in Seq(Task) /\ Len(new) = k
  <2>1. \A a \in BOOLEAN : TasksOf(t, n, a) \in Seq(Task) /\ Len(TasksOf(t, n, a)) = k
    BY NewTasks
  <2>2. QED
    BY <2>1
<1> HIDE DEF new, k
<1>4. \A i \in 1 .. k : new[i] \in Task
  BY <1>3, ElementOfSeq
<1>5. PICK m \in 1 .. k : \A i \in 1 .. k :
        i = m <=> ChunkStart(n, k, i - 1) <= x /\ x < ChunkStart(n, k, i)
  BY <1>1, OneShare
<1>6. \A i \in 1 .. k : new[i] \in TasksWith(t, x) <=> i = m
  BY <1>2, <1>4, <1>5 DEF OwnTasks, TasksWith
<1>7. {i \in 1 .. Len(new) : new[i] \in TasksWith(t, x)} = {m}
  BY <1>3, <1>6
<1>8. QED
  BY <1>7, FS_Singleton DEF CountIn, new

-----------------------------------------------------------------------------
(* Tasks held. *)

LEMMA Parts ==
  ASSUME NEW t \in Threads, NEW S
  PROVE  JobPoolTypeOK =>
           /\ CountIn(S, submits[t]) \in Nat
           /\ CountIn(S, tasks) \in Nat
           /\ CountIn(S, discarded) \in Nat
           /\ Cardinality(RunningIn(S)) \in Nat
           /\ IsFiniteSet(RunningIn(S))
           /\ Held(S, t) \in Nat
<1> HAVE JobPoolTypeOK
<1>1. submits[t] \in Seq(Task) /\ tasks \in Seq(Task) /\ discarded \in Seq(Task)
  BY DEF JobPoolTypeOK
<1>2. /\ CountIn(S, submits[t]) \in Nat
      /\ CountIn(S, tasks) \in Nat
      /\ CountIn(S, discarded) \in Nat
  BY <1>1, Counted
<1>3. IsFiniteSet(RunningIn(S)) /\ Cardinality(RunningIn(S)) \in Nat
  <2>1. RunningIn(S) \in SUBSET Workers
    BY DEF RunningIn
  <2>2. QED
    BY <2>1, JobPoolAssumptions, FS_Subset, FS_CardinalityType
<1>4. QED
  BY <1>2, <1>3 DEF Held

(* Nothing of S is held exactly if no task of S is anywhere. *)
LEMMA NoneHeld ==
  ASSUME NEW t \in Threads, NEW S
  PROVE  JobPoolTypeOK =>
           (Held(S, t) = 0 <=> /\ \A i \in 1 .. Len(submits[t]) : submits[t][i] \notin S
                               /\ \A i \in 1 .. Len(tasks) : tasks[i] \notin S
                               /\ \A i \in 1 .. Len(discarded) : discarded[i] \notin S
                               /\ \A w \in Workers : worker[w] = "running" => job[w] \notin S)
<1> HAVE JobPoolTypeOK
<1>1. submits[t] \in Seq(Task) /\ tasks \in Seq(Task) /\ discarded \in Seq(Task)
  BY DEF JobPoolTypeOK
<1>2. /\ CountIn(S, submits[t]) = 0
           <=> \A i \in 1 .. Len(submits[t]) : submits[t][i] \notin S
      /\ CountIn(S, tasks) = 0 <=> \A i \in 1 .. Len(tasks) : tasks[i] \notin S
      /\ CountIn(S, discarded) = 0 <=> \A i \in 1 .. Len(discarded) : discarded[i] \notin S
  BY <1>1, Counted
<1>3. Cardinality(RunningIn(S)) = 0
        <=> \A w \in Workers : worker[w] = "running" => job[w] \notin S
  <2>1. Cardinality(RunningIn(S)) = 0 <=> RunningIn(S) = {}
    BY Parts, FS_EmptySet
  <2>2. QED
    BY <2>1 DEF RunningIn
<1>4. Held(S, t) = 0 <=> /\ CountIn(S, submits[t]) = 0
                         /\ CountIn(S, tasks) = 0
                         /\ CountIn(S, discarded) = 0
                         /\ Cardinality(RunningIn(S)) = 0
  BY Parts DEF Held
<1>5. QED
  BY <1>2, <1>3, <1>4

(* The counter of a call one of whose tasks is held is not zero. *)
LEMMA RemainingPositive ==
  ASSUME PoolInv, NEW task \in Task, task.awaited,
         \/ \E i \in 1 .. Len(tasks) : tasks[i] = task
         \/ \E i \in 1 .. Len(discarded) : discarded[i] = task
         \/ \E w \in Workers : worker[w] = "running" /\ job[w] = task
  PROVE  /\ task.owner \in Threads
         /\ awaits[task.owner]
         /\ task.call = calls[task.owner]
         /\ remaining[task.owner] = Held(OwnTasks(task.owner), task.owner)
         /\ remaining[task.owner] \in 1 .. Cardinality(Workers)
<1> DEFINE t == task.owner
<1>1. t \in Threads /\ task \in OwnTasks(t)
  BY DEF Task, OwnTasks
<1>2. Known(task)
  BY DEF PoolInv, TasksKnown
<1>3. awaits[t] /\ task.call = calls[t]
  BY <1>2 DEF Known
<1>4. remaining[t] = Held(OwnTasks(t), t)
  BY <1>1, <1>3 DEF PoolInv, RemainingHeld
<1>5. Held(OwnTasks(t), t) # 0
  BY <1>1, NoneHeld DEF PoolInv
<1>6. remaining[t] \in 0 .. Cardinality(Workers) /\ Cardinality(Workers) \in Nat
  BY <1>1, JobPoolAssumptions, FS_CardinalityType DEF PoolInv, JobPoolTypeOK
<1>7. QED
  BY <1>1, <1>3, <1>4, <1>5, <1>6

-----------------------------------------------------------------------------
(* The steps of the pool, whoever takes them: clients, or the threads of a   *)
(* job system, whose nested calls only count.                                 *)

NestedCall(t) ==
  /\ MayCall(t)
  /\ ~awaits[t]
  /\ calls' = [calls EXCEPT ![t] = @ + 1]
  /\ UNCHANGED <<queueVars, workerVars, caller, submits, awaits, remaining, cancelled,
                 observed, executed, endVars, aborted>>

AnyStep ==
  \/ \E t \in Threads :
       \/ MayCall(t) /\ \E n \in 1 .. MaxCount, awaited \in BOOLEAN : Start(t, n, awaited)
       \/ enqueue(t) \/ notifyOne(t) \/ waitLoad(t) \/ waitBlock(t)
       \/ NestedCall(t)
  \/ \E w \in Workers :
       \/ workerLooks(w) \/ wakesSpuriously(w)
       \/ runIteration(w) \/ finishTask(w) \/ notifyWaiter(w)
  \/ destroyPool \/ notifyAll \/ cancelTask \/ joinWorkers
  \/ UNCHANGED poolVars

(* A thread that may call has a number left for the call. *)
LEMMA CallNumber ==
  ASSUME PoolInv, NEW t \in Threads, MayCall(t)
  PROVE  calls[t] + 1 \in 1 .. MaxCalls
<1>1. calls[t] \in 0 .. MaxCalls /\ MaxCalls \in Nat
  BY JobPoolAssumptions DEF PoolInv, JobPoolTypeOK
<1>2. calls[t] < MaxCalls
  BY DEF MayCall
<1>3. QED
  BY <1>1, <1>2

LEMMA PoolTakesAnyStep == [JobPoolNext]_poolVars => AnyStep
<1> SUFFICES ASSUME [JobPoolNext]_poolVars PROVE AnyStep
  OBVIOUS
<1>1. Clients \subseteq Threads
  BY DEF Threads
<1>2. CASE UNCHANGED poolVars
  BY <1>2 DEF AnyStep
<1>3. CASE \E t \in Clients : \E n \in 1 .. MaxCount : parallelFor(t, n)
  BY <1>1, <1>3 DEF AnyStep, parallelFor
<1>4. CASE \E t \in Clients : submitAsync(t) \/ submit(t)
  <2>1. 1 \in 1 .. MaxCount
    BY JobPoolAssumptions
  <2>2. QED
    BY <1>1, <1>4, <2>1 DEF AnyStep, submitAsync, submit
<1>5. CASE ~(\E t \in Clients : \/ \E n \in 1 .. MaxCount : parallelFor(t, n)
                                \/ submitAsync(t) \/ submit(t))
           /\ JobPoolNext
  BY <1>1, <1>5 DEF AnyStep, JobPoolNext
<1>6. QED
  BY <1>2, <1>3, <1>4, <1>5

-----------------------------------------------------------------------------
(* Types. *)

LEMMA InitialTypes == JobPoolInit => JobPoolTypeOK
<1> SUFFICES ASSUME JobPoolInit PROVE JobPoolTypeOK
  OBVIOUS
<1>1. Cardinality(Workers) \in Nat /\ MaxCalls \in Nat /\ MaxCount \in Nat
  BY JobPoolAssumptions, FS_CardinalityType
<1>2. executed = [t \in Threads |-> [i \in 0 .. -1 |-> 0]]
  BY DEF JobPoolInit, Unexecuted
<1>3. \A t \in Threads : executed[t] \in [0 .. 0 - 1 -> Nat] /\ 0 \in 0 .. MaxCount
  BY <1>1, <1>2
<1>4. DOMAIN executed = Threads
      /\ \A t \in Threads : \E n \in 0 .. MaxCount : executed[t] \in [0 .. n - 1 -> Nat]
  BY <1>2, <1>3
<1>5. /\ tasks \in Seq(Task) /\ discarded \in Seq(Task)
      /\ submits \in [Threads -> Seq(Task)]
  <2>1. <<>> \in Seq(Task)
    OBVIOUS
  <2>2. QED
    BY <2>1 DEF JobPoolInit
<1>6. /\ stop \in BOOLEAN /\ aborted \in BOOLEAN
      /\ worker \in [Workers -> {"looking", "asleep", "running", "notifying", "exited"}]
      /\ job \in [Workers -> Task \cup {NoTask}]
      /\ caller \in [Threads -> {"idle", "submitting", "notifying", "waiting",
                                 "blocking", "blocked"}]
      /\ awaits \in [Threads -> BOOLEAN] /\ cancelled \in [Threads -> BOOLEAN]
      /\ destructor \in {"none", "notify all", "cancelling", "done"}
  BY DEF JobPoolInit
<1>7. /\ remaining \in [Threads -> 0 .. Cardinality(Workers)]
      /\ observed \in [Threads -> 0 .. Cardinality(Workers)]
      /\ calls \in [Threads -> 0 .. MaxCalls]
  BY <1>1 DEF JobPoolInit
<1>8. QED
  BY <1>4, <1>5, <1>6, <1>7 DEF JobPoolTypeOK

LEMMA TypesKept ==
  ASSUME PoolInv, AnyStep
  PROVE  JobPoolTypeOK'
<1> USE DEF PoolInv
<1>0. Cardinality(Workers) \in Nat /\ Workers \subseteq Threads /\ MaxCalls \in Nat
      /\ MaxCount \in Nat
  BY JobPoolAssumptions, FS_CardinalityType DEF Threads
<1>1. ASSUME NEW t \in Threads, MayCall(t),
             NEW n \in 1 .. MaxCount, NEW awaited \in BOOLEAN, Start(t, n, awaited)
      PROVE  JobPoolTypeOK'
  <2> DEFINE new == TasksOf(t, n, awaited)
  <2>1. calls[t] + 1 \in 1 .. MaxCalls /\ n \in 0 .. MaxCount
    BY <1>0, <1>1 DEF MayCall, JobPoolTypeOK
  <2>2. /\ new \in Seq(Task) /\ Len(new) = Chunks(n)
        /\ Chunks(n) \in 0 .. Cardinality(Workers)
    BY <1>1, <2>1, NewTasks, ChunkCount
  <2>3. Unexecuted(n) \in [0 .. n - 1 -> Nat]
    BY DEF Unexecuted
  <2>4. /\ submits' = [submits EXCEPT ![t] = new]
        /\ awaits' = [awaits EXCEPT ![t] = awaited]
        /\ remaining' = [remaining EXCEPT ![t] = Len(new)]
        /\ cancelled' = [cancelled EXCEPT ![t] = FALSE]
        /\ calls' = [calls EXCEPT ![t] = @ + 1]
        /\ executed' = [executed EXCEPT ![t] = Unexecuted(n)]
        /\ caller' = [caller EXCEPT ![t] = "submitting"]
        /\ UNCHANGED <<queueVars, workerVars, observed, endVars, aborted>>
    BY <1>1 DEF Start, TaskCount
  <2> HIDE DEF new
  <2>5. /\ DOMAIN executed' = Threads
        /\ \A u \in Threads : \E m \in 0 .. MaxCount : executed'[u] \in [0 .. m - 1 -> Nat]
    <3>1. \A u \in Threads : executed'[u] = IF u = t THEN Unexecuted(n) ELSE executed[u]
      BY <2>4 DEF JobPoolTypeOK
    <3>2. QED
      BY <2>1, <2>3, <2>4, <3>1 DEF JobPoolTypeOK
  <2>6. calls' \in [Threads -> 0 .. MaxCalls]
    <3>1. calls[t] + 1 \in 0 .. MaxCalls
      BY <2>1, <1>0
    <3>2. QED
      BY <2>4, <3>1 DEF JobPoolTypeOK
  <2>7. QED
    BY <2>1, <2>2, <2>4, <2>5, <2>6
       DEF JobPoolTypeOK, queueVars, workerVars, endVars
<1>2. ASSUME NEW t \in Threads, enqueue(t)
      PROVE  JobPoolTypeOK'
  <2>1. CASE stop
    BY <1>2, <2>1 DEF enqueue, JobPoolTypeOK, queueVars, workerVars, endVars
  <2>2. CASE ~stop
    <3>1. submits[t] # <<>> /\ submits[t] \in Seq(Task)
      BY <1>2 DEF enqueue, CallersKnown, JobPoolTypeOK
    <3>2. Head(submits[t]) \in Task /\ Tail(submits[t]) \in Seq(Task)
      BY <3>1, HeadTailProperties
    <3>3. Append(tasks, Head(submits[t])) \in Seq(Task)
      BY <3>2, AppendProperties DEF JobPoolTypeOK
    <3>4. QED
      BY <1>2, <2>2, <3>2, <3>3 DEF enqueue, JobPoolTypeOK, workerVars, endVars
  <2>3. QED
    BY <2>1, <2>2 DEF JobPoolTypeOK
<1>3. ASSUME NEW t \in Threads, notifyOne(t)
      PROVE  JobPoolTypeOK'
  BY <1>3 DEF notifyOne, AfterEnqueue, JobPoolTypeOK, queueVars, endVars
<1>4. ASSUME NEW t \in Threads, waitLoad(t) \/ waitBlock(t) \/ NestedCall(t)
      PROVE  JobPoolTypeOK'
  <2>1. CASE waitLoad(t)
    <3>1. /\ caller' = [caller EXCEPT ![t] = "blocking"] \/ caller' = [caller EXCEPT ![t] = "idle"]
          /\ observed' = [observed EXCEPT ![t] = remaining[t]] \/ observed' = observed
          /\ UNCHANGED <<queueVars, workerVars, submits, awaits, remaining, cancelled, calls,
                         executed, endVars>>
      BY <2>1 DEF waitLoad
    <3>2. aborted' \in BOOLEAN
      BY <2>1 DEF waitLoad, JobPoolTypeOK
    <3>3. caller' \in [Threads -> {"idle", "submitting", "notifying", "waiting",
                                    "blocking", "blocked"}]
      BY <3>1 DEF JobPoolTypeOK
    <3>4. observed' \in [Threads -> 0 .. Cardinality(Workers)]
      BY <3>1 DEF JobPoolTypeOK
    <3>5. QED
      BY <3>1, <3>2, <3>3, <3>4 DEF JobPoolTypeOK, queueVars, workerVars, endVars
  <2>2. CASE waitBlock(t)
    BY <2>2 DEF waitBlock, JobPoolTypeOK, queueVars, workerVars, endVars
  <2>3. CASE NestedCall(t)
    <3>1. calls[t] + 1 \in 0 .. MaxCalls
      BY <1>0, <2>3 DEF NestedCall, MayCall, JobPoolTypeOK
    <3>2. calls' \in [Threads -> 0 .. MaxCalls]
      BY <2>3, <3>1 DEF NestedCall, JobPoolTypeOK
    <3>3. QED
      BY <2>3, <3>2 DEF NestedCall, JobPoolTypeOK, queueVars, workerVars, endVars
  <2>4. QED
    BY <1>4, <2>1, <2>2, <2>3
<1>5. ASSUME NEW w \in Workers, workerLooks(w) \/ wakesSpuriously(w) \/ notifyWaiter(w)
      PROVE  JobPoolTypeOK'
  <2>1. CASE workerLooks(w)
    <3>1. tasks # <<>> => Head(tasks) \in Task /\ Tail(tasks) \in Seq(Task)
      BY HeadTailProperties DEF JobPoolTypeOK
    <3>2. QED
      BY <2>1, <3>1 DEF workerLooks, JobPoolTypeOK, callVars, endVars
  <2>2. CASE wakesSpuriously(w)
    BY <2>2 DEF wakesSpuriously, JobPoolTypeOK, queueVars, callVars, endVars
  <2>3. CASE notifyWaiter(w)
    BY <2>3 DEF notifyWaiter, Wake, JobPoolTypeOK, queueVars, endVars
  <2>4. QED
    BY <1>5, <2>1, <2>2, <2>3
<1>6. ASSUME NEW w \in Workers, runIteration(w)
      PROVE  JobPoolTypeOK'
  <2>1. job[w] \in Task /\ job[w].first < job[w].last /\ job[w].first \in Nat
        /\ job[w].last \in 0 .. MaxCount
    BY <1>6 DEF runIteration, TasksKnown, Task
  <2>2. [job[w] EXCEPT !.first = @ + 1] \in Task
    BY <1>0, <2>1 DEF Task
  <2>3. job' = [job EXCEPT ![w] = [job[w] EXCEPT !.first = @ + 1]]
    BY <1>6 DEF runIteration
  <2>4. job' \in [Workers -> Task \cup {NoTask}]
    BY <2>2, <2>3 DEF JobPoolTypeOK
  <2>5. /\ DOMAIN executed' = Threads
        /\ \A t \in Threads : \E n \in 0 .. MaxCount : executed'[t] \in [0 .. n - 1 -> Nat]
    <3> DEFINE u == job[w].owner
               x == job[w].first
               more == [executed[u] EXCEPT ![x] = @ + 1]
    <3>1. executed' = executed \/ executed' = [executed EXCEPT ![u] = more]
      BY <1>6 DEF runIteration
    <3>2. ASSUME NEW n \in 0 .. MaxCount, executed[u] \in [0 .. n - 1 -> Nat]
          PROVE  more \in [0 .. n - 1 -> Nat]
      <4>1. DOMAIN executed[u] = 0 .. n - 1 /\ DOMAIN more = 0 .. n - 1
        BY <3>2
      <4>2. \A i \in 0 .. n - 1 :
              more[i] = IF i = x THEN executed[u][i] + 1 ELSE executed[u][i]
        BY <4>1
      <4>3. \A i \in 0 .. n - 1 : executed[u][i] \in Nat
        BY <3>2
      <4>4. \A i \in 0 .. n - 1 : more[i] \in Nat
        BY <4>2, <4>3
      <4>5. more = [i \in 0 .. n - 1 |-> more[i]]
        BY <4>1
      <4> HIDE DEF more
      <4>6. QED
        BY <4>4, <4>5
    <3> HIDE DEF more
    <3>3. CASE executed' = executed
      BY <3>3 DEF JobPoolTypeOK
    <3>4. CASE executed' = [executed EXCEPT ![u] = more]
      <4>1. DOMAIN executed' = Threads
            /\ \A t \in Threads : executed'[t] = IF t = u THEN more ELSE executed[t]
        BY <3>4 DEF JobPoolTypeOK
      <4>2. ASSUME NEW t \in Threads
            PROVE  \E n \in 0 .. MaxCount : executed'[t] \in [0 .. n - 1 -> Nat]
        <5>1. CASE t = u
          <6>1. PICK n \in 0 .. MaxCount : executed[u] \in [0 .. n - 1 -> Nat]
            BY <5>1 DEF JobPoolTypeOK
          <6>2. QED
            BY <3>2, <4>1, <5>1, <6>1
        <5>2. CASE t # u
          BY <4>1, <5>2 DEF JobPoolTypeOK
        <5>3. QED
          BY <5>1, <5>2
      <4>3. QED
        BY <4>1, <4>2
    <3>5. QED
      BY <3>1, <3>3, <3>4
  <2>6. QED
    BY <1>6, <2>4, <2>5 DEF runIteration, JobPoolTypeOK, queueVars, endVars
<1>7. ASSUME NEW w \in Workers, finishTask(w)
      PROVE  JobPoolTypeOK'
  <2>1. job[w] \in Task /\ job[w].awaited \in BOOLEAN
    BY <1>7 DEF finishTask, TasksKnown, Task
  <2>2. job[w].awaited => remaining[job[w].owner] - 1 \in 0 .. Cardinality(Workers)
    <3>1. SUFFICES ASSUME job[w].awaited
                   PROVE  remaining[job[w].owner] - 1 \in 0 .. Cardinality(Workers)
      OBVIOUS
    <3>2. remaining[job[w].owner] \in 1 .. Cardinality(Workers)
      BY <1>7, <2>1, <3>1, RemainingPositive DEF finishTask
    <3>3. QED
      BY <1>0, <3>2
  <2>3. remaining' \in [Threads -> 0 .. Cardinality(Workers)]
    BY <1>7, <2>1, <2>2 DEF finishTask, JobPoolTypeOK
  <2>4. worker' \in [Workers -> {"looking", "asleep", "running", "notifying", "exited"}]
    <3>1. worker' = [worker EXCEPT ![w] = "notifying"] \/ worker' = [worker EXCEPT ![w] = "looking"]
      BY <1>7 DEF finishTask
    <3>2. QED
      BY <3>1 DEF JobPoolTypeOK
  <2>5. QED
    BY <1>7, <2>3, <2>4 DEF finishTask, JobPoolTypeOK, queueVars, endVars
<1>8. ASSUME cancelTask
      PROVE  JobPoolTypeOK'
  <2>1. /\ discarded # <<>> /\ discarded \in Seq(Task)
        /\ Head(discarded) \in Task /\ Tail(discarded) \in Seq(Task)
        /\ 1 \in 1 .. Len(discarded) /\ discarded[1] = Head(discarded)
    <3>1. discarded # <<>> /\ discarded \in Seq(Task)
      BY <1>8 DEF cancelTask, JobPoolTypeOK
    <3>2. Len(discarded) \in Nat \ {0}
      BY <3>1, EmptySeq, LenProperties
    <3>3. 1 \in 1 .. Len(discarded)
      BY <3>2
    <3>4. QED
      BY <3>1, <3>3, HeadTailProperties
  <2>2. Head(discarded).awaited
          => remaining[Head(discarded).owner] - 1 \in 0 .. Cardinality(Workers)
    <3>1. SUFFICES ASSUME Head(discarded).awaited
                   PROVE  remaining[Head(discarded).owner] - 1 \in 0 .. Cardinality(Workers)
      OBVIOUS
    <3>2. remaining[Head(discarded).owner] \in 1 .. Cardinality(Workers)
      BY <2>1, <3>1, RemainingPositive
    <3>3. QED
      BY <1>0, <3>2
  <2>3. remaining' \in [Threads -> 0 .. Cardinality(Workers)]
    BY <1>8, <2>1, <2>2 DEF cancelTask, JobPoolTypeOK
  <2>4. /\ cancelled' \in [Threads -> BOOLEAN]
        /\ caller' \in [Threads -> {"idle", "submitting", "notifying", "waiting",
                                    "blocking", "blocked"}]
    <3> DEFINE u == Head(discarded).owner
    <3>1. /\ cancelled' = [cancelled EXCEPT ![u] = TRUE] \/ cancelled' = cancelled
          /\ caller' = Wake(u) \/ caller' = caller
      BY <1>8 DEF cancelTask
    <3> HIDE DEF u
    <3>2. cancelled' \in [Threads -> BOOLEAN]
      BY <3>1 DEF JobPoolTypeOK
    <3>3. Wake(u) \in [Threads -> {"idle", "submitting", "notifying", "waiting",
                                  "blocking", "blocked"}]
      BY DEF Wake, JobPoolTypeOK
    <3>4. QED
      BY <3>1, <3>2, <3>3 DEF JobPoolTypeOK
  <2>5. QED
    BY <1>8, <2>1, <2>3, <2>4 DEF cancelTask, JobPoolTypeOK, queueVars, workerVars
<1>9. ASSUME destroyPool \/ notifyAll \/ joinWorkers
      PROVE  JobPoolTypeOK'
  <2>1. CASE destroyPool
    <3>1. discarded' \in Seq(Task) /\ tasks' \in Seq(Task)
      <4>1. <<>> \in Seq(Task)
        OBVIOUS
      <4>2. QED
        BY <2>1, <4>1 DEF destroyPool, JobPoolTypeOK
    <3>2. stop' \in BOOLEAN /\ destructor' \in {"none", "notify all", "cancelling", "done"}
      BY <2>1 DEF destroyPool
    <3>3. UNCHANGED <<workerVars, callVars, aborted>>
      BY <2>1 DEF destroyPool
    <3>4. QED
      BY <3>1, <3>2, <3>3 DEF JobPoolTypeOK, workerVars, callVars
  <2>2. CASE notifyAll
    BY <2>2 DEF notifyAll, JobPoolTypeOK, queueVars, callVars
  <2>3. CASE joinWorkers
    BY <2>3 DEF joinWorkers, JobPoolTypeOK, queueVars, workerVars, callVars
  <2>4. QED
    BY <1>9, <2>1, <2>2, <2>3
<1>10. ASSUME UNCHANGED poolVars
       PROVE  JobPoolTypeOK'
  BY <1>10 DEF JobPoolTypeOK, poolVars
<1> HIDE DEF PoolInv
<1>11. QED
  BY <1>1, <1>2, <1>3, <1>4, <1>5, <1>6, <1>7, <1>8, <1>9, <1>10 DEF AnyStep

-----------------------------------------------------------------------------
(* Whose task each task is. *)

(* A task after one more of its iterations. *)
LEMMA OneLess ==
  ASSUME NEW task \in Task, task.first < task.last
  PROVE  LET next == [task EXCEPT !.first = @ + 1] IN
         /\ next \in Task
         /\ next.owner = task.owner /\ next.call = task.call /\ next.awaited = task.awaited
         /\ next.first = task.first + 1 /\ next.last = task.last
<1>1. task.first + 1 \in 0 .. MaxCount
  BY JobPoolAssumptions DEF Task
<1>2. QED
  BY <1>1 DEF Task

LEMMA Ends ==
  ASSUME NEW s \in Seq(Task), s # <<>>
  PROVE  /\ 1 \in 1 .. Len(s) /\ Head(s) = s[1] /\ Head(s) \in Task
         /\ Tail(s) \in Seq(Task)
         /\ \A i \in 1 .. Len(Tail(s)) : \E j \in 1 .. Len(s) : Tail(s)[i] = s[j]
<1>1. /\ Len(s) \in Nat \ {0}
      /\ Tail(s) \in Seq(Task)
      /\ Len(Tail(s)) = Len(s) - 1
      /\ \A i \in 1 .. Len(Tail(s)) : Tail(s)[i] = s[i + 1]
      /\ Head(s) \in Task
  BY HeadTailProperties, LenProperties, EmptySeq
<1>2. \A i \in 1 .. Len(Tail(s)) : i + 1 \in 1 .. Len(s)
  BY <1>1
<1>3. 1 \in 1 .. Len(s)
  BY <1>1
<1>4. QED
  BY <1>1, <1>2, <1>3

LEMMA Appended ==
  ASSUME NEW s \in Seq(Task), NEW x \in Task
  PROVE  /\ Append(s, x) \in Seq(Task)
         /\ \A i \in 1 .. Len(Append(s, x)) :
              Append(s, x)[i] = x \/ \E j \in 1 .. Len(s) : Append(s, x)[i] = s[j]
<1>1. /\ Len(s) \in Nat
      /\ Append(s, x) \in Seq(Task)
      /\ Len(Append(s, x)) = Len(s) + 1
      /\ \A i \in 1 .. Len(s) : Append(s, x)[i] = s[i]
      /\ Append(s, x)[Len(s) + 1] = x
  BY AppendProperties, LenProperties
<1>2. \A i \in 1 .. Len(s) + 1 : i \in 1 .. Len(s) \/ i = Len(s) + 1
  BY <1>1
<1>3. QED
  BY <1>1, <1>2

(* A thread outside a call has no task anybody awaits. *)
LEMMA IdleHasNone ==
  ASSUME PoolInv, NEW t \in Threads, caller[t] = "idle"
  PROVE  /\ submits[t] = <<>>
         /\ \A i \in 1 .. Len(tasks) : tasks[i] \notin OwnTasks(t)
         /\ \A i \in 1 .. Len(discarded) : discarded[i] \notin OwnTasks(t)
         /\ \A w \in Workers : worker[w] = "running" => job[w] \notin OwnTasks(t)
<1>1. submits[t] = <<>> /\ (awaits[t] => remaining[t] = 0)
  BY DEF PoolInv, CallersKnown
<1>2. ASSUME NEW task \in OwnTasks(t),
             \/ \E i \in 1 .. Len(tasks) : tasks[i] = task
             \/ \E i \in 1 .. Len(discarded) : discarded[i] = task
             \/ \E w \in Workers : worker[w] = "running" /\ job[w] = task
      PROVE  FALSE
  <2>1. task \in Task /\ task.awaited /\ task.owner = t
    BY DEF OwnTasks
  <2>2. awaits[t] /\ remaining[t] \in 1 .. Cardinality(Workers)
    BY <1>2, <2>1, RemainingPositive
  <2>3. QED
    BY <1>1, <2>2
<1>3. QED
  BY <1>1, <1>2

(* A new call disturbs no task that is about. *)
LEMMA KnownElsewhere ==
  ASSUME PoolInv, NEW t \in Threads, caller[t] = "idle",
         \A u \in Threads \ {t} : calls'[u] = calls[u] /\ awaits'[u] = awaits[u],
         UNCHANGED <<queueVars, workerVars, endVars>>
  PROVE  /\ \A i \in 1 .. Len(tasks') : Known(tasks[i])'
         /\ \A i \in 1 .. Len(discarded') : Known(discarded[i])'
         /\ \A w \in Workers : worker'[w] = "running" => job'[w] \in Task /\ Known(job[w])'
<1>1. UNCHANGED <<tasks, discarded, worker, job>>
  BY DEF queueVars, workerVars, endVars
<1>2. ASSUME NEW task \in Task, task \notin OwnTasks(t), Known(task)
      PROVE  task.awaited => task.call = calls'[task.owner] /\ awaits'[task.owner]
  BY <1>2 DEF OwnTasks, Known, Task
<1>3. /\ \A i \in 1 .. Len(tasks) : tasks[i] \in Task /\ Known(tasks[i])
      /\ \A i \in 1 .. Len(discarded) : discarded[i] \in Task /\ Known(discarded[i])
      /\ \A w \in Workers : worker[w] = "running" => job[w] \in Task /\ Known(job[w])
  BY ElementOfSeq DEF PoolInv, JobPoolTypeOK, TasksKnown
<1>4. /\ \A i \in 1 .. Len(tasks) : tasks[i] \notin OwnTasks(t)
      /\ \A i \in 1 .. Len(discarded) : discarded[i] \notin OwnTasks(t)
      /\ \A w \in Workers : worker[w] = "running" => job[w] \notin OwnTasks(t)
  BY IdleHasNone
<1>5. QED
  BY <1>1, <1>2, <1>3, <1>4 DEF Known

LEMMA TasksKnownKept ==
  ASSUME PoolInv, AnyStep
  PROVE  TasksKnown'
<1>0. /\ \A i \in 1 .. Len(tasks) : tasks[i] \in Task /\ Known(tasks[i])
      /\ \A i \in 1 .. Len(discarded) : discarded[i] \in Task /\ Known(discarded[i])
      /\ \A w \in Workers : worker[w] = "running" => job[w] \in Task /\ Known(job[w])
      /\ \A t \in Threads : \A i \in 1 .. Len(submits[t]) :
           /\ submits[t][i].owner = t
           /\ submits[t][i].call = calls[t]
           /\ submits[t][i].awaited = awaits[t]
      /\ tasks \in Seq(Task) /\ discarded \in Seq(Task) /\ submits \in [Threads -> Seq(Task)]
      /\ calls \in [Threads -> 0 .. MaxCalls] /\ awaits \in [Threads -> BOOLEAN]
      /\ MaxCalls \in Nat /\ Workers \subseteq Threads
  BY JobPoolAssumptions, ElementOfSeq DEF PoolInv, JobPoolTypeOK, TasksKnown, Threads
<1>1. ASSUME NEW t \in Threads, MayCall(t),
             NEW n \in 1 .. MaxCount, NEW awaited \in BOOLEAN, Start(t, n, awaited)
      PROVE  TasksKnown'
  <2> DEFINE new == TasksOf(t, n, awaited)
  <2>1. calls[t] + 1 \in 1 .. MaxCalls /\ caller[t] = "idle"
    BY <1>0, <1>1 DEF MayCall
  <2>2. \A i \in 1 .. Len(new) :
          new[i].owner = t /\ new[i].call = calls[t] + 1 /\ new[i].awaited = awaited
    BY <2>1, NewTasks
  <2>3. /\ submits' = [submits EXCEPT ![t] = new]
        /\ awaits' = [awaits EXCEPT ![t] = awaited]
        /\ calls' = [calls EXCEPT ![t] = @ + 1]
        /\ UNCHANGED <<queueVars, workerVars, endVars>>
    BY <1>1 DEF Start
  <2> HIDE DEF new
  <2>4. \A u \in Threads : /\ submits'[u] = IF u = t THEN new ELSE submits[u]
                           /\ awaits'[u] = IF u = t THEN awaited ELSE awaits[u]
                           /\ calls'[u] = IF u = t THEN calls[t] + 1 ELSE calls[u]
    BY <1>0, <2>3
  <2>5. /\ \A i \in 1 .. Len(tasks') : Known(tasks[i])'
        /\ \A i \in 1 .. Len(discarded') : Known(discarded[i])'
        /\ \A w \in Workers : worker'[w] = "running" => job'[w] \in Task /\ Known(job[w])'
    BY <2>1, <2>3, <2>4, KnownElsewhere
  <2>6. \A u \in Threads : \A i \in 1 .. Len(submits'[u]) :
          /\ submits'[u][i].owner = u
          /\ submits'[u][i].call = calls'[u]
          /\ submits'[u][i].awaited = awaits'[u]
    <3>1. ASSUME NEW u \in Threads, NEW i \in 1 .. Len(submits'[u])
          PROVE  /\ submits'[u][i].owner = u
                 /\ submits'[u][i].call = calls'[u]
                 /\ submits'[u][i].awaited = awaits'[u]
      <4>1. CASE u = t
        <5>1. submits'[u] = new /\ calls'[u] = calls[t] + 1 /\ awaits'[u] = awaited
          BY <2>4, <4>1
        <5>2. QED
          BY <2>2, <4>1, <5>1
      <4>2. CASE u # t
        <5>1. submits'[u] = submits[u] /\ calls'[u] = calls[u] /\ awaits'[u] = awaits[u]
          BY <2>4, <4>2
        <5>2. QED
          BY <1>0, <5>1
      <4>3. QED
        BY <4>1, <4>2
    <3>2. QED
      BY <3>1
  <2>7. QED
    BY <2>5, <2>6 DEF TasksKnown
<1>2. ASSUME NEW t \in Threads, NestedCall(t)
      PROVE  TasksKnown'
  <2>1. caller[t] = "idle" /\ submits[t] = <<>>
    BY <1>2, IdleHasNone DEF NestedCall, MayCall
  <2>2. /\ calls' = [calls EXCEPT ![t] = @ + 1]
        /\ UNCHANGED <<submits, awaits, queueVars, workerVars, endVars>>
    BY <1>2 DEF NestedCall
  <2>3. \A u \in Threads : u # t => calls'[u] = calls[u]
    BY <1>0, <2>2
  <2>4. /\ \A i \in 1 .. Len(tasks') : Known(tasks[i])'
        /\ \A i \in 1 .. Len(discarded') : Known(discarded[i])'
        /\ \A w \in Workers : worker'[w] = "running" => job'[w] \in Task /\ Known(job[w])'
    BY <2>1, <2>2, <2>3, KnownElsewhere
  <2>5. \A i \in 1 .. Len(submits[t]) : FALSE
    BY <2>1
  <2>6. \A u \in Threads : \A i \in 1 .. Len(submits[u]) : u # t
    BY <2>5
  <2>7. QED
    BY <1>0, <2>2, <2>3, <2>4, <2>6 DEF TasksKnown
<1>3. ASSUME NEW t \in Threads, enqueue(t)
      PROVE  TasksKnown'
  <2>1. /\ UNCHANGED <<awaits, calls>>
        /\ UNCHANGED <<discarded, worker, job>>
    BY <1>3 DEF enqueue, workerVars, endVars
  <2>2. CASE stop
    BY <1>0, <1>3, <2>1, <2>2 DEF enqueue, TasksKnown, Known
  <2>3. CASE ~stop
    <3>1. submits[t] # <<>>
      BY <1>3 DEF enqueue, PoolInv, CallersKnown
    <3>2. /\ Head(submits[t]) \in Task /\ Known(Head(submits[t]))
          /\ \A i \in 1 .. Len(Tail(submits[t])) :
               \E j \in 1 .. Len(submits[t]) : Tail(submits[t])[i] = submits[t][j]
      BY <1>0, <3>1, Ends DEF Known
    <3>3. tasks' = Append(tasks, Head(submits[t]))
          /\ submits' = [submits EXCEPT ![t] = Tail(submits[t])]
      BY <1>3, <2>3 DEF enqueue
    <3>4. \A i \in 1 .. Len(tasks') : Known(tasks'[i])
      BY SMTT(30), <1>0, <3>2, <3>3, Appended
    <3>5. \A u \in Threads : \A i \in 1 .. Len(submits'[u]) :
            \E j \in 1 .. Len(submits[u]) : submits'[u][i] = submits[u][j]
      <4>1. \A u \in Threads : submits'[u] = IF u = t THEN Tail(submits[t]) ELSE submits[u]
        BY <1>0, <3>3
      <4>2. QED
        BY <3>2, <4>1
    <3>6. QED
      BY SMTT(30), <1>0, <2>1, <3>4, <3>5 DEF TasksKnown, Known
  <2>4. QED
    BY <2>2, <2>3 DEF PoolInv, JobPoolTypeOK
<1>4. ASSUME NEW t \in Threads, notifyOne(t) \/ waitLoad(t) \/ waitBlock(t)
      PROVE  TasksKnown'
  <2>1. UNCHANGED <<tasks, discarded, submits, awaits, calls, job>>
    BY <1>4 DEF notifyOne, waitLoad, waitBlock, queueVars, workerVars, endVars
  <2>2. \A w \in Workers : worker'[w] = "running" => worker[w] = "running"
    BY <1>4 DEF notifyOne, waitLoad, waitBlock, workerVars, PoolInv, JobPoolTypeOK
  <2>3. QED
    BY <1>0, <2>1, <2>2 DEF TasksKnown, Known
<1>5. ASSUME NEW w \in Workers, workerLooks(w), tasks # <<>>, ~stop
      PROVE  TasksKnown'
  <2>1. /\ tasks' = Tail(tasks)
        /\ worker' = [worker EXCEPT ![w] = "running"]
        /\ job' = [job EXCEPT ![w] = Head(tasks)]
        /\ UNCHANGED <<discarded, submits, awaits, calls>>
    BY <1>5 DEF workerLooks, callVars, endVars
  <2>2. /\ Head(tasks) \in Task /\ Known(Head(tasks))
        /\ \A i \in 1 .. Len(Tail(tasks)) : \E j \in 1 .. Len(tasks) : Tail(tasks)[i] = tasks[j]
    BY <1>0, <1>5, Ends
  <2>3. \A v \in Workers : worker'[v] = "running" => job'[v] \in Task /\ Known(job'[v])
    <3>1. \A v \in Workers : /\ worker'[v] = IF v = w THEN "running" ELSE worker[v]
                             /\ job'[v] = IF v = w THEN Head(tasks) ELSE job[v]
      BY <2>1 DEF PoolInv, JobPoolTypeOK
    <3>2. QED
      BY <1>0, <2>2, <3>1
  <2>4. \A i \in 1 .. Len(tasks') : Known(tasks'[i])
    BY <1>0, <2>1, <2>2
  <2>5. QED
    BY <1>0, <2>1, <2>3, <2>4 DEF TasksKnown, Known
<1>6. ASSUME NEW w \in Workers,
             \/ workerLooks(w) /\ (tasks = <<>> \/ stop)
             \/ wakesSpuriously(w) \/ finishTask(w) \/ notifyWaiter(w)
      PROVE  TasksKnown'
  <2>1. UNCHANGED <<tasks, discarded, submits, awaits, calls, job>>
    BY <1>6 DEF workerLooks, wakesSpuriously, finishTask, notifyWaiter,
                queueVars, callVars, endVars
  <2>2. \A v \in Workers : worker'[v] = "running" => worker[v] = "running"
    BY <1>6 DEF workerLooks, wakesSpuriously, finishTask, notifyWaiter, PoolInv,
                JobPoolTypeOK
  <2>3. QED
    BY <1>0, <2>1, <2>2 DEF TasksKnown, Known
<1>7. ASSUME NEW w \in Workers, runIteration(w)
      PROVE  TasksKnown'
  <2>1. /\ worker[w] = "running" /\ job[w].first < job[w].last
        /\ job' = [job EXCEPT ![w] = [job[w] EXCEPT !.first = @ + 1]]
        /\ UNCHANGED <<tasks, discarded, submits, awaits, calls, worker>>
    BY <1>7 DEF runIteration, queueVars, endVars
  <2>2. /\ [job[w] EXCEPT !.first = @ + 1] \in Task
        /\ [job[w] EXCEPT !.first = @ + 1].owner = job[w].owner
        /\ [job[w] EXCEPT !.first = @ + 1].call = job[w].call
        /\ [job[w] EXCEPT !.first = @ + 1].awaited = job[w].awaited
    BY <1>0, <2>1, OneLess
  <2>3. \A v \in Workers : job'[v] = IF v = w THEN [job[w] EXCEPT !.first = @ + 1] ELSE job[v]
    BY <2>1 DEF PoolInv, JobPoolTypeOK
  <2>4. \A v \in Workers : worker[v] = "running" => job'[v] \in Task /\ Known(job'[v])
    BY <1>0, <2>1, <2>2, <2>3 DEF Known
  <2> DEFINE jobs == job'
  <2>5. /\ job' = jobs
        /\ \A v \in Workers : worker[v] = "running" => jobs[v] \in Task /\ Known(jobs[v])
    BY <2>4
  <2> HIDE DEF jobs
  <2>6. \A v \in Workers : worker'[v] = "running" => job'[v] \in Task /\ Known(job[v])'
    BY <2>1, <2>5 DEF Known
  <2>7. /\ \A i \in 1 .. Len(tasks') : Known(tasks[i])'
        /\ \A i \in 1 .. Len(discarded') : Known(discarded[i])'
    BY <1>0, <2>1 DEF Known
  <2>8. QED
    BY ZenonT(60), <1>0, <2>1, <2>6, <2>7 DEF TasksKnown
<1>8. ASSUME cancelTask
      PROVE  TasksKnown'
  <2>1. /\ discarded # <<>> /\ discarded' = Tail(discarded)
        /\ UNCHANGED <<tasks, submits, awaits, calls, worker, job>>
    BY <1>8 DEF cancelTask, queueVars, workerVars
  <2>2. \A i \in 1 .. Len(discarded') : \E j \in 1 .. Len(discarded) : discarded'[i] = discarded[j]
    BY <1>0, <2>1, Ends
  <2>3. QED
    BY <1>0, <2>1, <2>2 DEF TasksKnown, Known
<1>9. ASSUME destroyPool
      PROVE  TasksKnown'
  <2>1. /\ tasks' = <<>> /\ discarded' = tasks
        /\ UNCHANGED <<submits, awaits, calls, worker, job>>
    BY <1>9 DEF destroyPool, workerVars, callVars
  <2>2. \A i \in 1 .. Len(tasks') : FALSE
    BY <2>1
  <2>3. QED
    BY <1>0, <2>1, <2>2 DEF TasksKnown, Known
<1>10. ASSUME notifyAll \/ joinWorkers \/ UNCHANGED poolVars
       PROVE  TasksKnown'
  <2>1. UNCHANGED <<tasks, discarded, submits, awaits, calls, job>>
    BY <1>10 DEF notifyAll, joinWorkers, poolVars, queueVars, workerVars, callVars
  <2>2. \A v \in Workers : worker'[v] = "running" => worker[v] = "running"
    BY <1>10 DEF notifyAll, joinWorkers, poolVars, workerVars
  <2>3. QED
    BY <1>0, <2>1, <2>2 DEF TasksKnown, Known
<1>11. QED
  BY <1>1, <1>2, <1>3, <1>4, <1>5, <1>6, <1>7, <1>8, <1>9, <1>10 DEF AnyStep

-----------------------------------------------------------------------------
(* Where each caller is. *)

(* The counter of a thread outside a call is not touched. *)
LEMMA CallersKnownKept ==
  ASSUME PoolInv, AnyStep
  PROVE  CallersKnown'
<1> DEFINE Waits == {"waiting", "blocking", "blocked"}
<1>0. /\ caller \in [Threads -> {"idle", "submitting", "notifying", "waiting",
                                 "blocking", "blocked"}]
      /\ submits \in [Threads -> Seq(Task)] /\ awaits \in [Threads -> BOOLEAN]
      /\ remaining \in [Threads -> 0 .. Cardinality(Workers)]
      /\ \A t \in Threads :
           /\ caller[t] = "submitting" => submits[t] # <<>>
           /\ caller[t] \in {"idle", "waiting", "blocking", "blocked"} => submits[t] = <<>>
           /\ caller[t] \in Waits => awaits[t]
           /\ caller[t] = "idle" /\ awaits[t] => remaining[t] = 0
  BY DEF PoolInv, JobPoolTypeOK, CallersKnown
<1>1. ASSUME NEW t \in Threads, MayCall(t),
             NEW n \in 1 .. MaxCount, NEW awaited \in BOOLEAN, Start(t, n, awaited)
      PROVE  CallersKnown'
  <2> DEFINE new == TasksOf(t, n, awaited)
  <2>1. new # <<>>
    <3>1. calls[t] + 1 \in 1 .. MaxCalls
      BY <1>1, CallNumber
    <3>2. QED
      BY <3>1, NewTasks
  <2>2. /\ submits' = [submits EXCEPT ![t] = new]
        /\ awaits' = [awaits EXCEPT ![t] = awaited]
        /\ caller' = [caller EXCEPT ![t] = "submitting"]
        /\ \A u \in Threads \ {t} : remaining'[u] = remaining[u]
    BY <1>0, <1>1 DEF Start
  <2> HIDE DEF new
  <2>3. QED
    BY <1>0, <2>1, <2>2 DEF CallersKnown
<1>2. ASSUME NEW t \in Threads, enqueue(t)
      PROVE  CallersKnown'
  <2>1. CASE stop
    BY <1>0, <1>2, <2>1 DEF enqueue, CallersKnown
  <2>2. CASE ~stop
    <3>1. /\ caller' = [caller EXCEPT ![t] = "notifying"]
          /\ submits' = [submits EXCEPT ![t] = Tail(@)]
          /\ UNCHANGED <<awaits, remaining>>
      BY <1>2, <2>2 DEF enqueue
    <3>2. QED
      BY <1>0, <3>1 DEF CallersKnown
  <2>3. QED
    BY <2>1, <2>2 DEF PoolInv, JobPoolTypeOK
<1>3. ASSUME NEW t \in Threads, notifyOne(t)
      PROVE  CallersKnown'
  <2>1. /\ caller' = [caller EXCEPT ![t] = AfterEnqueue(t)]
        /\ UNCHANGED <<submits, awaits, remaining>>
    BY <1>3 DEF notifyOne
  <2>2. QED
    BY <1>0, <2>1 DEF CallersKnown, AfterEnqueue
<1>4. ASSUME NEW t \in Threads, waitLoad(t) \/ waitBlock(t)
      PROVE  CallersKnown'
  <2>1. /\ caller[t] \in Waits /\ UNCHANGED <<submits, awaits, remaining>>
        /\ \E c \in Waits \cup {"idle"} : /\ caller' = [caller EXCEPT ![t] = c]
                                          /\ c = "idle" => remaining[t] = 0
    BY <1>4 DEF waitLoad, waitBlock
  <2>2. QED
    BY <1>0, <2>1 DEF CallersKnown
<1>5. ASSUME NEW w \in Workers, finishTask(w)
      PROVE  CallersKnown'
  <2>1. UNCHANGED <<caller, submits, awaits>>
    BY <1>5 DEF finishTask
  <2>2. \A t \in Threads : remaining[t] = 0 /\ awaits[t] => remaining'[t] = 0
    <3>1. CASE job[w].awaited
      <4>1. job[w] \in Task
        BY <1>5 DEF finishTask, PoolInv, TasksKnown
      <4>2. job[w].owner \in Threads /\ remaining[job[w].owner] # 0
        <5>1. remaining[job[w].owner] \in 1 .. Cardinality(Workers)
          BY <1>5, <3>1, <4>1, RemainingPositive DEF finishTask
        <5>2. QED
          BY <4>1, <5>1 DEF Task
      <4>3. QED
        BY <1>0, <1>5, <3>1, <4>2 DEF finishTask
    <3>2. CASE ~job[w].awaited
      BY <1>5, <3>2 DEF finishTask
    <3>3. QED
      BY <3>1, <3>2
  <2>3. QED
    BY <1>0, <2>1, <2>2 DEF CallersKnown
<1>6. ASSUME cancelTask
      PROVE  CallersKnown'
  <2> DEFINE task == Head(discarded)
  <2>1. /\ task \in Task /\ 1 \in 1 .. Len(discarded) /\ discarded[1] = task
        /\ UNCHANGED <<submits, awaits>>
    BY <1>6, Ends DEF cancelTask, PoolInv, JobPoolTypeOK
  <2>2. \A t \in Threads : remaining[t] = 0 /\ awaits[t] => remaining'[t] = 0
    <3>1. CASE task.awaited
      <4>1. task.owner \in Threads /\ remaining[task.owner] # 0
        <5>1. remaining[task.owner] \in 1 .. Cardinality(Workers)
          BY <2>1, <3>1, RemainingPositive
        <5>2. QED
          BY <2>1, <5>1 DEF Task
      <4>2. QED
        BY <1>0, <1>6, <3>1, <4>1 DEF cancelTask
    <3>2. CASE ~task.awaited
      BY <1>6, <3>2 DEF cancelTask
    <3>3. QED
      BY <3>1, <3>2
  <2>3. \A t \in Threads : \/ caller'[t] = caller[t]
                           \/ caller[t] = "blocked" /\ caller'[t] = "waiting"
    BY <1>0, <1>6 DEF cancelTask, Wake
  <2>4. QED
    BY <1>0, <2>1, <2>2, <2>3 DEF CallersKnown
<1>7. ASSUME NEW w \in Workers, notifyWaiter(w)
      PROVE  CallersKnown'
  <2>1. UNCHANGED <<submits, awaits, remaining>>
    BY <1>7 DEF notifyWaiter
  <2>2. \A t \in Threads : \/ caller'[t] = caller[t]
                           \/ caller[t] = "blocked" /\ caller'[t] = "waiting"
    BY <1>0, <1>7 DEF notifyWaiter, Wake
  <2>3. QED
    BY <1>0, <2>1, <2>2 DEF CallersKnown
<1>8. ASSUME \/ \E t \in Threads : NestedCall(t)
             \/ \E w \in Workers : workerLooks(w) \/ wakesSpuriously(w) \/ runIteration(w)
             \/ destroyPool \/ notifyAll \/ joinWorkers \/ UNCHANGED poolVars
      PROVE  CallersKnown'
  <2>1. UNCHANGED <<caller, submits, awaits, remaining>>
    BY <1>8 DEF NestedCall, workerLooks, wakesSpuriously, runIteration, destroyPool,
                notifyAll, joinWorkers, poolVars, callVars
  <2>2. QED
    BY <1>0, <2>1 DEF CallersKnown
<1>9. QED
  BY <1>1, <1>2, <1>3, <1>4, <1>5, <1>6, <1>7, <1>8 DEF AnyStep

LEMMA DestructorKnownKept ==
  ASSUME DestructorKnown, AnyStep
  PROVE  DestructorKnown'
<1> DEFINE Same == UNCHANGED <<destructor, stop, discarded>>
<1>1. ASSUME NEW t \in Threads,
             \/ MayCall(t) /\ \E n \in 1 .. MaxCount, awaited \in BOOLEAN : Start(t, n, awaited)
             \/ enqueue(t) \/ notifyOne(t)
      PROVE  Same
  BY <1>1 DEF Start, enqueue, notifyOne, queueVars, endVars
<1>2. ASSUME NEW t \in Threads, waitLoad(t) \/ waitBlock(t) \/ NestedCall(t)
      PROVE  Same
  BY <1>2 DEF waitLoad, waitBlock, NestedCall, queueVars, endVars
<1>3. ASSUME NEW w \in Workers, workerLooks(w) \/ wakesSpuriously(w)
      PROVE  Same
  BY <1>3 DEF workerLooks, wakesSpuriously, queueVars, endVars
<1>4. ASSUME NEW w \in Workers, runIteration(w) \/ finishTask(w) \/ notifyWaiter(w)
      PROVE  Same
  BY <1>4 DEF runIteration, finishTask, notifyWaiter, queueVars, endVars
<1>5. CASE destroyPool \/ notifyAll \/ cancelTask \/ joinWorkers
  <2>1. destructor' # "none"
    BY <1>5 DEF destroyPool, notifyAll, cancelTask, joinWorkers
  <2>2. QED
    BY <2>1 DEF DestructorKnown
<1>6. CASE UNCHANGED poolVars
  BY <1>6 DEF DestructorKnown, poolVars, queueVars, endVars
<1>7. CASE Same
  BY <1>7 DEF DestructorKnown
<1> HIDE DEF Same
<1>8. QED
  BY <1>1, <1>2, <1>3, <1>4, <1>5, <1>6, <1>7 DEF AnyStep

-----------------------------------------------------------------------------
(* What steps do to the tasks held. *)

(* Steps that move tasks of a thread, or none. *)
Moves ==
  \/ \E u \in Threads : enqueue(u) \/ notifyOne(u) \/ waitLoad(u) \/ waitBlock(u)
                          \/ NestedCall(u)
  \/ \E w \in Workers : workerLooks(w) \/ wakesSpuriously(w) \/ notifyWaiter(w)
  \/ destroyPool \/ notifyAll \/ joinWorkers \/ UNCHANGED poolVars

LEMMA HeldThroughMoves ==
  ASSUME PoolInv, AnyStep, Moves, NEW t \in Threads, NEW S \in SUBSET OwnTasks(t)
  PROVE  Held(S, t)' = Held(S, t)
<1>0. /\ tasks \in Seq(Task) /\ discarded \in Seq(Task) /\ submits \in [Threads -> Seq(Task)]
      /\ worker \in [Workers -> {"looking", "asleep", "running", "notifying", "exited"}]
      /\ job \in [Workers -> Task \cup {NoTask}]
      /\ stop \in BOOLEAN /\ submits[t] \in Seq(Task)
  BY DEF PoolInv, JobPoolTypeOK
<1>1. /\ CountIn(S, submits[t]) \in Nat /\ CountIn(S, tasks) \in Nat
      /\ CountIn(S, discarded) \in Nat
      /\ Cardinality(RunningIn(S)) \in Nat /\ IsFiniteSet(RunningIn(S))
  BY Parts DEF PoolInv
<1>2. ASSUME NEW u \in Threads, enqueue(u), ~stop
      PROVE  Held(S, t)' = Held(S, t)
  <2> DEFINE task == Head(submits[u])
             rest == Tail(submits[u])
             more == Append(tasks, task)
  <2>1. /\ submits[u] # <<>> /\ submits[u] \in Seq(Task)
        /\ submits' = [submits EXCEPT ![u] = rest]
        /\ tasks' = more
        /\ UNCHANGED <<discarded, worker, job>>
    BY <1>0, <1>2 DEF enqueue, PoolInv, CallersKnown, workerVars, endVars
  <2>2. 1 \in 1 .. Len(submits[u]) /\ task = submits[u][1] /\ task \in Task
        /\ rest \in Seq(Task)
    BY <2>1, Ends
  <2>3. task.owner = u
    BY <2>2 DEF PoolInv, TasksKnown
  <2>4. CountIn(S, more) = CountIn(S, tasks) + (IF task \in S THEN 1 ELSE 0)
    BY <1>0, <2>2, CountedAppend
  <2>5. CountIn(S, submits[u]) = CountIn(S, rest) + (IF task \in S THEN 1 ELSE 0)
        /\ CountIn(S, rest) \in Nat
    BY <2>1, <2>2, CountedTail, Counted
  <2>6. u # t => task \notin S
    BY <2>3 DEF OwnTasks
  <2> HIDE DEF task, rest, more
  <2>7. submits'[t] = IF u = t THEN rest ELSE submits[t]
    BY <1>0, <2>1
  <2>8. RunningIn(S)' = RunningIn(S)
    BY <2>1 DEF RunningIn
  <2>9. Held(S, t)' = CountIn(S, submits'[t]) + CountIn(S, more) + CountIn(S, discarded)
                        + Cardinality(RunningIn(S))
    <3>1. Held(S, t)' = CountIn(S, submits'[t]) + CountIn(S, tasks') + CountIn(S, discarded')
                          + Cardinality(RunningIn(S)')
      BY DEF Held, CountIn
    <3>2. QED
      BY <2>1, <2>8, <3>1
  <2>10. CASE u = t
    BY <1>1, <2>4, <2>5, <2>7, <2>9, <2>10 DEF Held
  <2>11. CASE u # t
    BY <1>1, <2>4, <2>6, <2>7, <2>9, <2>11 DEF Held
  <2>12. QED
    BY <2>10, <2>11
<1>3. ASSUME NEW w \in Workers, workerLooks(w), ~stop, tasks # <<>>
      PROVE  Held(S, t)' = Held(S, t)
  <2> DEFINE task == Head(tasks)
             rest == Tail(tasks)
  <2>1. /\ worker[w] = "looking"
        /\ tasks' = rest
        /\ worker' = [worker EXCEPT ![w] = "running"]
        /\ job' = [job EXCEPT ![w] = task]
        /\ UNCHANGED <<discarded, submits>>
    BY <1>3 DEF workerLooks, callVars, endVars
  <2>2. task \in Task /\ rest \in Seq(Task)
    BY <1>0, <1>3, Ends
  <2>3. CountIn(S, tasks) = CountIn(S, rest) + (IF task \in S THEN 1 ELSE 0)
        /\ CountIn(S, rest) \in Nat
    BY <1>0, <1>3, <2>2, CountedTail, Counted
  <2> HIDE DEF task, rest
  <2>4. RunningIn(S)' = (IF task \in S THEN RunningIn(S) \cup {w} ELSE RunningIn(S))
        /\ w \notin RunningIn(S)
    BY <1>0, <2>1 DEF RunningIn
  <2>5. Cardinality(RunningIn(S) \cup {w}) = Cardinality(RunningIn(S)) + 1
    BY <1>1, <2>4, FS_AddElement
  <2>6. Held(S, t)' = CountIn(S, submits[t]) + CountIn(S, rest) + CountIn(S, discarded)
                        + Cardinality(RunningIn(S)')
    <3>1. Held(S, t)' = CountIn(S, submits'[t]) + CountIn(S, tasks') + CountIn(S, discarded')
                          + Cardinality(RunningIn(S)')
      BY DEF Held, CountIn
    <3>2. QED
      BY <2>1, <3>1
  <2>7. CASE task \in S
    BY <1>1, <2>3, <2>4, <2>5, <2>6, <2>7 DEF Held
  <2>8. CASE task \notin S
    BY <1>1, <2>3, <2>4, <2>6, <2>8 DEF Held
  <2>9. QED
    BY <2>7, <2>8
<1>4. ASSUME destroyPool
      PROVE  Held(S, t)' = Held(S, t)
  <2>1. /\ tasks' = <<>> /\ discarded' = tasks /\ discarded = <<>>
        /\ UNCHANGED <<submits, worker, job>>
    BY <1>4 DEF destroyPool, PoolInv, DestructorKnown, workerVars, callVars
  <2>2. Held(S, t)' = CountIn(S, submits[t]) + CountIn(S, <<>>) + CountIn(S, tasks)
                        + Cardinality(RunningIn(S))
    <3>1. Held(S, t)' = CountIn(S, submits'[t]) + CountIn(S, tasks') + CountIn(S, discarded')
                          + Cardinality(RunningIn(S)')
      BY DEF Held, CountIn
    <3>2. RunningIn(S)' = RunningIn(S)
      BY <2>1 DEF RunningIn
    <3>3. QED
      BY <2>1, <3>1, <3>2
  <2>3. Held(S, t) = CountIn(S, submits[t]) + CountIn(S, tasks) + CountIn(S, <<>>)
                       + Cardinality(RunningIn(S))
    BY <2>1 DEF Held
  <2>4. CountIn(S, <<>>) = 0
    BY CountedNone
  <2>5. QED
    BY <1>1, <2>2, <2>3, <2>4
<1>5. ASSUME \/ \E u \in Threads : \/ notifyOne(u) \/ waitLoad(u) \/ waitBlock(u)
                                   \/ NestedCall(u) \/ (enqueue(u) /\ stop)
             \/ \E w \in Workers : \/ wakesSpuriously(w) \/ notifyWaiter(w)
                                   \/ workerLooks(w) /\ (stop \/ tasks = <<>>)
             \/ notifyAll \/ joinWorkers \/ UNCHANGED poolVars
      PROVE  Held(S, t)' = Held(S, t)
  <2>1. UNCHANGED <<submits, tasks, discarded, job>>
    BY <1>5 DEF notifyOne, waitLoad, waitBlock, NestedCall, enqueue, wakesSpuriously,
                notifyWaiter, workerLooks, notifyAll, joinWorkers, poolVars, queueVars,
                workerVars, callVars, endVars
  <2>2. \A w \in Workers : worker'[w] = "running" <=> worker[w] = "running"
    BY <1>0, <1>5 DEF notifyOne, waitLoad, waitBlock, NestedCall, enqueue, wakesSpuriously,
                      notifyWaiter, workerLooks, notifyAll, joinWorkers, poolVars, workerVars
  <2>3. RunningIn(S)' = RunningIn(S)
    BY <2>1, <2>2 DEF RunningIn
  <2>4. Held(S, t)' = CountIn(S, submits'[t]) + CountIn(S, tasks') + CountIn(S, discarded')
                        + Cardinality(RunningIn(S)')
    BY DEF Held, CountIn
  <2>5. QED
    BY <2>1, <2>3, <2>4 DEF Held
<1>6. QED
  BY <1>0, <1>2, <1>3, <1>4, <1>5 DEF Moves

LEMMA HeldAtFinish ==
  ASSUME PoolInv, NEW w \in Workers, finishTask(w), NEW t \in Threads, NEW S
  PROVE  Held(S, t)' = Held(S, t) - (IF job[w] \in S THEN 1 ELSE 0)
<1>0. worker \in [Workers -> {"looking", "asleep", "running", "notifying", "exited"}]
  BY DEF PoolInv, JobPoolTypeOK
<1>1. /\ CountIn(S, submits[t]) \in Nat /\ CountIn(S, tasks) \in Nat
      /\ CountIn(S, discarded) \in Nat
      /\ Cardinality(RunningIn(S)) \in Nat /\ IsFiniteSet(RunningIn(S))
  BY Parts DEF PoolInv
<1>2. /\ worker[w] = "running"
      /\ worker'[w] # "running"
      /\ \A v \in Workers \ {w} : worker'[v] = worker[v]
      /\ UNCHANGED <<submits, tasks, discarded, job>>
  BY <1>0 DEF finishTask, queueVars, endVars
<1>3. RunningIn(S)' = RunningIn(S) \ {w}
  BY <1>2 DEF RunningIn
<1>4. w \in RunningIn(S) <=> job[w] \in S
  BY <1>2 DEF RunningIn
<1>5. Cardinality(RunningIn(S) \ {w})
        = Cardinality(RunningIn(S)) - (IF job[w] \in S THEN 1 ELSE 0)
  <2>1. Cardinality(RunningIn(S) \ {w})
          = IF w \in RunningIn(S) THEN Cardinality(RunningIn(S)) - 1
                                  ELSE Cardinality(RunningIn(S))
    BY <1>1, FS_RemoveElement
  <2>2. QED
    BY <1>1, <1>4, <2>1
<1>6. Held(S, t)' = CountIn(S, submits'[t]) + CountIn(S, tasks') + CountIn(S, discarded')
                      + Cardinality(RunningIn(S)')
  BY DEF Held, CountIn
<1>7. QED
  BY <1>1, <1>2, <1>3, <1>5, <1>6 DEF Held

LEMMA HeldAtIteration ==
  ASSUME PoolInv, NEW w \in Workers, runIteration(w), NEW t \in Threads, NEW S
  PROVE  Held(S, t)' = Held(S, t) - (IF job[w] \in S THEN 1 ELSE 0)
                         + (IF [job[w] EXCEPT !.first = @ + 1] \in S THEN 1 ELSE 0)
<1> DEFINE next == [job[w] EXCEPT !.first = @ + 1]
<1>0. job \in [Workers -> Task \cup {NoTask}]
  BY DEF PoolInv, JobPoolTypeOK
<1>1. /\ CountIn(S, submits[t]) \in Nat /\ CountIn(S, tasks) \in Nat
      /\ CountIn(S, discarded) \in Nat
      /\ Cardinality(RunningIn(S)) \in Nat /\ IsFiniteSet(RunningIn(S))
  BY Parts DEF PoolInv
<1>2. /\ worker[w] = "running"
      /\ job' = [job EXCEPT ![w] = next]
      /\ UNCHANGED <<submits, tasks, discarded, worker>>
  BY DEF runIteration, queueVars, endVars
<1> HIDE DEF next
<1>3. RunningIn(S)' = (RunningIn(S) \ {w}) \cup (IF next \in S THEN {w} ELSE {})
  BY <1>0, <1>2 DEF RunningIn
<1>4. w \in RunningIn(S) <=> job[w] \in S
  BY <1>2 DEF RunningIn
<1>5. /\ Cardinality(RunningIn(S) \ {w})
           = Cardinality(RunningIn(S)) - (IF job[w] \in S THEN 1 ELSE 0)
      /\ IsFiniteSet(RunningIn(S) \ {w})
  BY <1>1, <1>4, FS_RemoveElement
<1>6. Cardinality(RunningIn(S)')
        = Cardinality(RunningIn(S) \ {w}) + (IF next \in S THEN 1 ELSE 0)
  <2>1. Cardinality((RunningIn(S) \ {w}) \cup {w}) = Cardinality(RunningIn(S) \ {w}) + 1
    BY <1>5, FS_AddElement
  <2>2. CASE next \in S
    <3>1. RunningIn(S)' = (RunningIn(S) \ {w}) \cup {w}
      BY <1>3, <2>2
    <3>2. QED
      BY <2>1, <2>2, <3>1
  <2>3. CASE next \notin S
    <3>1. RunningIn(S)' = RunningIn(S) \ {w}
      BY <1>3, <2>3
    <3>2. Cardinality(RunningIn(S) \ {w}) \in Int
      BY <1>1, <1>5
    <3>3. QED
      BY <2>3, <3>1, <3>2
  <2>4. QED
    BY <2>2, <2>3
<1>7. Held(S, t)' = CountIn(S, submits'[t]) + CountIn(S, tasks') + CountIn(S, discarded')
                      + Cardinality(RunningIn(S)')
  BY DEF Held, CountIn
<1>8. Held(S, t)' = Held(S, t) - (IF job[w] \in S THEN 1 ELSE 0)
                      + (IF next \in S THEN 1 ELSE 0)
  BY <1>1, <1>2, <1>5, <1>6, <1>7 DEF Held
<1>9. QED
  BY <1>8 DEF next

LEMMA HeldAtCancel ==
  ASSUME PoolInv, cancelTask, NEW t \in Threads, NEW S
  PROVE  Held(S, t)' = Held(S, t) - (IF Head(discarded) \in S THEN 1 ELSE 0)
<1>0. discarded \in Seq(Task) /\ discarded # <<>>
  BY DEF PoolInv, JobPoolTypeOK, cancelTask
<1>1. /\ CountIn(S, submits[t]) \in Nat /\ CountIn(S, tasks) \in Nat
      /\ CountIn(S, discarded) \in Nat
      /\ Cardinality(RunningIn(S)) \in Nat
  BY Parts DEF PoolInv
<1>2. /\ discarded' = Tail(discarded)
      /\ UNCHANGED <<submits, tasks, worker, job>>
  BY DEF cancelTask, queueVars, workerVars
<1>3. /\ CountIn(S, discarded)
           = CountIn(S, Tail(discarded)) + (IF Head(discarded) \in S THEN 1 ELSE 0)
      /\ CountIn(S, Tail(discarded)) \in Nat
  BY <1>0, Ends, CountedTail, Counted
<1>4. Held(S, t)' = CountIn(S, submits'[t]) + CountIn(S, tasks') + CountIn(S, discarded')
                      + Cardinality(RunningIn(S)')
  BY DEF Held, CountIn
<1>5. RunningIn(S)' = RunningIn(S)
  BY <1>2 DEF RunningIn
<1>6. QED
  BY <1>1, <1>2, <1>3, <1>4, <1>5 DEF Held

(* A new call adds its tasks to none of the thread's. *)
LEMMA HeldAtStart ==
  ASSUME PoolInv, NEW u \in Threads, MayCall(u), NEW n \in 1 .. MaxCount,
         NEW awaited \in BOOLEAN, Start(u, n, awaited),
         NEW t \in Threads, NEW S \in SUBSET OwnTasks(t)
  PROVE  Held(S, t)' = IF t = u THEN CountIn(S, TasksOf(u, n, awaited)) ELSE Held(S, t)
<1>0. submits \in [Threads -> Seq(Task)] /\ caller[u] = "idle"
  BY DEF PoolInv, JobPoolTypeOK, MayCall
<1>1. /\ submits' = [submits EXCEPT ![u] = TasksOf(u, n, awaited)]
      /\ UNCHANGED <<tasks, discarded, worker, job>>
  BY DEF Start, queueVars, workerVars, endVars
<1>2. Held(S, t)' = CountIn(S, submits'[t]) + CountIn(S, tasks') + CountIn(S, discarded')
                      + Cardinality(RunningIn(S)')
  BY DEF Held, CountIn
<1>3. RunningIn(S)' = RunningIn(S)
  BY <1>1 DEF RunningIn
<1>4. CASE t # u
  <2>1. submits'[t] = submits[t]
    BY <1>0, <1>1, <1>4
  <2>2. QED
    BY <1>1, <1>2, <1>3, <1>4, <2>1 DEF Held
<1>5. CASE t = u
  <2>1. /\ \A i \in 1 .. Len(tasks) : tasks[i] \notin S
        /\ \A i \in 1 .. Len(discarded) : discarded[i] \notin S
        /\ \A w \in Workers : worker[w] = "running" => job[w] \notin S
    BY <1>0, <1>5, IdleHasNone
  <2>2. CountIn(S, tasks) = 0 /\ CountIn(S, discarded) = 0
    BY <2>1, Counted DEF PoolInv, JobPoolTypeOK
  <2>3. Cardinality(RunningIn(S)) = 0
    <3>1. RunningIn(S) = {}
      BY <2>1 DEF RunningIn
    <3>2. QED
      BY <3>1, FS_EmptySet
  <2>4. CountIn(S, TasksOf(u, n, awaited)) \in Nat
    <3>1. calls[u] + 1 \in 1 .. MaxCalls
      BY CallNumber
    <3>2. QED
      BY <3>1, NewTasks, Counted
  <2>5. submits'[t] = TasksOf(u, n, awaited)
    BY <1>0, <1>1, <1>5
  <2>6. QED
    BY <1>1, <1>2, <1>3, <1>5, <2>2, <2>3, <2>4, <2>5
<1>6. QED
  BY <1>4, <1>5

-----------------------------------------------------------------------------
(* The counter counts. *)

LEMMA AnyStepIs ==
  ASSUME AnyStep
  PROVE  \/ Moves
         \/ \E t \in Threads : MayCall(t) /\ \E n \in 1 .. MaxCount, awaited \in BOOLEAN :
                                               Start(t, n, awaited)
         \/ \E w \in Workers : runIteration(w) \/ finishTask(w)
         \/ cancelTask
BY DEF AnyStep, Moves

LEMMA MovesKeepCalls ==
  ASSUME Moves
  PROVE  UNCHANGED <<awaits, remaining, cancelled, executed>>
BY DEF Moves, enqueue, notifyOne, waitLoad, waitBlock, NestedCall, workerLooks,
       wakesSpuriously, notifyWaiter, destroyPool, notifyAll, joinWorkers, callVars, poolVars

LEMMA RemainingHeldKept ==
  ASSUME PoolInv, AnyStep
  PROVE  RemainingHeld'
<1> SUFFICES ASSUME NEW t \in Threads, awaits'[t]
             PROVE  remaining'[t] = Held(OwnTasks(t), t)'
  BY DEF RemainingHeld, OwnTasks
<1>0. /\ awaits \in [Threads -> BOOLEAN]
      /\ remaining \in [Threads -> 0 .. Cardinality(Workers)] /\ remaining[t] \in Int
      /\ awaits[t] => remaining[t] = Held(OwnTasks(t), t)
      /\ Cardinality(Workers) \in Nat
  <2>1. Cardinality(Workers) \in Nat
    BY JobPoolAssumptions, FS_CardinalityType
  <2>2. remaining[t] \in 0 .. Cardinality(Workers)
    BY DEF PoolInv, JobPoolTypeOK
  <2>3. remaining[t] \in Int
    BY <2>1, <2>2
  <2>4. /\ awaits \in [Threads -> BOOLEAN]
        /\ remaining \in [Threads -> 0 .. Cardinality(Workers)]
    BY DEF PoolInv, JobPoolTypeOK
  <2>5. awaits[t] => remaining[t] = Held(OwnTasks(t), t)
    BY DEF PoolInv, RemainingHeld
  <2>6. QED
    BY <2>1, <2>3, <2>4, <2>5
<1>1. CASE Moves
  <2>1. UNCHANGED <<awaits, remaining>>
    BY <1>1, MovesKeepCalls
  <2>2. Held(OwnTasks(t), t)' = Held(OwnTasks(t), t)
    BY <1>1, HeldThroughMoves
  <2>3. QED
    BY <1>0, <2>1, <2>2
<1>2. ASSUME NEW u \in Threads, MayCall(u), NEW n \in 1 .. MaxCount, NEW awaited \in BOOLEAN,
             Start(u, n, awaited)
      PROVE  remaining'[t] = Held(OwnTasks(t), t)'
  <2> DEFINE new == TasksOf(u, n, awaited)
  <2>1. calls[u] + 1 \in 1 .. MaxCalls
    BY <1>2, CallNumber
  <2>2. Len(new) = Chunks(n) /\ (awaited => CountIn(OwnTasks(u), new) = Chunks(n))
    BY <2>1, NewTasks
  <2>3. /\ remaining' = [remaining EXCEPT ![u] = Len(new)]
        /\ awaits' = [awaits EXCEPT ![u] = awaited]
    BY <1>2 DEF Start, TaskCount
  <2>4. Held(OwnTasks(t), t)'
          = IF t = u THEN CountIn(OwnTasks(t), new) ELSE Held(OwnTasks(t), t)
    BY <1>2, HeldAtStart
  <2> HIDE DEF new
  <2>5. CASE t = u
    BY <1>0, <2>2, <2>3, <2>4, <2>5
  <2>6. CASE t # u
    BY <1>0, <2>3, <2>4, <2>6
  <2>7. QED
    BY <2>5, <2>6
<1>3. ASSUME NEW w \in Workers, runIteration(w)
      PROVE  remaining'[t] = Held(OwnTasks(t), t)'
  <2>1. UNCHANGED <<awaits, remaining>>
    BY <1>3 DEF runIteration
  <2>2. job[w] \in Task /\ job[w].first < job[w].last
    BY <1>3 DEF runIteration, PoolInv, TasksKnown
  <2>3. [job[w] EXCEPT !.first = @ + 1] \in OwnTasks(t) <=> job[w] \in OwnTasks(t)
    BY <2>2, OneLess DEF OwnTasks
  <2>4. Held(OwnTasks(t), t)' = Held(OwnTasks(t), t)
    <3>1. Held(OwnTasks(t), t) \in Nat
      BY Parts DEF PoolInv
    <3>2. QED
      BY <1>3, <2>3, <3>1, HeldAtIteration
  <2>5. QED
    BY <1>0, <2>1, <2>4
<1>4. ASSUME NEW w \in Workers, finishTask(w)
      PROVE  remaining'[t] = Held(OwnTasks(t), t)'
  <2>1. job[w] \in Task /\ awaits' = awaits
    BY <1>4 DEF finishTask, PoolInv, TasksKnown
  <2>2. Held(OwnTasks(t), t)'
          = Held(OwnTasks(t), t) - (IF job[w] \in OwnTasks(t) THEN 1 ELSE 0)
    BY <1>4, HeldAtFinish
  <2>3. remaining'[t] = remaining[t] - (IF job[w] \in OwnTasks(t) THEN 1 ELSE 0)
    <3>1. CASE job[w].awaited /\ job[w].owner = t
      BY <1>0, <1>4, <2>1, <3>1 DEF finishTask, OwnTasks
    <3>2. CASE ~(job[w].awaited /\ job[w].owner = t)
      <4>1. remaining'[t] = remaining[t] /\ job[w] \notin OwnTasks(t)
        BY <1>0, <1>4, <3>2 DEF finishTask, OwnTasks
      <4>2. QED
        BY <1>0, <4>1
    <3>3. QED
      BY <3>1, <3>2
  <2>4. QED
    BY <1>0, <2>1, <2>2, <2>3
<1>5. ASSUME cancelTask
      PROVE  remaining'[t] = Held(OwnTasks(t), t)'
  <2>1. Head(discarded) \in Task /\ awaits' = awaits
    BY <1>5, Ends DEF cancelTask, PoolInv, JobPoolTypeOK
  <2>2. Held(OwnTasks(t), t)'
          = Held(OwnTasks(t), t) - (IF Head(discarded) \in OwnTasks(t) THEN 1 ELSE 0)
    BY <1>5, HeldAtCancel
  <2>3. remaining'[t] = remaining[t] - (IF Head(discarded) \in OwnTasks(t) THEN 1 ELSE 0)
    <3>1. CASE Head(discarded).awaited /\ Head(discarded).owner = t
      BY <1>0, <1>5, <2>1, <3>1 DEF cancelTask, OwnTasks
    <3>2. CASE ~(Head(discarded).awaited /\ Head(discarded).owner = t)
      <4>1. remaining'[t] = remaining[t] /\ Head(discarded) \notin OwnTasks(t)
        BY <1>0, <1>5, <3>2 DEF cancelTask, OwnTasks
      <4>2. QED
        BY <1>0, <4>1
    <3>3. QED
      BY <3>1, <3>2
  <2>4. QED
    BY <1>0, <2>1, <2>2, <2>3
<1>6. QED
  BY <1>1, <1>2, <1>3, <1>4, <1>5, AnyStepIs

-----------------------------------------------------------------------------
(* Every iteration is run once. *)

LEMMA IterationsSharedKept ==
  ASSUME PoolInv, AnyStep
  PROVE  IterationsShared'
<1> SUFFICES ASSUME NEW t \in Threads, NEW i \in 0 .. MaxCount - 1,
                    awaits'[t], ~cancelled'[t], i \in DOMAIN executed'[t]
             PROVE  executed'[t][i] + Held(TasksWith(t, i), t)' = 1
  BY DEF IterationsShared, TasksWith, OwnTasks
<1> DEFINE S == TasksWith(t, i)
<1>0. /\ awaits \in [Threads -> BOOLEAN] /\ cancelled \in [Threads -> BOOLEAN]
      /\ S \in SUBSET OwnTasks(t)
      /\ Held(S, t) \in Nat
      /\ i \in Nat
  <2>1. S \in SUBSET OwnTasks(t)
    BY DEF TasksWith
  <2>2. Held(S, t) \in Nat
    BY Parts DEF PoolInv
  <2>3. awaits \in [Threads -> BOOLEAN] /\ cancelled \in [Threads -> BOOLEAN]
    BY DEF PoolInv, JobPoolTypeOK
  <2>4. QED
    BY <2>1, <2>2, <2>3
<1>1. awaits[t] /\ ~cancelled[t] /\ i \in DOMAIN executed[t] => executed[t][i] + Held(S, t) = 1
  BY DEF PoolInv, IterationsShared
<1>2. DOMAIN executed = Threads
      /\ \A u \in Threads : \E n \in 0 .. MaxCount : executed[u] \in [0 .. n - 1 -> Nat]
  BY DEF PoolInv, JobPoolTypeOK
<1>3. CASE Moves
  <2>1. UNCHANGED <<awaits, cancelled, executed>>
    BY <1>3, MovesKeepCalls
  <2>2. Held(S, t)' = Held(S, t)
    BY <1>0, <1>3, HeldThroughMoves
  <2>3. QED
    BY <1>1, <2>1, <2>2
<1>4. ASSUME NEW u \in Threads, MayCall(u), NEW n \in 1 .. MaxCount, NEW awaited \in BOOLEAN,
             Start(u, n, awaited)
      PROVE  executed'[t][i] + Held(S, t)' = 1
  <2> DEFINE new == TasksOf(u, n, awaited)
  <2>1. calls[u] + 1 \in 1 .. MaxCalls
    BY <1>4, CallNumber
  <2>2. awaited => \A x \in 0 .. n - 1 : CountIn(TasksWith(u, x), new) = 1
    <3>1. SUFFICES ASSUME awaited, NEW x \in 0 .. n - 1
                   PROVE  CountIn(TasksWith(u, x), new) = 1
      OBVIOUS
    <3>2. awaited = TRUE
      BY <3>1
    <3>3. QED
      BY <2>1, <3>2, NewTasksShare
  <2>3. /\ awaits' = [awaits EXCEPT ![u] = awaited]
        /\ cancelled' = [cancelled EXCEPT ![u] = FALSE]
        /\ executed' = [executed EXCEPT ![u] = Unexecuted(n)]
    BY <1>4 DEF Start
  <2>4. Held(S, t)' = IF t = u THEN CountIn(S, new) ELSE Held(S, t)
    BY <1>0, <1>4, HeldAtStart
  <2> HIDE DEF new
  <2>5. CASE t = u
    <3>1. executed'[t] = Unexecuted(n) /\ awaited
      BY <1>0, <1>2, <2>3, <2>5
    <3>2. i \in 0 .. n - 1 /\ executed'[t][i] = 0
      BY <3>1 DEF Unexecuted
    <3>3. CountIn(S, new) = 1
      BY <2>2, <2>5, <3>1, <3>2
    <3>4. QED
      BY <2>4, <2>5, <3>2, <3>3
  <2>6. CASE t # u
    BY <1>0, <1>1, <1>2, <2>3, <2>4, <2>6
  <2>7. QED
    BY <2>5, <2>6
<1>5. ASSUME NEW w \in Workers, runIteration(w)
      PROVE  executed'[t][i] + Held(S, t)' = 1
  <2> DEFINE task == job[w]
             next == [job[w] EXCEPT !.first = @ + 1]
  <2>1. /\ task \in Task /\ task.first < task.last
        /\ UNCHANGED <<awaits, cancelled>>
        /\ executed' = IF task.awaited
                       THEN [executed EXCEPT ![task.owner][task.first] = @ + 1]
                       ELSE executed
    BY <1>5 DEF runIteration, PoolInv, TasksKnown
  <2>2. Held(S, t)' = Held(S, t) - (IF task \in S THEN 1 ELSE 0)
                        + (IF next \in S THEN 1 ELSE 0)
    BY <1>5, HeldAtIteration
  <2>3. /\ next \in Task
        /\ next.owner = task.owner /\ next.awaited = task.awaited
        /\ next.first = task.first + 1 /\ next.last = task.last
    BY <2>1, OneLess
  <2>4. task.first \in Nat /\ task.last \in Nat /\ task.owner \in Threads
    BY <2>1, JobPoolAssumptions DEF Task
  <2> HIDE DEF task, next
  <2>5. CASE task.awaited /\ task.owner = t /\ i = task.first
    <3>1. task \in S /\ next \notin S
      <4>1. task.first <= i /\ i < task.last /\ ~(task.first + 1 <= i)
        BY <2>1, <2>4, <2>5
      <4>2. QED
        BY <2>1, <2>3, <2>5, <4>1 DEF TasksWith, OwnTasks
    <3>2. /\ i \in DOMAIN executed[t]
          /\ executed'[t][i] = executed[t][i] + 1
          /\ executed[t][i] \in Nat
      <4>1. executed' = [executed EXCEPT ![t] = [executed[t] EXCEPT ![i] = executed[t][i] + 1]]
        BY <2>1, <2>5
      <4>2. executed'[t] = [executed[t] EXCEPT ![i] = executed[t][i] + 1]
        BY <1>2, <4>1
      <4>3. i \in DOMAIN executed[t]
        BY <4>2
      <4>4. executed[t][i] \in Nat
        BY <1>2, <4>3
      <4>5. QED
        BY <4>2, <4>3, <4>4
    <3>3. executed[t][i] + Held(S, t) = 1
      BY <1>1, <2>1, <3>2
    <3>4. QED
      BY <1>0, <2>2, <3>1, <3>2, <3>3
  <2>6. CASE ~(task.awaited /\ task.owner = t /\ i = task.first)
    <3>1. task \in S <=> next \in S
      <4>1. i # task.first => (task.first <= i <=> task.first + 1 <= i)
        BY <1>0, <2>4
      <4>2. QED
        BY <2>1, <2>3, <2>6, <4>1 DEF TasksWith, OwnTasks
    <3>2. DOMAIN executed'[t] = DOMAIN executed[t] /\ executed'[t][i] = executed[t][i]
      <4>1. CASE task.awaited /\ task.owner = t
        <5>1. executed'[t] = [executed[t] EXCEPT ![task.first] = executed[t][task.first] + 1]
          BY <1>2, <2>1, <4>1
        <5>2. i # task.first
          BY <2>6, <4>1
        <5>3. DOMAIN executed'[t] = DOMAIN executed[t]
          BY <5>1
        <5>4. QED
          BY <5>1, <5>2, <5>3
      <4>2. CASE ~(task.awaited /\ task.owner = t)
        BY <1>2, <2>1, <4>2
      <4>3. QED
        BY <4>1, <4>2
    <3>3. executed[t][i] + Held(S, t) = 1
      BY <1>1, <2>1, <3>2
    <3>4. Held(S, t)' = Held(S, t)
      BY <1>0, <2>2, <3>1
    <3>5. QED
      BY <3>2, <3>3, <3>4
  <2>7. QED
    BY <2>5, <2>6
<1>6. ASSUME NEW w \in Workers, finishTask(w)
      PROVE  executed'[t][i] + Held(S, t)' = 1
  <2>1. /\ job[w] \in Task /\ job[w].first = job[w].last
        /\ UNCHANGED <<awaits, cancelled, executed>>
    BY <1>6 DEF finishTask, PoolInv, TasksKnown
  <2>2. Held(S, t)' = Held(S, t) - (IF job[w] \in S THEN 1 ELSE 0)
    BY <1>6, HeldAtFinish
  <2>3. job[w] \notin S
    <3>1. job[w].first \in Nat /\ job[w].last \in Nat
      BY <2>1, JobPoolAssumptions DEF Task
    <3>2. ~(job[w].first <= i /\ i < job[w].last)
      BY <1>0, <2>1, <3>1
    <3>3. QED
      BY <3>2 DEF TasksWith
  <2>4. Held(S, t)' = Held(S, t)
    BY <1>0, <2>2, <2>3
  <2>5. QED
    BY <1>1, <2>1, <2>4
<1>7. ASSUME cancelTask
      PROVE  executed'[t][i] + Held(S, t)' = 1
  <2>1. Head(discarded) \in Task /\ UNCHANGED <<awaits, executed>>
    BY <1>7, Ends DEF cancelTask, PoolInv, JobPoolTypeOK
  <2>2. Held(S, t)' = Held(S, t) - (IF Head(discarded) \in S THEN 1 ELSE 0)
    BY <1>7, HeldAtCancel
  <2>3. Head(discarded) \notin S /\ ~cancelled[t]
    <3>1. ~(Head(discarded).awaited /\ Head(discarded).owner = t) /\ ~cancelled[t]
      BY <1>0, <1>7 DEF cancelTask
    <3>2. QED
      BY <3>1 DEF TasksWith, OwnTasks
  <2>4. Held(S, t)' = Held(S, t)
    BY <1>0, <2>2, <2>3
  <2>5. QED
    BY <1>1, <2>1, <2>3, <2>4
<1>8. QED
  BY <1>3, <1>4, <1>5, <1>6, <1>7, AnyStepIs

-----------------------------------------------------------------------------
(* The invariant. *)

LEMMA InitialPool == JobPoolInit => PoolInv
<1> SUFFICES ASSUME JobPoolInit PROVE PoolInv
  OBVIOUS
<1>1. JobPoolTypeOK
  BY InitialTypes
<1>2. /\ tasks = <<>> /\ discarded = <<>> /\ ~stop
      /\ \A t \in Threads : submits[t] = <<>> /\ caller[t] = "idle" /\ ~awaits[t]
      /\ \A w \in Workers : worker[w] = "looking"
  BY DEF JobPoolInit
<1>3. \A i \in 1 .. Len(<<>>) : FALSE
  OBVIOUS
<1>4. TasksKnown
  BY <1>2, <1>3 DEF TasksKnown
<1>5. CallersKnown /\ DestructorKnown
  BY <1>2 DEF CallersKnown, DestructorKnown
<1>6. RemainingHeld /\ IterationsShared
  BY <1>2 DEF RemainingHeld, IterationsShared
<1>7. QED
  BY <1>1, <1>4, <1>5, <1>6 DEF PoolInv

LEMMA PoolKept == PoolInv /\ AnyStep => PoolInv'
BY TypesKept, TasksKnownKept, CallersKnownKept, DestructorKnownKept, RemainingHeldKept,
   IterationsSharedKept DEF PoolInv

(* The types, whose task each task is, where each caller is, that counters   *)
(* count tasks, and that tasks and runs share out the iterations: inductive   *)
(* together, for any number of workers, callers, calls and iterations.        *)
THEOREM JobPoolInvariant == JobPoolSpec => []PoolInv
<1>1. JobPoolInit => PoolInv
  BY InitialPool
<1>2. PoolInv /\ [JobPoolNext]_poolVars => PoolInv'
  BY PoolTakesAnyStep, PoolKept
<1>3. QED
  BY <1>1, <1>2, PTL DEF JobPoolSpec

(* The state of JobPool has its types: the counter of a call never goes      *)
(* below zero or above the number of workers. *)
THEOREM JobPoolTypes == JobPoolSpec => []JobPoolTypeOK
<1>1. PoolInv => JobPoolTypeOK
  BY DEF PoolInv
<1>2. QED
  BY <1>1, JobPoolInvariant, PTL

(* The tasks a thread waits for are those of its present call. *)
LEMMA UnfinishedIsHeld ==
  ASSUME PoolInv, NEW t \in Threads
  PROVE  Unfinished(t) = Held(OwnTasks(t), t)
<1> DEFINE Of(task) == task.awaited /\ task.owner = t /\ task.call = calls[t]
<1>1. /\ tasks \in Seq(Task) /\ discarded \in Seq(Task) /\ submits[t] \in Seq(Task)
      /\ \A i \in 1 .. Len(tasks) : tasks[i] \in Task /\ Known(tasks[i])
      /\ \A i \in 1 .. Len(discarded) : discarded[i] \in Task /\ Known(discarded[i])
      /\ \A i \in 1 .. Len(submits[t]) : submits[t][i] \in Task /\ submits[t][i].call = calls[t]
      /\ \A w \in Workers : worker[w] = "running" => job[w] \in Task /\ Known(job[w])
  BY ElementOfSeq DEF PoolInv, JobPoolTypeOK, TasksKnown
<1>2. /\ DOMAIN tasks = 1 .. Len(tasks) /\ DOMAIN discarded = 1 .. Len(discarded)
      /\ DOMAIN submits[t] = 1 .. Len(submits[t])
  BY <1>1, LenProperties
<1>3. \A task \in Task : Known(task) \/ task.call = calls[t]
                           => (Of(task) <=> task \in OwnTasks(t))
  BY DEF Known, OwnTasks
<1>4. /\ {i \in DOMAIN tasks : Of(tasks[i])}
           = {i \in 1 .. Len(tasks) : tasks[i] \in OwnTasks(t)}
      /\ {i \in DOMAIN discarded : Of(discarded[i])}
           = {i \in 1 .. Len(discarded) : discarded[i] \in OwnTasks(t)}
      /\ {i \in DOMAIN submits[t] : Of(submits[t][i])}
           = {i \in 1 .. Len(submits[t]) : submits[t][i] \in OwnTasks(t)}
      /\ {w \in Workers : worker[w] = "running" /\ Of(job[w])} = RunningIn(OwnTasks(t))
  BY <1>1, <1>2, <1>3 DEF RunningIn
<1>5. Unfinished(t)
        = Cardinality({i \in DOMAIN submits[t] : Of(submits[t][i])})
            + Cardinality({i \in DOMAIN tasks : Of(tasks[i])})
            + Cardinality({i \in DOMAIN discarded : Of(discarded[i])})
            + Cardinality({w \in Workers : worker[w] = "running" /\ Of(job[w])})
  BY DEF Unfinished, Count
<1>6. QED
  BY <1>4, <1>5 DEF Held, CountIn

(* Of JobGroup::State::remaining: it is the number of tasks of the call that *)
(* are not done, wherever they are, through every interleaving of callers,    *)
(* workers and the destructor. *)
THEOREM CountersCountTasks == JobPoolSpec => []RemainingCountsTasks
<1>1. PoolInv => RemainingCountsTasks
  <2> SUFFICES ASSUME PoolInv PROVE RemainingCountsTasks
    OBVIOUS
  <2>1. QED
    BY UnfinishedIsHeld DEF RemainingCountsTasks, PoolInv, RemainingHeld
<1>2. QED
  BY <1>1, JobPoolInvariant, PTL

(* A call whose counter is zero, and that was not cancelled, has run each of *)
(* its iterations once, and none of its tasks is on a worker.                 *)
LEMMA DoneMeansRun ==
  ASSUME PoolInv, NEW t \in Threads, awaits[t], remaining[t] = 0
  PROVE  /\ ~cancelled[t] => \A i \in DOMAIN executed[t] : executed[t][i] = 1
         /\ \A w \in Workers : worker[w] = "running" => job[w] \notin OwnTasks(t)
<1>1. Held(OwnTasks(t), t) = 0
  BY DEF PoolInv, RemainingHeld
<1>2. /\ \A i \in 1 .. Len(submits[t]) : submits[t][i] \notin OwnTasks(t)
      /\ \A i \in 1 .. Len(tasks) : tasks[i] \notin OwnTasks(t)
      /\ \A i \in 1 .. Len(discarded) : discarded[i] \notin OwnTasks(t)
      /\ \A w \in Workers : worker[w] = "running" => job[w] \notin OwnTasks(t)
  BY <1>1, NoneHeld DEF PoolInv
<1>3. ASSUME ~cancelled[t], NEW i \in DOMAIN executed[t]
      PROVE  executed[t][i] = 1
  <2>1. PICK n \in 0 .. MaxCount : executed[t] \in [0 .. n - 1 -> Nat]
    BY DEF PoolInv, JobPoolTypeOK
  <2>2. i \in 0 .. MaxCount - 1 /\ executed[t][i] \in Nat
    <3>1. i \in 0 .. n - 1
      BY <1>3, <2>1
    <3>2. i \in 0 .. MaxCount - 1
      BY <3>1, JobPoolAssumptions
    <3>3. QED
      BY <2>1, <3>1, <3>2
  <2>3. executed[t][i] + Held(TasksWith(t, i), t) = 1
    BY <1>3, <2>2 DEF PoolInv, IterationsShared
  <2>4. Held(TasksWith(t, i), t) = 0
    <3>1. TasksWith(t, i) \subseteq OwnTasks(t)
      BY DEF TasksWith
    <3>2. QED
      BY <1>2, <3>1, NoneHeld DEF PoolInv
  <2>5. QED
    BY <2>2, <2>3, <2>4
<1>4. QED
  BY <1>2, <1>3

(* Only the end of a wait takes a thread from waiting to outside a call. *)
LEMMA WaitEndsAtZero ==
  ASSUME PoolInv, AnyStep, NEW t \in Threads, caller[t] = "waiting", caller'[t] = "idle"
  PROVE  /\ remaining[t] = 0 /\ awaits[t]
         /\ aborted' = cancelled[t]
<1>0. /\ caller \in [Threads -> {"idle", "submitting", "notifying", "waiting",
                                 "blocking", "blocked"}]
      /\ awaits[t]
  BY DEF PoolInv, JobPoolTypeOK, CallersKnown
<1>1. waitLoad(t)
  <2>1. ASSUME NEW u \in Threads,
               \/ MayCall(u) /\ \E n \in 1 .. MaxCount, awaited \in BOOLEAN :
                                  Start(u, n, awaited)
               \/ enqueue(u) \/ notifyOne(u) \/ waitBlock(u) \/ NestedCall(u)
        PROVE  FALSE
    BY <1>0, <2>1 DEF MayCall, Start, enqueue, notifyOne, waitBlock, NestedCall
  <2>2. ASSUME NEW u \in Threads, waitLoad(u)
        PROVE  u = t
    BY <1>0, <2>2 DEF waitLoad
  <2>3. ASSUME \/ \E w \in Workers : \/ workerLooks(w) \/ wakesSpuriously(w)
                                     \/ runIteration(w) \/ finishTask(w) \/ notifyWaiter(w)
               \/ destroyPool \/ notifyAll \/ cancelTask \/ joinWorkers
               \/ UNCHANGED poolVars
        PROVE  FALSE
    BY <1>0, <2>3 DEF workerLooks, wakesSpuriously, runIteration, finishTask, notifyWaiter,
                      destroyPool, notifyAll, cancelTask, joinWorkers, Wake, poolVars, callVars
  <2>4. QED
    BY <2>1, <2>2, <2>3 DEF AnyStep
<1>2. QED
  BY <1>0, <1>1 DEF waitLoad

(* Of the blocking calls of IJobSystem: a call that returns normally has run *)
(* each of its iterations exactly once. *)
THEOREM CallsReturnWhenAllRan == JobPoolSpec => ReturnsWhenAllRan
<1>1. ASSUME PoolInv, [JobPoolNext]_poolVars
      PROVE  [\A t \in Clients :
                caller[t] = "waiting" /\ caller'[t] = "idle" /\ ~aborted'
                  => \A i \in DOMAIN executed[t] : executed[t][i] = 1]_poolVars
  <2> SUFFICES ASSUME NEW t \in Clients,
                      caller[t] = "waiting", caller'[t] = "idle", ~aborted'
               PROVE  \A i \in DOMAIN executed[t] : executed[t][i] = 1
    OBVIOUS
  <2>1. t \in Threads /\ AnyStep
    BY <1>1, PoolTakesAnyStep DEF Threads
  <2>2. remaining[t] = 0 /\ awaits[t] /\ ~cancelled[t]
    BY <1>1, <2>1, WaitEndsAtZero
  <2>3. QED
    BY <1>1, <2>1, <2>2, DoneMeansRun
<1>2. QED
  BY <1>1, JobPoolInvariant, PTL DEF JobPoolSpec, ReturnsWhenAllRan

-----------------------------------------------------------------------------
(* The job system. *)

(* What the steps of a job system are to its pool. *)
LEMMA JobSystemTakesAnyStep ==
  ASSUME JobSystemInv, [JobSystemNext]_jobSystemVars
  PROVE  AnyStep
<1>1. ASSUME NEW t \in Threads, NEW n \in 1 .. MaxCount, jobParallelFor(t, n)
      PROVE  AnyStep
  <2>1. CASE executingJob[t]
    <3>1. ~awaits[t]
      BY <2>1 DEF JobSystemInv, BodiesKnown, OnlyClientsWait
    <3>2. NestedCall(t)
      BY <1>1, <2>1, <3>1 DEF jobParallelFor, RunsInline, NestedCall
    <3>3. QED
      BY <3>2 DEF AnyStep
  <2>2. CASE ~executingJob[t]
    <3>1. MayCall(t) /\ Start(t, n, TRUE)
      BY <1>1, <2>2 DEF jobParallelFor, RunsInline
    <3>2. QED
      BY <3>1 DEF AnyStep
  <2>3. QED
    BY <2>1, <2>2
<1>2. ASSUME NEW t \in Threads,
             \/ PoolStep(enqueue(t)) \/ PoolStep(notifyOne(t))
             \/ PoolStep(waitLoad(t)) \/ PoolStep(waitBlock(t))
      PROVE  AnyStep
  BY <1>2 DEF AnyStep, PoolStep
<1>3. ASSUME NEW w \in Workers,
             \/ PoolStep(workerLooks(w)) \/ PoolStep(wakesSpuriously(w))
             \/ PoolStep(finishTask(w)) \/ PoolStep(notifyWaiter(w)) \/ leaveBody(w)
      PROVE  AnyStep
  BY <1>3 DEF AnyStep, PoolStep, leaveBody
<1>4. ASSUME \/ \E w \in Workers : enterBody(w) \/ inlineIteration(w)
             \/ UNCHANGED jobSystemVars
      PROVE  AnyStep
  BY <1>4 DEF AnyStep, enterBody, inlineIteration, jobSystemVars
<1>5. QED
  BY <1>1, <1>2, <1>3, <1>4 DEF JobSystemNext

LEMMA OneFewerIn ==
  ASSUME NEW s \in Seq(1 .. MaxCount), s # <<>>
  PROVE  OneFewer(s) \in Seq(1 .. MaxCount)
<1>1. Len(s) \in Nat \ {0} /\ Tail(s) \in Seq(1 .. MaxCount) /\ Head(s) \in 1 .. MaxCount
  BY HeadTailProperties, LenProperties, EmptySeq
<1>2. Head(s) = s[1] /\ 1 \in 1 .. Len(s)
  BY <1>1
<1>3. CASE Head(s) = 1
  BY <1>1, <1>3 DEF OneFewer
<1>4. CASE Head(s) # 1
  <2>1. s[1] - 1 \in 1 .. MaxCount
    BY <1>1, <1>2, <1>4, JobPoolAssumptions
  <2>2. [s EXCEPT ![1] = s[1] - 1] \in Seq(1 .. MaxCount)
    BY <1>2, <2>1, ExceptSeq
  <2>3. QED
    BY <1>4, <2>2 DEF OneFewer
<1>5. QED
  BY <1>3, <1>4

(* Types of the flag and of the inline calls. *)
LEMMA FlagTypesKept ==
  ASSUME JobSystemInv, [JobSystemNext]_jobSystemVars
  PROVE  /\ executingJob' \in [Threads -> BOOLEAN]
         /\ inline' \in [Threads -> Seq(1 .. MaxCount)]
<1>0. /\ executingJob \in [Threads -> BOOLEAN]
      /\ inline \in [Threads -> Seq(1 .. MaxCount)]
      /\ Workers \subseteq Threads
  BY DEF JobSystemInv, Threads
<1>1. ASSUME NEW t \in Threads, NEW n \in 1 .. MaxCount, jobParallelFor(t, n)
      PROVE  /\ executingJob' \in [Threads -> BOOLEAN]
             /\ inline' \in [Threads -> Seq(1 .. MaxCount)]
  <2>1. <<n>> \o inline[t] \in Seq(1 .. MaxCount)
    <3>1. <<n>> \in Seq(1 .. MaxCount) /\ inline[t] \in Seq(1 .. MaxCount)
      BY <1>0
    <3>2. QED
      BY <3>1, ConcatProperties
  <2>2. \/ inline' = inline
        \/ inline' = [inline EXCEPT ![t] = <<n>> \o inline[t]]
    BY <1>1 DEF jobParallelFor
  <2>3. executingJob' = executingJob
    BY <1>1 DEF jobParallelFor
  <2>4. QED
    BY <1>0, <2>1, <2>2, <2>3
<1>2. ASSUME NEW w \in Workers, inlineIteration(w)
      PROVE  /\ executingJob' \in [Threads -> BOOLEAN]
             /\ inline' \in [Threads -> Seq(1 .. MaxCount)]
  <2>1. inline[w] \in Seq(1 .. MaxCount) /\ inline[w] # <<>>
    BY <1>0, <1>2 DEF inlineIteration
  <2>2. executingJob' = executingJob /\ inline' = [inline EXCEPT ![w] = OneFewer(@)]
    BY <1>2 DEF inlineIteration, FlagAfterInline
  <2>3. OneFewer(inline[w]) \in Seq(1 .. MaxCount)
    BY <2>1, OneFewerIn
  <2>4. QED
    BY <1>0, <2>2, <2>3
<1>3. ASSUME NEW w \in Workers, enterBody(w) \/ leaveBody(w)
      PROVE  /\ executingJob' \in [Threads -> BOOLEAN]
             /\ inline' \in [Threads -> Seq(1 .. MaxCount)]
  BY <1>0, <1>3 DEF enterBody, leaveBody
<1>4. ASSUME UNCHANGED <<executingJob, inline>>
      PROVE  /\ executingJob' \in [Threads -> BOOLEAN]
             /\ inline' \in [Threads -> Seq(1 .. MaxCount)]
  BY <1>0, <1>4
<1>5. QED
  BY <1>1, <1>2, <1>3, <1>4 DEF JobSystemNext, PoolStep, flagVars, jobSystemVars

LEMMA BodiesKnownKept ==
  ASSUME JobSystemInv, [JobSystemNext]_jobSystemVars
  PROVE  BodiesKnown'
<1>0. /\ executingJob \in [Threads -> BOOLEAN]
      /\ inline \in [Threads -> Seq(1 .. MaxCount)]
      /\ worker \in [Workers -> {"looking", "asleep", "running", "notifying", "exited"}]
      /\ job \in [Workers -> Task \cup {NoTask}]
      /\ Workers \subseteq Threads
      /\ inBody \subseteq Workers
      /\ \A t \in Threads : executingJob[t] <=> t \in inBody
      /\ \A w \in inBody : worker[w] = "running" /\ job[w].first < job[w].last
      /\ \A t \in Threads : inline[t] # <<>> => t \in inBody
  BY DEF JobSystemInv, BodiesKnown, PoolInv, JobPoolTypeOK, Threads
<1>1. ASSUME NEW t \in Threads, NEW n \in 1 .. MaxCount, jobParallelFor(t, n)
      PROVE  BodiesKnown'
  <2>1. /\ UNCHANGED <<executingJob, inBody, worker, job>>
        /\ \A u \in Threads : inline'[u] # inline[u] => u = t /\ executingJob[t]
    BY <1>0, <1>1 DEF jobParallelFor, RunsInline, Start, workerVars
  <2>2. QED
    BY <1>0, <2>1 DEF BodiesKnown
<1>2. ASSUME NEW w \in Workers, inlineIteration(w)
      PROVE  BodiesKnown'
  <2>1. /\ UNCHANGED <<executingJob, inBody, worker, job>>
        /\ inline[w] # <<>>
        /\ \A u \in Threads \ {w} : inline'[u] = inline[u]
    BY <1>0, <1>2 DEF inlineIteration, FlagAfterInline, poolVars
  <2>2. QED
    BY <1>0, <2>1 DEF BodiesKnown
<1>3. ASSUME NEW w \in Workers, enterBody(w)
      PROVE  BodiesKnown'
  <2>1. /\ worker[w] = "running" /\ job[w].first < job[w].last
        /\ inBody' = inBody \cup {w}
        /\ executingJob' = [executingJob EXCEPT ![w] = TRUE]
        /\ UNCHANGED <<worker, job, inline>>
    BY <1>3 DEF enterBody, poolVars
  <2>2. QED
    BY <1>0, <2>1 DEF BodiesKnown
<1>4. ASSUME NEW w \in Workers, leaveBody(w)
      PROVE  BodiesKnown'
  <2>1. /\ inline[w] = <<>>
        /\ inBody' = inBody \ {w}
        /\ executingJob' = [executingJob EXCEPT ![w] = FALSE]
        /\ UNCHANGED <<worker, inline>>
        /\ \A v \in Workers \ {w} : job'[v] = job[v]
    BY <1>0, <1>4 DEF leaveBody, runIteration
  <2>2. QED
    BY <1>0, <2>1 DEF BodiesKnown
<1>5. ASSUME NEW t \in Threads,
             \/ PoolStep(enqueue(t)) \/ PoolStep(notifyOne(t))
             \/ PoolStep(waitLoad(t)) \/ PoolStep(waitBlock(t))
      PROVE  BodiesKnown'
  <2>1. /\ UNCHANGED <<executingJob, inBody, inline, job>>
        /\ \A w \in Workers : worker[w] = "running" => worker'[w] = "running"
    BY <1>0, <1>5 DEF PoolStep, flagVars, enqueue, notifyOne, waitLoad, waitBlock, workerVars
  <2>2. QED
    BY <1>0, <2>1 DEF BodiesKnown
<1>6. ASSUME NEW w \in Workers,
             \/ PoolStep(workerLooks(w)) \/ PoolStep(wakesSpuriously(w))
             \/ PoolStep(finishTask(w)) \/ PoolStep(notifyWaiter(w))
      PROVE  BodiesKnown'
  <2>1. /\ UNCHANGED <<executingJob, inBody, inline>>
        /\ worker[w] # "running" \/ job[w].first = job[w].last
        /\ \A v \in Workers \ {w} : worker'[v] = worker[v] /\ job'[v] = job[v]
    BY <1>0, <1>6 DEF PoolStep, flagVars, workerLooks, wakesSpuriously, finishTask,
                      notifyWaiter
  <2>2. w \notin inBody
    <3>1. SUFFICES ASSUME w \in inBody PROVE FALSE
      OBVIOUS
    <3>2. job[w] \in Task /\ job[w].first < job[w].last /\ job[w].first = job[w].last
      BY <1>0, <2>1, <3>1 DEF JobSystemInv, PoolInv, TasksKnown
    <3>3. QED
      BY <3>2, JobPoolAssumptions DEF Task
  <2>3. QED
    BY <1>0, <2>1, <2>2 DEF BodiesKnown
<1>7. ASSUME UNCHANGED jobSystemVars
      PROVE  BodiesKnown'
  BY <1>0, <1>7 DEF BodiesKnown, jobSystemVars, flagVars, poolVars
<1>8. QED
  BY <1>1, <1>2, <1>3, <1>4, <1>5, <1>6, <1>7 DEF JobSystemNext

(* Only threads outside the pool wait: a worker calls inside a body, where    *)
(* the flag is up, and runs the call itself. *)
LEMMA OnlyClientsWaitKept ==
  ASSUME JobSystemInv, [JobSystemNext]_jobSystemVars
  PROVE  OnlyClientsWait'
<1>0. /\ caller \in [Threads -> {"idle", "submitting", "notifying", "waiting",
                                 "blocking", "blocked"}]
      /\ worker \in [Workers -> {"looking", "asleep", "running", "notifying", "exited"}]
      /\ job \in [Workers -> Task \cup {NoTask}]
      /\ awaits \in [Threads -> BOOLEAN] /\ cancelled \in [Threads -> BOOLEAN]
      /\ submits \in [Threads -> Seq(Task)] /\ tasks \in Seq(Task)
      /\ Workers \subseteq Threads /\ Threads = Clients \cup Workers
      /\ inBody \subseteq Workers
      /\ \A t \in Threads : executingJob[t] <=> t \in inBody
      /\ \A w \in Workers : caller[w] = "idle" /\ ~awaits[w]
      /\ \A t \in Threads : ~cancelled[t] /\ (caller[t] # "idle" => awaits[t])
      /\ \A i \in 1 .. Len(tasks) : tasks[i].awaited
      /\ \A w \in Workers : worker[w] = "running" => job[w].awaited
      /\ destructor = "none" /\ ~stop
  BY DEF JobSystemInv, BodiesKnown, OnlyClientsWait, PoolInv, JobPoolTypeOK, DestructorKnown,
         Threads
<1>1. ASSUME NEW t \in Threads, NEW n \in 1 .. MaxCount, jobParallelFor(t, n)
      PROVE  OnlyClientsWait'
  <2>1. CASE executingJob[t]
    <3>1. UNCHANGED <<caller, awaits, cancelled, tasks, worker, job, destructor>>
      BY <1>1, <2>1 DEF jobParallelFor, RunsInline, queueVars, workerVars, endVars
    <3>2. QED
      BY <1>0, <3>1 DEF OnlyClientsWait
  <2>2. CASE ~executingJob[t]
    <3>1. t \notin Workers
      BY <1>0, <1>1, <2>2, JobPoolAssumptions DEF jobParallelFor
    <3>2. /\ UNCHANGED <<tasks, worker, job, destructor>>
          /\ caller' = [caller EXCEPT ![t] = "submitting"]
          /\ awaits' = [awaits EXCEPT ![t] = TRUE]
          /\ cancelled' = [cancelled EXCEPT ![t] = FALSE]
      BY <1>1, <2>2 DEF jobParallelFor, RunsInline, Start, queueVars, workerVars, endVars
    <3>3. QED
      BY <1>0, <3>1, <3>2 DEF OnlyClientsWait
  <2>3. QED
    BY <2>1, <2>2
<1>2. ASSUME NEW t \in Threads, enqueue(t)
      PROVE  OnlyClientsWait'
  <2>1. /\ caller[t] = "submitting"
        /\ tasks' = Append(tasks, Head(submits[t]))
        /\ caller' = [caller EXCEPT ![t] = "notifying"]
        /\ UNCHANGED <<worker, job, awaits, cancelled, destructor>>
    BY <1>0, <1>2 DEF enqueue, workerVars, endVars
  <2>2. t \notin Workers /\ awaits[t]
    BY <1>0, <2>1
  <2>3. /\ submits[t] # <<>> /\ submits[t] \in Seq(Task)
        /\ \A i \in 1 .. Len(submits[t]) : submits[t][i].awaited = awaits[t]
    BY <1>0, <2>1 DEF JobSystemInv, PoolInv, CallersKnown, TasksKnown
  <2>4. Head(submits[t]) \in Task /\ Head(submits[t]).awaited
    BY <2>2, <2>3, Ends
  <2>5. \A i \in 1 .. Len(tasks') : tasks'[i].awaited
    BY <1>0, <2>1, <2>4, Appended
  <2>6. QED
    BY <1>0, <2>1, <2>2, <2>5 DEF OnlyClientsWait
<1>3. ASSUME NEW t \in Threads, notifyOne(t) \/ waitLoad(t) \/ waitBlock(t)
      PROVE  OnlyClientsWait'
  <2>1. /\ caller[t] # "idle"
        /\ \A u \in Threads \ {t} : caller'[u] = caller[u]
        /\ UNCHANGED <<tasks, job, awaits, cancelled, destructor>>
        /\ \A w \in Workers : worker'[w] = "running" => worker[w] = "running"
    BY <1>0, <1>3 DEF notifyOne, waitLoad, waitBlock, queueVars, workerVars, endVars
  <2>2. t \notin Workers /\ awaits[t]
    BY <1>0, <2>1
  <2>3. QED
    BY <1>0, <2>1, <2>2 DEF OnlyClientsWait
<1>4. ASSUME NEW w \in Workers, workerLooks(w)
      PROVE  OnlyClientsWait'
  <2>1. UNCHANGED <<caller, awaits, cancelled, destructor>>
    BY <1>4 DEF workerLooks, callVars, endVars
  <2>2. CASE tasks = <<>>
    <3>1. /\ UNCHANGED <<tasks, job>>
          /\ \A v \in Workers : worker'[v] = "running" => worker[v] = "running"
      BY <1>0, <1>4, <2>2 DEF workerLooks
    <3>2. QED
      BY <1>0, <2>1, <3>1 DEF OnlyClientsWait
  <2>3. CASE tasks # <<>>
    <3>1. /\ worker' = [worker EXCEPT ![w] = "running"]
          /\ job' = [job EXCEPT ![w] = Head(tasks)]
          /\ tasks' = Tail(tasks)
      BY <1>0, <1>4, <2>3 DEF workerLooks
    <3>2. Head(tasks).awaited /\ \A i \in 1 .. Len(Tail(tasks)) : Tail(tasks)[i].awaited
      BY <1>0, <2>3, Ends
    <3>3. \A v \in Workers : worker'[v] = "running" => job'[v].awaited
      <4>1. \A v \in Workers : /\ worker'[v] = IF v = w THEN "running" ELSE worker[v]
                               /\ job'[v] = IF v = w THEN Head(tasks) ELSE job[v]
        BY <1>0, <3>1
      <4>2. QED
        BY <1>0, <3>2, <4>1
    <3>4. QED
      BY <1>0, <2>1, <3>1, <3>2, <3>3 DEF OnlyClientsWait
  <2>4. QED
    BY <2>2, <2>3
<1>5. ASSUME NEW w \in Workers, wakesSpuriously(w) \/ finishTask(w) \/ notifyWaiter(w)
      PROVE  OnlyClientsWait'
  <2>1. /\ UNCHANGED <<tasks, job, awaits, cancelled, destructor>>
        /\ \A v \in Workers : worker'[v] = "running" => worker[v] = "running"
    BY <1>0, <1>5 DEF wakesSpuriously, finishTask, notifyWaiter, queueVars, callVars, endVars
  <2>2. \A t \in Threads : caller'[t] = "idle" <=> caller[t] = "idle"
    BY <1>0, <1>5 DEF wakesSpuriously, finishTask, notifyWaiter, Wake, callVars
  <2>3. QED
    BY <1>0, <2>1, <2>2 DEF OnlyClientsWait
<1>6. ASSUME NEW w \in Workers, leaveBody(w)
      PROVE  OnlyClientsWait'
  <2>1. /\ worker[w] = "running" /\ job[w].first < job[w].last
        /\ job' = [job EXCEPT ![w] = [job[w] EXCEPT !.first = @ + 1]]
        /\ UNCHANGED <<worker, tasks, caller, awaits, cancelled, destructor>>
    BY <1>6 DEF leaveBody, runIteration, queueVars, endVars
  <2>2. job[w] \in Task /\ job[w].awaited
    BY <1>0, <2>1 DEF JobSystemInv, PoolInv, TasksKnown
  <2>3. [job[w] EXCEPT !.first = @ + 1].awaited
    BY <2>1, <2>2, OneLess
  <2>4. \A v \in Workers : worker[v] = "running" => job'[v].awaited
    BY <1>0, <2>1, <2>3
  <2>5. QED
    BY <1>0, <2>1, <2>4 DEF OnlyClientsWait
<1>7. ASSUME UNCHANGED poolVars
      PROVE  OnlyClientsWait'
  BY <1>0, <1>7 DEF OnlyClientsWait, poolVars
<1>8. QED
  BY <1>1, <1>2, <1>3, <1>4, <1>5, <1>6, <1>7
     DEF JobSystemNext, PoolStep, enterBody, inlineIteration, jobSystemVars

(* A pool as before, bodies known by the flag, and no thread of the pool     *)
(* waiting: inductive together. *)
THEOREM JobSystemInvariant == JobSystemSpec => []JobSystemInv
<1>1. JobSystemInit => JobSystemInv
  <2> SUFFICES ASSUME JobSystemInit PROVE JobSystemInv
    OBVIOUS
  <2>1. PoolInv
    BY InitialPool DEF JobSystemInit
  <2>2. /\ tasks = <<>> /\ destructor = "none"
        /\ \A t \in Threads : caller[t] = "idle" /\ ~awaits[t] /\ ~cancelled[t]
        /\ \A w \in Workers : worker[w] = "looking"
        /\ Workers \subseteq Threads
    BY DEF JobSystemInit, JobPoolInit, Threads
  <2>3. /\ executingJob = [t \in Threads |-> FALSE]
        /\ inline = [t \in Threads |-> <<>>]
        /\ inBody = {}
    BY DEF JobSystemInit
  <2>4. executingJob \in [Threads -> BOOLEAN] /\ inline \in [Threads -> Seq(1 .. MaxCount)]
    <3>1. <<>> \in Seq(1 .. MaxCount)
      OBVIOUS
    <3>2. QED
      BY <2>3, <3>1
  <2>5. BodiesKnown
    BY <2>3 DEF BodiesKnown
  <2>6. OnlyClientsWait
    <3>1. \A i \in 1 .. Len(<<>>) : FALSE
      OBVIOUS
    <3>2. QED
      BY <2>2, <3>1 DEF OnlyClientsWait
  <2>7. QED
    BY <2>1, <2>4, <2>5, <2>6 DEF JobSystemInv
<1>2. JobSystemInv /\ [JobSystemNext]_jobSystemVars => JobSystemInv'
  <2> SUFFICES ASSUME JobSystemInv, [JobSystemNext]_jobSystemVars PROVE JobSystemInv'
    OBVIOUS
  <2>1. PoolInv'
    BY JobSystemTakesAnyStep, PoolKept DEF JobSystemInv
  <2>2. QED
    BY <2>1, FlagTypesKept, BodiesKnownKept, OnlyClientsWaitKept DEF JobSystemInv
<1>3. QED
  BY <1>1, <1>2, PTL DEF JobSystemSpec

(* Of the thread-local flag: no worker ever waits for the pool, however deep *)
(* calls nest, so the workers cannot all wait for tasks left to nobody. *)
THEOREM NoWorkerWaits == JobSystemSpec => []WorkersNeverWait
<1>1. JobSystemInv => WorkersNeverWait
  BY DEF JobSystemInv, OnlyClientsWait, WorkersNeverWait
<1>2. QED
  BY <1>1, JobSystemInvariant, PTL

(* A call from outside returns after all its iterations, run once each, and  *)
(* all the calls nested in them. *)
THEOREM OuterCallsReturnLast == JobSystemSpec => OuterCallsCoverNested
<1>1. ASSUME JobSystemInv, [JobSystemNext]_jobSystemVars
      PROVE  [\A t \in Clients :
                caller[t] = "waiting" /\ caller'[t] = "idle" =>
                  /\ \A w \in inBody : job[w].owner # t
                  /\ \A i \in DOMAIN executed[t] : executed[t][i] = 1]_jobSystemVars
  <2> SUFFICES ASSUME NEW t \in Clients, caller[t] = "waiting", caller'[t] = "idle"
               PROVE  /\ \A w \in inBody : job[w].owner # t
                      /\ \A i \in DOMAIN executed[t] : executed[t][i] = 1
    OBVIOUS
  <2>1. t \in Threads /\ PoolInv /\ AnyStep /\ ~cancelled[t]
    BY <1>1, JobSystemTakesAnyStep DEF Threads, JobSystemInv, OnlyClientsWait
  <2>2. remaining[t] = 0 /\ awaits[t]
    BY <2>1, WaitEndsAtZero
  <2>3. /\ \A i \in DOMAIN executed[t] : executed[t][i] = 1
        /\ \A w \in Workers : worker[w] = "running" => job[w] \notin OwnTasks(t)
    BY <2>1, <2>2, DoneMeansRun
  <2>4. ASSUME NEW w \in inBody
        PROVE  job[w].owner # t
    <3>1. w \in Workers /\ worker[w] = "running"
      BY <1>1 DEF JobSystemInv, BodiesKnown
    <3>2. job[w] \in Task /\ job[w].awaited
      BY <1>1, <3>1 DEF JobSystemInv, OnlyClientsWait, PoolInv, TasksKnown
    <3>3. QED
      BY <2>3, <3>1, <3>2 DEF OwnTasks
  <2>5. QED
    BY <2>3, <2>4
<1>2. QED
  BY <1>1, JobSystemInvariant, PTL DEF JobSystemSpec, OuterCallsCoverNested
=============================================================================
