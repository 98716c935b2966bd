------------------------------- MODULE JobPool -------------------------------
(***************************************************************************)
(* Jobs/JobPool.hpp with JobGroup.hpp and JobResult.hpp: a fixed set of     *)
(* workers, a task queue behind a mutex and a condition variable, and       *)
(* callers that wait for the tasks of their call on an atomic counter.      *)
(* Critical sections and atomic operations are steps; a notification is a   *)
(* step of its own, after the change it announces.                          *)
(***************************************************************************)
EXTENDS Integers, SequencesExt

CONSTANTS
  Workers,   \* _workers
  Clients,   \* threads that use the pool
  MaxCount,  \* bound: iterations of a parallelFor
  MaxCalls   \* bound: calls a thread makes

ASSUME JobPoolAssumptions ==
  /\ IsFiniteSet(Workers) /\ Workers # {}
  /\ Workers \cap Clients = {}
  /\ MaxCount \in Nat \ {0}
  /\ MaxCalls \in Nat

VARIABLES
  tasks,      \* _tasks
  stop,       \* _stop
  worker,     \* where each worker is in workerLoop
  job,        \* the task each worker runs; "first" is the next iteration
  caller,     \* where each thread is in a call to the pool
  submits,    \* the tasks of the call that are not enqueued yet
  awaits,     \* whether the call waits for its tasks
  remaining,  \* JobGroup::State::remaining of each thread's last call
  cancelled,  \* JobGroup::State::cancelled of each thread's last call
  observed,   \* the value of remaining the thread blocks on
  calls,      \* calls each thread has made
  executed,   \* history: runs of each iteration of the thread's last awaited call
  destructor, \* where ~JobPool is
  discarded,  \* the tasks ~JobPool took from the queue
  aborted     \* std::abort was called

queueVars == <<tasks, stop>>
workerVars == <<worker, job>>
callVars == <<caller, submits, awaits, remaining, cancelled, observed, calls, executed>>
endVars == <<destructor, discarded>>
poolVars == <<tasks, stop, worker, job, caller, submits, awaits, remaining,
              cancelled, observed, calls, executed, destructor, discarded, aborted>>

Threads == Clients \cup Workers

(* A task runs the iterations first .. last - 1 of a call of its owner;     *)
(* one from submit() has no cancel function and nobody waits for it.        *)
Task == [owner : Threads, call : 1 .. MaxCalls, awaited : BOOLEAN,
         first : 0 .. MaxCount, last : 0 .. MaxCount]
NoTask == [awaited |-> FALSE]

Unexecuted(n) == [i \in 0 .. n - 1 |-> 0]

JobPoolInit ==
  /\ tasks = <<>>
  /\ stop = FALSE
  /\ worker = [w \in Workers |-> "looking"]
  /\ job = [w \in Workers |-> NoTask]
  /\ caller = [t \in Threads |-> "idle"]
  /\ submits = [t \in Threads |-> <<>>]
  /\ awaits = [t \in Threads |-> FALSE]
  /\ remaining = [t \in Threads |-> 0]
  /\ cancelled = [t \in Threads |-> FALSE]
  /\ observed = [t \in Threads |-> 0]
  /\ calls = [t \in Threads |-> 0]
  /\ executed = [t \in Threads |-> Unexecuted(0)]
  /\ destructor = "none"
  /\ discarded = <<>>
  /\ aborted = FALSE

-----------------------------------------------------------------------------
(* Calls. *)

(* Mutant: the remainder is dropped. *)
EvenStart(n, k, i) == i * (n \div k)

(* How n iterations are shared among k tasks: the first n % k get one more. *)
ChunkStart(n, k, i) == i * (n \div k) + (IF i < n % k THEN i ELSE n % k)

Chunks(n) == IF n < Cardinality(Workers) THEN n ELSE Cardinality(Workers)

TasksOf(t, n, awaited) ==
  LET k == Chunks(n)
  IN  [i \in 1 .. k |->
         [owner |-> t, call |-> calls[t] + 1, awaited |-> awaited,
          first |-> ChunkStart(n, k, i - 1), last |-> ChunkStart(n, k, i)]]

(* Bound: a thread has calls left.  No call starts once ~JobPool has: using *)
(* a pool that is being destroyed is the caller's error.                     *)
MayCall(t) ==
  /\ ~aborted
  /\ caller[t] = "idle"
  /\ calls[t] < MaxCalls
  /\ destructor = "none"

(* Mutant: the group starts one task short. *)
LastTask(newTasks) == Len(newTasks) - 1

TaskCount(newTasks) == Len(newTasks)

Start(t, n, awaited) ==
  LET newTasks == TasksOf(t, n, awaited) IN
  /\ submits' = [submits EXCEPT ![t] = newTasks]
  /\ awaits' = [awaits EXCEPT ![t] = awaited]
  /\ remaining' = [remaining EXCEPT ![t] = TaskCount(newTasks)]
  /\ cancelled' = [cancelled EXCEPT ![t] = FALSE]
  /\ calls' = [calls EXCEPT ![t] = @ + 1]
  /\ executed' = [executed EXCEPT ![t] = Unexecuted(n)]
  /\ caller' = [caller EXCEPT ![t] = "submitting"]
  /\ UNCHANGED <<queueVars, workerVars, observed, endVars, aborted>>

parallelFor(t, n) == MayCall(t) /\ Start(t, n, TRUE)

(* A JobResult is pending while one task remains. *)
submitAsync(t) == MayCall(t) /\ Start(t, 1, TRUE)
submit(t) == MayCall(t) /\ Start(t, 1, FALSE)

enqueue(t) ==
  /\ ~aborted
  /\ caller[t] = "submitting"
  /\ IF stop
     THEN aborted' = TRUE /\ UNCHANGED <<tasks, submits, caller>>
     ELSE /\ tasks' = Append(tasks, Head(submits[t]))
          /\ submits' = [submits EXCEPT ![t] = Tail(@)]
          /\ caller' = [caller EXCEPT ![t] = "notifying"]
          /\ UNCHANGED aborted
  /\ UNCHANGED <<stop, workerVars, awaits, remaining, cancelled, observed, calls,
                 executed, endVars>>

AfterEnqueue(t) ==
  IF submits[t] # <<>> THEN "submitting" ELSE IF awaits[t] THEN "waiting" ELSE "idle"

(* Mutant: nobody is notified. *)
notifyNone(t) ==
  /\ ~aborted
  /\ caller[t] = "notifying"
  /\ caller' = [caller EXCEPT ![t] = AfterEnqueue(t)]
  /\ UNCHANGED <<queueVars, workerVars, submits, awaits, remaining, cancelled,
                 observed, calls, executed, endVars, aborted>>

(* notify_one wakes some sleeper, if there is one. *)
notifyOne(t) ==
  /\ ~aborted
  /\ caller[t] = "notifying"
  /\ LET asleep == {w \in Workers : worker[w] = "asleep"} IN
       \/ asleep = {} /\ UNCHANGED worker
       \/ \E w \in asleep : worker' = [worker EXCEPT ![w] = "looking"]
  /\ caller' = [caller EXCEPT ![t] = AfterEnqueue(t)]
  /\ UNCHANGED <<queueVars, job, submits, awaits, remaining, cancelled, observed,
                 calls, executed, endVars, aborted>>

(* JobGroup::wait and JobResult::get: load the counter, block while it has  *)
(* the value loaded, load again.  A cancelled call aborts the program.       *)
waitLoad(t) ==
  /\ ~aborted
  /\ caller[t] = "waiting"
  /\ IF remaining[t] # 0
     THEN /\ observed' = [observed EXCEPT ![t] = remaining[t]]
          /\ caller' = [caller EXCEPT ![t] = "blocking"]
          /\ UNCHANGED aborted
     ELSE /\ caller' = [caller EXCEPT ![t] = "idle"]
          /\ aborted' = cancelled[t]
          /\ UNCHANGED observed
  /\ UNCHANGED <<queueVars, workerVars, submits, awaits, remaining, cancelled, calls,
                 executed, endVars>>

waitBlock(t) ==
  /\ ~aborted
  /\ caller[t] = "blocking"
  /\ caller' = [caller EXCEPT ![t] = IF remaining[t] = observed[t] THEN "blocked"
                                                                 ELSE "waiting"]
  /\ UNCHANGED <<queueVars, workerVars, submits, awaits, remaining, cancelled,
                 observed, calls, executed, endVars, aborted>>

-----------------------------------------------------------------------------
(* Workers. *)

(* The mutex is taken, the predicate read, and either a task is taken, the  *)
(* loop left, or the mutex released to sleep, all in one critical section.   *)
workerLooks(w) ==
  /\ ~aborted
  /\ worker[w] = "looking"
  /\ IF stop
     THEN /\ worker' = [worker EXCEPT ![w] = "exited"]
          /\ UNCHANGED <<tasks, job>>
     ELSE IF tasks = <<>>
     THEN /\ worker' = [worker EXCEPT ![w] = "asleep"]
          /\ UNCHANGED <<tasks, job>>
     ELSE /\ worker' = [worker EXCEPT ![w] = "running"]
          /\ job' = [job EXCEPT ![w] = Head(tasks)]
          /\ tasks' = Tail(tasks)
  /\ UNCHANGED <<stop, callVars, endVars, aborted>>

wakesSpuriously(w) ==
  /\ ~aborted
  /\ worker[w] = "asleep"
  /\ worker' = [worker EXCEPT ![w] = "looking"]
  /\ UNCHANGED <<queueVars, job, callVars, endVars, aborted>>

(* One iteration of the task runs to its end. *)
runIteration(w) ==
  /\ ~aborted
  /\ worker[w] = "running"
  /\ caller[w] = "idle"
  /\ job[w].first < job[w].last
  /\ job' = [job EXCEPT ![w].first = @ + 1]
  /\ executed' = IF job[w].awaited
                 THEN [executed EXCEPT ![job[w].owner][job[w].first] = @ + 1]
                 ELSE executed
  /\ UNCHANGED <<queueVars, worker, caller, submits, awaits, remaining, cancelled,
                 observed, calls, endVars, aborted>>

Wake(t) == [caller EXCEPT ![t] = IF @ = "blocked" THEN "waiting" ELSE @]

(* fetch_sub returned 1. *)
WasLast(left) == left = 1

(* State::finish after the last iteration: decrement, then notify_all. *)
finishTask(w) ==
  /\ ~aborted
  /\ worker[w] = "running"
  /\ job[w].first = job[w].last
  /\ LET t == job[w].owner IN
       IF job[w].awaited
       THEN /\ remaining' = [remaining EXCEPT ![t] = @ - 1]
            /\ worker' = [worker EXCEPT ![w] = IF WasLast(remaining[t])
                                              THEN "notifying" ELSE "looking"]
       ELSE /\ worker' = [worker EXCEPT ![w] = "looking"]
            /\ UNCHANGED remaining
  /\ UNCHANGED <<queueVars, job, caller, submits, awaits, cancelled, observed, calls,
                 executed, endVars, aborted>>

(* The state outlives the call; it wakes nobody who waits on a later one. *)
notifyWaiter(w) ==
  /\ ~aborted
  /\ worker[w] = "notifying"
  /\ worker' = [worker EXCEPT ![w] = "looking"]
  /\ caller' = IF job[w].call = calls[job[w].owner] THEN Wake(job[w].owner) ELSE caller
  /\ UNCHANGED <<queueVars, job, submits, awaits, remaining, cancelled, observed,
                 calls, executed, endVars, aborted>>

-----------------------------------------------------------------------------
(* ~JobPool, on a thread of its own, when no thread is still enqueuing. *)

destroyPool ==
  /\ ~aborted
  /\ destructor = "none"
  /\ \A t \in Threads : caller[t] \notin {"submitting", "notifying"}
  /\ stop' = TRUE
  /\ discarded' = tasks
  /\ tasks' = <<>>
  /\ destructor' = "notify all"
  /\ UNCHANGED <<workerVars, callVars, aborted>>

(* Mutant: the sleeping workers are not told. *)
stopSilently ==
  /\ ~aborted
  /\ destructor = "notify all"
  /\ destructor' = "cancelling"
  /\ UNCHANGED <<queueVars, workerVars, callVars, discarded, aborted>>

notifyAll ==
  /\ ~aborted
  /\ destructor = "notify all"
  /\ worker' = [w \in Workers |-> IF worker[w] = "asleep" THEN "looking" ELSE worker[w]]
  /\ destructor' = "cancelling"
  /\ UNCHANGED <<queueVars, job, callVars, discarded, aborted>>

(* Mutant: the queue is emptied without cancelling its tasks. *)
dropTask ==
  /\ ~aborted
  /\ destructor = "cancelling"
  /\ discarded # <<>>
  /\ discarded' = Tail(discarded)
  /\ UNCHANGED <<queueVars, workerVars, callVars, destructor, aborted>>

(* A discarded task that somebody awaits finishes as cancelled. *)
cancelTask ==
  /\ ~aborted
  /\ destructor = "cancelling"
  /\ discarded # <<>>
  /\ discarded' = Tail(discarded)
  /\ LET task == Head(discarded)
         t == task.owner
     IN  IF task.awaited
         THEN /\ cancelled' = [cancelled EXCEPT ![t] = TRUE]
              /\ remaining' = [remaining EXCEPT ![t] = @ - 1]
              /\ caller' = IF WasLast(remaining[t]) THEN Wake(t) ELSE caller
         ELSE UNCHANGED <<cancelled, remaining, caller>>
  /\ UNCHANGED <<queueVars, workerVars, submits, awaits, observed, calls, executed,
                 destructor, aborted>>

joinWorkers ==
  /\ ~aborted
  /\ destructor = "cancelling"
  /\ discarded = <<>>
  /\ \A w \in Workers : worker[w] = "exited"
  /\ destructor' = "done"
  /\ UNCHANGED <<queueVars, workerVars, callVars, discarded, aborted>>

-----------------------------------------------------------------------------
CallSteps(t) == enqueue(t) \/ notifyOne(t) \/ waitLoad(t) \/ waitBlock(t)
WorkerSteps(w) == workerLooks(w) \/ runIteration(w) \/ finishTask(w) \/ notifyWaiter(w)
DestructorSteps == notifyAll \/ cancelTask \/ joinWorkers

JobPoolNext ==
  \/ \E t \in Clients :
       \/ \E n \in 1 .. MaxCount : parallelFor(t, n)
       \/ submitAsync(t) \/ submit(t)
       \/ enqueue(t) \/ notifyOne(t) \/ waitLoad(t) \/ waitBlock(t)
  \/ \E w \in Workers :
       \/ workerLooks(w) \/ wakesSpuriously(w)
       \/ runIteration(w) \/ finishTask(w) \/ notifyWaiter(w)
  \/ destroyPool \/ notifyAll \/ cancelTask \/ joinWorkers

(* A thread inside a call, a worker and the destructor keep running; nobody *)
(* has to start a call, destroy the pool or wake without a notification.     *)
JobPoolFairness ==
  /\ \A t \in Clients : WF_poolVars(CallSteps(t))
  /\ \A w \in Workers : WF_poolVars(WorkerSteps(w))
  /\ WF_poolVars(DestructorSteps)

JobPoolSpec == JobPoolInit /\ [][JobPoolNext]_poolVars /\ JobPoolFairness

-----------------------------------------------------------------------------
Count(Test(_), seq) == Cardinality({i \in DOMAIN seq : Test(seq[i])})

(* Types of the state. *)
JobPoolTypeOK ==
  /\ tasks \in Seq(Task) /\ discarded \in Seq(Task)
  /\ stop \in BOOLEAN /\ aborted \in BOOLEAN
  /\ worker \in [Workers -> {"looking", "asleep", "running", "notifying", "exited"}]
  /\ job \in [Workers -> Task \cup {NoTask}]
  /\ caller \in [Threads -> {"idle", "submitting", "notifying", "waiting",
                             "blocking", "blocked"}]
  /\ submits \in [Threads -> Seq(Task)]
  /\ awaits \in [Threads -> BOOLEAN]
  /\ remaining \in [Threads -> 0 .. Cardinality(Workers)]
  /\ cancelled \in [Threads -> BOOLEAN]
  /\ observed \in [Threads -> 0 .. Cardinality(Workers)]
  /\ calls \in [Threads -> 0 .. MaxCalls]
  /\ DOMAIN executed = Threads
  /\ \A t \in Threads : \E n \in 0 .. MaxCount : executed[t] \in [0 .. n - 1 -> Nat]
  /\ destructor \in {"none", "notify all", "cancelling", "done"}

(* The tasks of a thread's awaited call that nobody has finished yet. *)
Unfinished(t) ==
  LET ofCall(task) == task.awaited /\ task.owner = t /\ task.call = calls[t]
  IN  Count(ofCall, submits[t]) + Count(ofCall, tasks) + Count(ofCall, discarded)
        + Cardinality({w \in Workers : worker[w] = "running" /\ ofCall(job[w])})

(* The counter a caller waits on is the number of its tasks that are not    *)
(* done, wherever they are: to be enqueued, queued, running, or taken by the *)
(* destructor.  No wait ends early and none waits for a task that is gone.   *)
RemainingCountsTasks ==
  \A t \in Threads : awaits[t] => remaining[t] = Unfinished(t)

(* IJobSystem: "Blocks until all body(i) for i in [0, count) complete."  A   *)
(* call that returns normally has run each of its iterations exactly once,   *)
(* however many tasks they were cut into and in whatever order they ran.     *)
ReturnsWhenAllRan ==
  [][\A t \in Clients :
       caller[t] = "waiting" /\ caller'[t] = "idle" /\ ~aborted'
         => \A i \in DOMAIN executed[t] : executed[t][i] = 1]_poolVars

(* A call that waits returns, or aborts the program because the pool was    *)
(* destroyed with its tasks queued.                                          *)
WaitsEnd ==
  \A t \in Clients : caller[t] # "idle" ~> caller[t] = "idle" \/ aborted

(* Destroying the pool ends every worker: none sleeps through the stop. *)
DestructorReturns == stop ~> destructor = "done" \/ aborted
=============================================================================
