-------------------------- MODULE DefaultJobSystem --------------------------
(***************************************************************************)
(* Jobs/DefaultJobSystem.hpp: parallelFor of a JobPool whose bodies may     *)
(* call parallelFor again.  A thread-local flag says that the thread runs a *)
(* body; under it a nested call runs its iterations on the same thread.     *)
(***************************************************************************)
EXTENDS JobPool

VARIABLES
  executingJob,  \* _executingJob of each thread
  inBody,        \* history: the workers inside the body of an iteration
  inline         \* the iterations left of each thread's inline calls, innermost first

flagVars == <<executingJob, inBody, inline>>
jobSystemVars == <<poolVars, flagVars>>

JobSystemInit ==
  /\ JobPoolInit
  /\ executingJob = [t \in Threads |-> FALSE]
  /\ inBody = {}
  /\ inline = [t \in Threads |-> <<>>]

(* Mutant: a nested call waits for the pool like any other. *)
NeverInline(t) == FALSE

(* Waiting for more pool work from a worker could exhaust the pool. *)
RunsInline(t) == executingJob[t]

(* Mutant: the scope is opened around the bodies run inline as well. *)
LowerAfterInline(t) == [executingJob EXCEPT ![t] = FALSE]

(* The bodies run inline are called without a WorkerScope. *)
FlagAfterInline(t) == executingJob

(* A thread that runs a body, or one outside the pool, calls parallelFor. *)
jobParallelFor(t, n) ==
  /\ MayCall(t)
  /\ t \in Clients \cup inBody
  /\ IF RunsInline(t)
     THEN /\ inline' = [inline EXCEPT ![t] = <<n>> \o @]
          /\ calls' = [calls EXCEPT ![t] = @ + 1]
          /\ UNCHANGED <<queueVars, workerVars, caller, submits, awaits, remaining,
                         cancelled, observed, executed, endVars, aborted>>
     ELSE Start(t, n, TRUE) /\ UNCHANGED inline
  /\ UNCHANGED <<executingJob, inBody>>

(* The innermost call has an iteration less to run, or has returned. *)
OneFewer(left) ==
  IF Head(left) = 1 THEN Tail(left) ELSE [left EXCEPT ![1] = @ - 1]

(* One iteration of the innermost inline call ends. *)
inlineIteration(t) ==
  /\ ~aborted
  /\ caller[t] = "idle"
  /\ inline[t] # <<>>
  /\ inline' = [inline EXCEPT ![t] = OneFewer(@)]
  /\ executingJob' = FlagAfterInline(t)
  /\ UNCHANGED <<poolVars, inBody>>

(* WorkerScope opens, body(index) starts. *)
enterBody(w) ==
  /\ ~aborted
  /\ worker[w] = "running"
  /\ w \notin inBody
  /\ job[w].first < job[w].last
  /\ executingJob' = [executingJob EXCEPT ![w] = TRUE]
  /\ inBody' = inBody \cup {w}
  /\ UNCHANGED <<poolVars, inline>>

(* body(index) has returned, its nested calls with it, and the scope closes. *)
leaveBody(w) ==
  /\ w \in inBody
  /\ inline[w] = <<>>
  /\ runIteration(w)
  /\ executingJob' = [executingJob EXCEPT ![w] = FALSE]
  /\ inBody' = inBody \ {w}
  /\ UNCHANGED inline

PoolStep(step) == step /\ UNCHANGED flagVars

JobSystemCallSteps(t) == PoolStep(CallSteps(t))
JobSystemWorkerSteps(w) ==
  \/ PoolStep(workerLooks(w) \/ finishTask(w) \/ notifyWaiter(w))
  \/ enterBody(w) \/ inlineIteration(w) \/ leaveBody(w)

JobSystemNext ==
  \/ \E t \in Threads :
       \/ \E n \in 1 .. MaxCount : jobParallelFor(t, n)
       \/ PoolStep(enqueue(t)) \/ PoolStep(notifyOne(t))
       \/ PoolStep(waitLoad(t)) \/ PoolStep(waitBlock(t))
  \/ \E w \in Workers :
       \/ PoolStep(workerLooks(w)) \/ PoolStep(wakesSpuriously(w))
       \/ PoolStep(finishTask(w)) \/ PoolStep(notifyWaiter(w))
       \/ enterBody(w) \/ inlineIteration(w) \/ leaveBody(w)

(* Threads keep running: a body ends once its nested calls have (the bound  *)
(* on calls leaves it nothing else to do), and a call goes on to its end.    *)
JobSystemFairness ==
  /\ \A t \in Threads : WF_jobSystemVars(JobSystemCallSteps(t))
  /\ \A w \in Workers : WF_jobSystemVars(JobSystemWorkerSteps(w))

JobSystemSpec == JobSystemInit /\ [][JobSystemNext]_jobSystemVars /\ JobSystemFairness

-----------------------------------------------------------------------------
(* No thread waits for the pool inside a body, however its calls nest: a     *)
(* worker that waits is a worker the tasks it waits for cannot run on.       *)
WorkersNeverWait == \A w \in Workers : caller[w] = "idle"

(* Every parallelFor ends, nested in bodies of others or not: the workers    *)
(* never all wait for tasks that nobody is left to run.                      *)
ParallelForEnds ==
  \A t \in Threads :
    caller[t] # "idle" \/ inline[t] # <<>> ~> caller[t] = "idle" /\ inline[t] = <<>>

(* A call from outside returns when every iteration has run once to its end, *)
(* with all the calls nested in it: no worker is inside one of its bodies.   *)
OuterCallsCoverNested ==
  [][\A t \in Clients :
       caller[t] = "waiting" /\ caller'[t] = "idle" =>
         /\ \A w \in inBody : job[w].owner # t
         /\ \A i \in DOMAIN executed[t] : executed[t][i] = 1]_jobSystemVars
=============================================================================
