------------------------------ MODULE UpdateLoop ------------------------------
(***************************************************************************)
(* SystemManager::updateSystems with DeferredChangeQueue: an update runs    *)
(* the layers of one manager, the systems of a layer in parallel, and       *)
(* flushes the manager's queue after each.  A system alone in its layer and *)
(* the user code a command runs (hooks, constructors) may update another    *)
(* manager meanwhile, so updates nest.  What a command changes is the        *)
(* subject of GeneralManager; here a command is its place in the queue.      *)
(***************************************************************************)
EXTENDS Integers, SequencesExt

CONSTANTS
  Managers,   \* names of the system managers
  Systems,    \* systems of all managers
  Layers,     \* [Managers -> Seq(SUBSET Systems)]: the layers in force
  MaxQueue    \* bound: length of a queue

(* A system is in one layer of one manager: EverySystemOnce. *)
ASSUME UpdateAssumptions ==
  /\ IsFiniteSet(Systems)
  /\ Layers \in [Managers -> Seq(SUBSET Systems)]
  /\ \A m, n \in Managers : \A i \in DOMAIN Layers[m], j \in DOMAIN Layers[n] :
       Layers[m][i] \cap Layers[n][j] # {} => m = n /\ i = j
  /\ MaxQueue \in Nat

VARIABLES
  queues,    \* _deferredQueues
  updates,   \* the calls of updateSystems under way, the innermost last
  running,   \* systems inside their update()
  issued,    \* history: commands issued to each queue
  applied    \* history: commands applied from each queue

historyVars == <<issued, applied>>
updateVars == <<queues, updates, running, historyVars>>

(* Histories count modulo more than what can be outstanding, so that the    *)
(* program may run for ever.                                                 *)
IdModulus == 2 * MaxQueue + 1
NextId(i) == (i + 1) % IdModulus

(* id: its number among the commands of its queue; due: how many flushes of  *)
(* that queue have yet to start before the one that applies it runs.          *)
Command == [id : 0 .. IdModulus - 1, due : 0 .. 1]

(* finished: systems of the layer whose update() returned; batch: commands  *)
(* flushDeferred took from the queue; phase "command" is inside one.         *)
Update == [manager : Managers, layer : Nat, phase : {"layer", "flush", "command"},
           finished : SUBSET Systems, batch : Seq(Command)]

Top == Last(updates)
In(phase) == updates # <<>> /\ Top.phase = phase
Becomes(update) == updates' = Append(Front(updates), update)

UpdateInit ==
  /\ queues = [m \in Managers |-> <<>>]
  /\ updates = <<>>
  /\ running = {}
  /\ issued = [m \in Managers |-> 0]
  /\ applied = [m \in Managers |-> 0]

InLayer == In("layer") /\ Top.layer <= Len(Layers[Top.manager])
CurrentLayer == IF InLayer THEN Layers[Top.manager][Top.layer] ELSE {}
RunningHere == running \cap CurrentLayer

-----------------------------------------------------------------------------
(* Issuing: systems, hooks, the program or a job of its own, at any moment, *)
(* under the mutex of the queues.                                            *)

NewCommand(m) == [id |-> issued[m], due |-> 1]

deferredChange(m) ==
  /\ Len(queues[m]) < MaxQueue
  /\ queues' = [queues EXCEPT ![m] = Append(@, NewCommand(m))]
  /\ issued' = [issued EXCEPT ![m] = NextId(@)]
  /\ UNCHANGED <<updates, running, applied>>

-----------------------------------------------------------------------------
(* updateSystems. *)

UpdateOf(m) == {i \in DOMAIN updates : updates[i].manager = m}

(* The program between updates, systems inside update(), commands. *)
UserCodeRuns == updates = <<>> \/ RunningHere # {} \/ In("command")

(* Structural changes follow: no system runs in parallel with the caller,   *)
(* and no manager's update calls itself.  Without systems it is a flush.     *)
updateSystems(m) ==
  /\ UserCodeRuns
  /\ Cardinality(CurrentLayer) <= 1
  /\ UpdateOf(m) = {}
  /\ updates' = Append(updates, [manager |-> m, layer |-> 1, phase |-> "layer",
                                 finished |-> {}, batch |-> <<>>])
  /\ UNCHANGED <<queues, running, historyVars>>

(* parallelFor starts the systems of the layer in any order. *)
startSystem(s) ==
  /\ s \in CurrentLayer
  /\ s \notin running \cup Top.finished
  /\ running' = running \cup {s}
  /\ UNCHANGED <<queues, updates, historyVars>>

finishSystem(s) ==
  /\ s \in RunningHere
  /\ running' = running \ {s}
  /\ Becomes([Top EXCEPT !.finished = @ \cup {s}])
  /\ UNCHANGED <<queues, historyVars>>

(* Mutant: the barrier falls when every system has been started. *)
AllStarted == CurrentLayer \subseteq running \cup Top.finished

(* parallelFor returns when every system of the layer has. *)
LayerDone == CurrentLayer \subseteq Top.finished

(* The queue of the manager being flushed, a flush nearer. *)
Taken == [i \in DOMAIN queues[Top.manager] |->
            [queues[Top.manager][i] EXCEPT !.due = @ - 1]]

(* Mutant: the queue is copied, not swapped away. *)
flushCopies ==
  /\ In("layer")
  /\ LayerDone
  /\ Becomes([Top EXCEPT !.phase = "flush", !.batch = Taken])
  /\ UNCHANGED <<queues, running, historyVars>>

(* The queue is swapped away under the mutex, then executed without it. *)
flushDeferred ==
  /\ In("layer")
  /\ LayerDone
  /\ Becomes([Top EXCEPT !.phase = "flush", !.batch = Taken])
  /\ queues' = [queues EXCEPT ![Top.manager] = <<>>]
  /\ UNCHANGED <<running, historyVars>>

execute ==
  /\ In("flush")
  /\ Top.batch # <<>>
  /\ Becomes([Top EXCEPT !.phase = "command", !.batch = Tail(@)])
  /\ applied' = [applied EXCEPT ![Top.manager] = NextId(@)]
  /\ UNCHANGED <<queues, running, issued>>

(* Mutant: the flush goes on until the queue is empty. *)
DrainsQueue ==
  /\ Becomes([Top EXCEPT !.phase = "flush", !.batch = @ \o queues[Top.manager]])
  /\ queues' = [queues EXCEPT ![Top.manager] = <<>>]

(* What the command issued stays queued. *)
LeavesQueued == Becomes([Top EXCEPT !.phase = "flush"]) /\ UNCHANGED queues

commandReturns ==
  /\ In("command")
  /\ LeavesQueued
  /\ UNCHANGED <<running, historyVars>>

AnotherLayer == Top.layer < Len(Layers[Top.manager])

flushReturns ==
  /\ In("flush")
  /\ Top.batch = <<>>
  /\ IF AnotherLayer
     THEN Becomes([Top EXCEPT !.layer = @ + 1, !.phase = "layer", !.finished = {}])
     ELSE updates' = Front(updates)
  /\ UNCHANGED <<queues, running, historyVars>>

UpdateNext ==
  \/ \E m \in Managers : deferredChange(m) \/ updateSystems(m)
  \/ \E s \in Systems : startSystem(s) \/ finishSystem(s)
  \/ flushDeferred \/ execute \/ commandReturns \/ flushReturns

(* The updating thread and the systems it runs keep going, and user code    *)
(* does not update other managers for ever; nobody has to issue a command    *)
(* or to start an update.                                                     *)
UpdateFairness ==
  /\ \A s \in Systems : WF_updateVars(startSystem(s)) /\ SF_updateVars(finishSystem(s))
  /\ WF_updateVars(flushDeferred \/ execute \/ flushReturns)
  /\ \A m \in Managers : SF_updateVars(In("command") /\ Top.manager = m /\ commandReturns)

UpdateSpec == UpdateInit /\ [][UpdateNext]_updateVars /\ UpdateFairness

-----------------------------------------------------------------------------
(* Types of the state. *)
UpdateTypeOK ==
  /\ queues \in [Managers -> Seq(Command)]
  /\ updates \in Seq(Update)
  /\ running \subseteq Systems
  /\ issued \in [Managers -> 0 .. IdModulus - 1]
  /\ applied \in [Managers -> 0 .. IdModulus - 1]

(* The commands issued to m and not applied, in the order they will be. *)
BatchOf(m) == IF UpdateOf(m) = {} THEN <<>> ELSE updates[Min(UpdateOf(m))].batch
Outstanding(m) == BatchOf(m) \o queues[m]

(* Whatever systems, flushed commands and nested updates do meanwhile, the   *)
(* commands of a queue are applied once each and in the order issued: none   *)
(* is lost when a flush takes the queue, none overtaken.                      *)
AppliedOnceInOrder ==
  \A m \in Managers :
    /\ Len(Outstanding(m)) = (issued[m] - applied[m]) % IdModulus
    /\ \A i \in DOMAIN Outstanding(m) :
         Outstanding(m)[i].id = (applied[m] + i - 1) % IdModulus

(* GMDeferredTests: what a system issues is applied after its own layer and *)
(* what a flushed command issues after the following one, no sooner and no   *)
(* later: every command is applied by the first flush after it was issued.   *)
AppliedByNextFlush ==
  \A m \in Managers :
    /\ \A i \in DOMAIN queues[m] : queues[m][i].due = 1
    /\ \A i \in DOMAIN BatchOf(m) : BatchOf(m)[i].due = 0

(* Systems that run in parallel see one world: while one of them is inside  *)
(* update(), no command is applied and no system of another layer runs,      *)
(* whoever updates what.                                                      *)
LayersAreBarriers ==
  [][\A m \in Managers : \A i \in DOMAIN Layers[m] :
       Cardinality(Layers[m][i]) > 1 /\ running \cap Layers[m][i] # {} =>
         applied' = applied /\ running' \ running \subseteq Layers[m][i]]_updateVars

(* Every update ends, even if each command it applies issues another one    *)
(* and runs an update of its own.                                            *)
UpdateEnds == updates # <<>> ~> updates = <<>>
=============================================================================
