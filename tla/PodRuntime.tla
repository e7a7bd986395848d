------------------------------ MODULE PodRuntime ------------------------------
(***************************************************************************)
(* The pods of a node agent: PodHandler, PackExecutor and WorkerAdapter.   *)
(*                                                                         *)
(* A pack runs in a forked worker, at once when the deploy brought its     *)
(* bundle and after a download otherwise, or on the agent's own thread     *)
(* when it has the root capability.  Deploy, stop, the timeout, the        *)
(* worker's message and its exit are events that come in any order, and    *)
(* each finds in status, execution and task what the others left there.    *)
(* A pod is deployed once (PodFleet shows it).                             *)
(***************************************************************************)
EXTENDS Integers, FiniteSets

CONSTANT Pods

ASSUME RuntimeAssumption == IsFiniteSet(Pods)

VARIABLES
  kind,        (* how its pack runs: "inline", "stored" or "root"           *)
  status,      (* PodHandler: the pod's status                              *)
  execution,   (* PackExecutor: the execution's status                      *)
  task,        (* WorkerAdapter: its entry in runningTasks                  *)
  worker,      (* the worker process (of a root pack: its code)             *)
  inbox,       (* events of the worker the agent has not handled yet        *)
  stops,       (* gracefulStops that wait for shutdown handlers             *)
  missed,      (* history: pods stopped before they had a worker            *)
  allocated    (* NodeAgent: allocatedResources.pods                        *)

podVars == <<kind, status, execution, task, worker, inbox, stops, missed, allocated>>

Terminal == {"stopped", "failed"}
Held     == {"running", "stopping"}
Events   == {"result", "error", "exit0", "exit1"}

(* idle: the worker has sent its result; the process stays.                *)
PodInit ==
  /\ kind \in [Pods -> {"inline", "stored", "root"}]
  /\ status = [p \in Pods |-> "none"]
  /\ execution = [p \in Pods |-> "none"]
  /\ task = [p \in Pods |-> "none"]
  /\ worker = [p \in Pods |-> "none"]
  /\ inbox = [p \in Pods |-> {}]
  /\ stops = {}
  /\ missed = {}
  /\ allocated = 0

-----------------------------------------------------------------------------
(* handlePodStatusChange: max(0, pods - 1) for every end that is reported. *)
CountPods(n, s) ==
  IF s = "running" THEN n + 1 ELSE IF s \in Terminal /\ n > 0 THEN n - 1 ELSE n

updateStatus(p, s) ==
  /\ status' = [status EXCEPT ![p] = s]
  /\ allocated' = CountPods(allocated, s)

(* The execution's promise settles: handleExecutionComplete.  A pod that   *)
(* is stopping counts as stopped; one that was stopped already fails now   *)
(* if its worker's message came after the kill.                            *)
Settle(p, success) ==
  /\ execution' = [execution EXCEPT ![p] = "settled"]
  /\ updateStatus(p, IF success \/ status[p] = "stopping" THEN "stopped" ELSE "failed")

-----------------------------------------------------------------------------
(* handleDeploy: starting and running are reported in one turn; the worker *)
(* of an inline pack is forked in the same turn.                           *)
HandleDeploy(p) ==
  /\ status[p] = "none"
  /\ updateStatus(p, "running")
  /\ execution' = [execution EXCEPT ![p] =
                     IF kind[p] = "stored" THEN "pending" ELSE "running"]
  /\ worker' = [worker EXCEPT ![p] = IF kind[p] = "stored" THEN "none" ELSE "busy"]
  /\ task' = [task EXCEPT ![p] = IF kind[p] = "inline" THEN "running" ELSE "none"]
  /\ UNCHANGED <<kind, inbox, stops, missed>>

(* The executor throws: the wrong runtime, or it was terminated.           *)
DeployFails(p) ==
  /\ status[p] = "none"
  /\ updateStatus(p, "failed")
  /\ UNCHANGED <<kind, execution, task, worker, inbox, stops, missed>>

(* The bundle is there: the worker starts, whatever became of the pod.     *)
DownloadEnds(p) ==
  /\ execution[p] = "pending"
  /\ execution' = [execution EXCEPT ![p] = "running"]
  /\ worker' = [worker EXCEPT ![p] = "busy"]
  /\ task' = [task EXCEPT ![p] = "running"]
  /\ UNCHANGED <<kind, status, inbox, stops, missed, allocated>>

DownloadFails(p) ==
  /\ execution[p] = "pending"
  /\ Settle(p, FALSE)
  /\ UNCHANGED <<kind, task, worker, inbox, stops, missed>>

(* The worker sends its result or an error ... *)
WorkerAnswers(p, event) ==
  /\ kind[p] # "root" /\ worker[p] = "busy"
  /\ worker' = [worker EXCEPT ![p] = "idle"]
  /\ inbox' = [inbox EXCEPT ![p] = @ \cup {event}]
  /\ UNCHANGED <<kind, status, execution, task, stops, missed, allocated>>

(* ... or exits (that it could not be started is noticed in the same way). *)
WorkerExits(p, event) ==
  /\ kind[p] # "root" /\ worker[p] \in {"busy", "idle"}
  /\ worker' = [worker EXCEPT ![p] = "dead"]
  /\ inbox' = [inbox EXCEPT ![p] = @ \cup {event}]
  /\ UNCHANGED <<kind, status, execution, task, stops, missed, allocated>>

Forget(p) == task' = [task EXCEPT ![p] = IF @ = "cancelled" THEN @ ELSE "gone"]

(* The message of a cancelled task rejects; a promise settles only once.   *)
NoticeMessage(p, event) ==
  /\ event \in inbox[p] \cap {"result", "error"}
  /\ inbox' = [inbox EXCEPT ![p] = @ \ {event}]
  /\ Forget(p)
  /\ IF execution[p] = "settled" THEN UNCHANGED <<execution, status, allocated>>
     ELSE Settle(p, event = "result" /\ task[p] # "cancelled")
  /\ UNCHANGED <<kind, worker, stops, missed>>

(* An exit counts only while the task runs, and only if it is not 0: a     *)
(* worker that leaves with 0 and says nothing settles nothing.             *)
NoticeExit(p, event) ==
  /\ event \in inbox[p] \cap {"exit0", "exit1"}
  /\ inbox' = [inbox EXCEPT ![p] = @ \ {event}]
  /\ Forget(p)
  /\ IF task[p] = "running" /\ event = "exit1" THEN Settle(p, FALSE)
     ELSE UNCHANGED <<execution, status, allocated>>
  /\ UNCHANGED <<kind, worker, stops, missed>>

(* A root pack's code ends; nothing can end it before. *)
MainThreadEnds(p, success) ==
  /\ kind[p] = "root" /\ worker[p] = "busy"
  /\ worker' = [worker EXCEPT ![p] = "dead"]
  /\ Settle(p, success)
  /\ UNCHANGED <<kind, task, inbox, stops, missed>>

(* Mutant: the process is left to itself. *)
TimeoutOnly(p) ==
  /\ task[p] = "running"
  /\ task' = [task EXCEPT ![p] = "cancelled"]
  /\ Settle(p, FALSE)
  /\ UNCHANGED <<kind, worker, inbox, stops, missed>>

(* The pack's timeout, if it has one: SIGKILL. *)
Timeout(p) ==
  /\ task[p] = "running"
  /\ task' = [task EXCEPT ![p] = "cancelled"]
  /\ worker' = [worker EXCEPT ![p] = "dead"]
  /\ Settle(p, FALSE)
  /\ UNCHANGED <<kind, inbox, stops, missed>>

(* handleStop while the bundle is downloaded: gracefulStop returns at      *)
(* once, and nothing stops the download.                                   *)
StopDownload(p) ==
  /\ status[p] = "running" /\ execution[p] = "pending"
  /\ updateStatus(p, "stopped")
  /\ missed' = missed \cup {p}
  /\ UNCHANGED <<kind, execution, task, worker, inbox, stops>>

(* A worker has no handlers to wait for: SIGKILL in the same turn. *)
StopWorker(p) ==
  /\ status[p] = "running" /\ execution[p] = "running" /\ kind[p] # "root"
  /\ execution' = [execution EXCEPT ![p] = "cancelled"]
  /\ task' = [task EXCEPT ![p] = "cancelled"]
  /\ worker' = [worker EXCEPT ![p] = "dead"]
  /\ updateStatus(p, "stopped")
  /\ UNCHANGED <<kind, inbox, stops, missed>>

(* A root pack's handlers are called, for at most gracefulShutdownTimeout. *)
StopRoot(p) ==
  /\ status[p] = "running" /\ execution[p] = "running" /\ kind[p] = "root"
  /\ updateStatus(p, "stopping")
  /\ stops' = stops \cup {p}
  /\ UNCHANGED <<kind, execution, task, worker, inbox, missed>>

StopEnds(p) ==
  /\ p \in stops
  /\ stops' = stops \ {p}
  /\ execution' = [execution EXCEPT ![p] = IF @ = "settled" THEN @ ELSE "cancelled"]
  /\ updateStatus(p, "stopped")
  /\ UNCHANGED <<kind, task, worker, inbox, missed>>

-----------------------------------------------------------------------------
Commanded(p) == HandleDeploy(p) \/ StopDownload(p) \/ StopWorker(p) \/ StopRoot(p)

Handled(p) == StopEnds(p) \/ \E e \in Events : NoticeMessage(p, e) \/ NoticeExit(p, e)

Happens(p) == DownloadEnds(p) \/ WorkerAnswers(p, "result") \/ MainThreadEnds(p, TRUE)

Fails(p) ==
  \/ DownloadFails(p) \/ WorkerAnswers(p, "error") \/ MainThreadEnds(p, FALSE)
  \/ Timeout(p) \/ \E e \in {"exit0", "exit1"} : WorkerExits(p, e)

PodStep(p) == Commanded(p) \/ DeployFails(p) \/ Handled(p) \/ Happens(p) \/ Fails(p)

PodSpec == PodInit /\ [][\E p \in Pods : PodStep(p)]_podVars

(* The agent's event loop turns. *)
PodFairness == \A p \in Pods : WF_podVars(Handled(p))

-----------------------------------------------------------------------------
PodTypeOK ==
  /\ kind \in [Pods -> {"inline", "stored", "root"}]
  /\ status \in [Pods -> {"none"} \cup Held \cup Terminal]
  /\ execution \in [Pods -> {"none", "pending", "running", "cancelled", "settled"}]
  /\ task \in [Pods -> {"none", "running", "gone", "cancelled"}]
  /\ worker \in [Pods -> {"none", "busy", "idle", "dead"}]
  /\ inbox \in [Pods -> SUBSET Events]
  /\ stops \in SUBSET Pods /\ missed \in SUBSET Pods
  /\ allocated \in Nat

(* The agent never claims more pods than it holds, though the same end may *)
(* be counted twice (a stop that races the end of the code, a message that *)
(* comes after the kill) and a deploy that failed is counted as an end.    *)
AllocatedNeverOver == allocated <= Cardinality({p \in Pods : status[p] \in Held})

(* What the agent calls stopped or failed does not work any more: whatever *)
(* came first, timeout, stop, message or exit.  (Not so for root packs,    *)
(* which cannot be killed, and for packs stopped during their download.)   *)
EndedPodsAreDead ==
  \A p \in Pods : status[p] \in Terminal /\ kind[p] # "root" /\ p \notin missed
                    => worker[p] # "busy"

(* A worker that answered, crashed or was killed from outside ends its     *)
(* pod, and a stop ends it even if the code does not.                      *)
EndsAreNoticed ==
  \A p \in Pods :
    status[p] = "stopping" \/ (status[p] = "running" /\ inbox[p] \cap {"result", "error"} # {})
      \/ (status[p] = "running" /\ inbox[p] = {"exit1"})
    ~> status[p] \in Terminal

=============================================================================
