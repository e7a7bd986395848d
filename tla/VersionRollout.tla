---------------------------- MODULE VersionRollout ----------------------------
(***************************************************************************)
(* What a cycle of the service controller does to one service that follows *)
(* the latest version of its pack: upgrade, crash-loop detection, rollback *)
(* or pause, and the replacement of missing pods.                          *)
(*                                                                         *)
(* A cycle reads the service once and works on that copy to its end, an    *)
(* await at a time, while pods start, run and fail.  Scaling down and the  *)
(* messages to the nodes are in PodFleet.                                  *)
(***************************************************************************)
EXTENDS ReconcileLoop, FiniteSets

CONSTANTS Pods,                    (* pod rows that may exist at a time     *)
          None,                    (* SQL NULL                              *)
          MaxVersion,              (* bound: versions of the pack           *)
          Replicas,                (* services.replicas                     *)
          MaxConsecutiveFailures,  (* config.maxConsecutiveFailures         *)
          MaxFaults                (* bound: pods that fail or are lost     *)

Versions == 1 .. MaxVersion

ASSUME RolloutAssumption ==
  /\ MaxVersion \in Nat \ {0}
  /\ Replicas \in Nat \ {0}
  /\ MaxConsecutiveFailures \in Nat \ {0}
  /\ MaxFaults \in Nat
  /\ None \notin Versions
  /\ IsFiniteSet(Pods)

VARIABLES
  service,                (* the row of table services                      *)
  latest,                 (* getLatestPackVersion                           *)
  podStatus, podVersion,  (* table pods                                     *)
  process,                (* the pods' processes: none, launched or up      *)
  cycle,                  (* the controller's cycle                         *)
  crashes,                (* history: pods that failed by themselves        *)
  faults                  (* bound                                          *)

rows == <<podStatus, podVersion>>
data == <<service, latest, rows, process, cycle, crashes, faults>>
vars == <<loopVars, data>>

(* "starting" stands for scheduled and starting, "failed" for a failure    *)
(* that counts and is recent, "ended" for every other terminal row.        *)
Live   == {"pending", "starting", "running"}
Active == Live \cup {"stopping"}

(* backoff is Date.now() < failureBackoffUntil. *)
Service == [packVersion : Versions, failedVersion : Versions \cup {None},
            lastSuccessfulVersion : Versions \cup {None}, consecutiveFailures : Nat,
            backoff : BOOLEAN, paused : BOOLEAN, readyReplicas : 0 .. Cardinality(Pods)]

NewService == [packVersion |-> 1, failedVersion |-> None, lastSuccessfulVersion |-> None,
               consecutiveFailures |-> 0, backoff |-> FALSE, paused |-> FALSE,
               readyReplicas |-> 0]

(* service is the cycle's copy, version the one to roll to; after a        *)
(* rolling update the cycle goes on at next.                               *)
NoCycle == [pc |-> "idle", service |-> NewService, version |-> None, marks |-> {},
            next |-> "end", failures |-> 0, create |-> 0, ready |-> 0]

Init ==
  /\ LoopInit
  /\ service = NewService
  /\ latest = 1
  /\ podStatus = [p \in Pods |-> "none"]
  /\ podVersion = [p \in Pods |-> None]
  /\ process = [p \in Pods |-> "none"]
  /\ cycle = NoCycle
  /\ crashes = 0
  /\ faults = 0

At(pc) == cycle.pc = pc

-----------------------------------------------------------------------------
(* The cycle *)

(* runReconcileLoop (ReconcileLoop) starts reconcileServices. *)
Loop ==
  /\ LoopStep
  /\ cycle' = IF isProcessing' /\ ~ isProcessing THEN [NoCycle EXCEPT !.pc = "services"]
              ELSE cycle
  /\ UNCHANGED <<service, latest, rows, process, crashes, faults>>

Finish ==
  /\ At("end")
  /\ CycleEnds
  /\ cycle' = NoCycle
  /\ UNCHANGED <<service, latest, rows, process, crashes, faults>>

(* listActiveServices: a paused service is not among them. *)
ListServices ==
  /\ At("services")
  /\ cycle' = IF service.paused THEN [cycle EXCEPT !.pc = "end"]
              ELSE [cycle EXCEPT !.pc = "latest", !.service = service]
  /\ UNCHANGED <<loopVars, service, latest, rows, process, crashes, faults>>

(* Mutant: the failure is not looked at. *)
NoProtection(s, version) == FALSE

isInFailureBackoff(s, version) == s.failedVersion = version /\ s.backoff

(* reconcileFollowLatestVersions, up to the decision *)
ReadLatest ==
  /\ At("latest")
  /\ cycle' = IF isInFailureBackoff(cycle.service, latest) \/ cycle.service.packVersion = latest
              THEN [cycle EXCEPT !.pc = "pods"]
              ELSE [cycle EXCEPT !.pc = "upgrade", !.version = latest]
  /\ UNCHANGED <<loopVars, service, latest, rows, process, crashes, faults>>

(* The row gets the new version; the cycle's copy keeps the old one. *)
Upgrade ==
  /\ At("upgrade")
  /\ service' = [service EXCEPT
       !.packVersion = cycle.version,
       !.lastSuccessfulVersion =
          IF cycle.service.readyReplicas > 0 /\ cycle.service.lastSuccessfulVersion = None
          THEN cycle.service.packVersion ELSE @]
  /\ cycle' = [cycle EXCEPT !.pc = "rolling", !.next = "pods"]
  /\ UNCHANGED <<loopVars, latest, rows, process, crashes, faults>>

(* triggerRollingUpdate: the pods of other versions are listed ... *)
ListOldPods ==
  LET old == {p \in Pods : podStatus[p] \in Live /\ podVersion[p] # cycle.version}
  IN  /\ At("rolling")
      /\ cycle' = [cycle EXCEPT !.pc = IF old = {} THEN cycle.next ELSE "mark", !.marks = old]
      /\ UNCHANGED <<loopVars, service, latest, rows, process, crashes, faults>>

(* ... and marked one by one, whatever they have become; no node is told.  *)
MarkOldPod(p) ==
  /\ At("mark") /\ p \in cycle.marks
  /\ podStatus' = [podStatus EXCEPT ![p] = "stopping"]
  /\ cycle' = [cycle EXCEPT !.pc = IF @ = "mark" /\ cycle.marks = {p} THEN cycle.next ELSE @,
                            !.marks = @ \ {p}]
  /\ UNCHANGED <<loopVars, service, latest, podVersion, process, crashes, faults>>

(* Mutant: lost and deleted pods count as failures. *)
TerminalPods == {p \in Pods : podStatus[p] \in {"failed", "ended"}}

RecentFailures == {p \in Pods : podStatus[p] = "failed"}

(* What detectAndHandleCrashLoop decides on the pods listed. *)
Verdict(running) ==
  LET s == cycle.service
      count == s.consecutiveFailures + Cardinality(RecentFailures)
  IN  CASE /\ running # {}
           /\ s.consecutiveFailures > 0 /\ \E p \in running : podVersion[p] = s.packVersion -> "clear"
        [] running = {} /\ RecentFailures # {} /\ count < MaxConsecutiveFailures -> "count"
        [] /\ running = {} /\ RecentFailures # {} /\ count >= MaxConsecutiveFailures
           /\ s.lastSuccessfulVersion \notin {None, s.packVersion} -> "rollback"
        [] /\ running = {} /\ RecentFailures # {} /\ count >= MaxConsecutiveFailures
           /\ s.lastSuccessfulVersion \in {None, s.packVersion} -> "pause"
        [] OTHER -> "create"

(* Mutant: rows that ended are counted as well. *)
EveryRow == {p \in Pods : podStatus[p] # "none"}

Counted == {p \in Pods : podStatus[p] \notin {"none", "failed", "ended"}}

(* reconcileServiceInner lists the pods once: verdict, missing replicas    *)
(* and the counts it writes at the end all come from this list.            *)
ListPods ==
  LET running == {p \in Pods : podStatus[p] = "running"}
  IN  /\ At("pods")
      /\ cycle' = [cycle EXCEPT
           !.pc = Verdict(running),
           !.failures = Cardinality(RecentFailures),
           !.create = IF Cardinality(Counted) < Replicas THEN Replicas - Cardinality(Counted) ELSE 0,
           !.ready = Cardinality(running)]
      /\ UNCHANGED <<loopVars, service, latest, rows, process, crashes, faults>>

ClearFailures ==
  /\ At("clear")
  /\ service' = [service EXCEPT !.consecutiveFailures = 0, !.failedVersion = None,
                                !.backoff = FALSE,
                                !.lastSuccessfulVersion = cycle.service.packVersion]
  /\ cycle' = [cycle EXCEPT !.pc = "create"]
  /\ UNCHANGED <<loopVars, latest, rows, process, crashes, faults>>

CountFailures ==
  /\ At("count")
  /\ service' = [service EXCEPT
       !.consecutiveFailures = cycle.service.consecutiveFailures + cycle.failures,
       !.failedVersion = cycle.service.packVersion]
  /\ cycle' = [cycle EXCEPT !.pc = "create"]
  /\ UNCHANGED <<loopVars, latest, rows, process, crashes, faults>>

(* The rest of the cycle only marks the pods of the failed version. *)
RollBack ==
  /\ At("rollback")
  /\ service' = [service EXCEPT !.packVersion = cycle.service.lastSuccessfulVersion,
                                !.consecutiveFailures = 0,
                                !.failedVersion = cycle.service.packVersion,
                                !.backoff = TRUE]
  /\ cycle' = [cycle EXCEPT !.pc = "rolling", !.next = "end",
                            !.version = cycle.service.lastSuccessfulVersion]
  /\ UNCHANGED <<loopVars, latest, rows, process, crashes, faults>>

Pause ==
  /\ At("pause")
  /\ service' = [service EXCEPT
       !.paused = TRUE,
       !.consecutiveFailures = cycle.service.consecutiveFailures + cycle.failures,
       !.failedVersion = cycle.service.packVersion,
       !.backoff = TRUE]
  /\ cycle' = [cycle EXCEPT !.pc = "end"]
  /\ UNCHANGED <<loopVars, latest, rows, process, crashes, faults>>

(* Nothing refers to the old pod of this name: it stands for a new row.    *)
(* Which name a new row gets does not matter.                              *)
Unreferred(p) ==
  podStatus[p] \in {"none", "ended"} /\ process[p] = "none" /\ p \notin cycle.marks
Unused(p) == Unreferred(p) /\ p = CHOOSE q \in Pods : Unreferred(q)

(* createPodForService: with the version of the cycle's copy. *)
CreatePod(p) ==
  /\ At("create") /\ cycle.create > 0
  /\ Unused(p)
  /\ podStatus' = [podStatus EXCEPT ![p] = "pending"]
  /\ podVersion' = [podVersion EXCEPT ![p] = cycle.service.packVersion]
  /\ cycle' = [cycle EXCEPT !.create = @ - 1]
  /\ UNCHANGED <<loopVars, service, latest, process, crashes, faults>>

UpdateReplicaCounts ==
  /\ At("create") /\ cycle.create = 0
  /\ service' = [service EXCEPT !.readyReplicas = cycle.ready]
  /\ cycle' = [cycle EXCEPT !.pc = "end"]
  /\ UNCHANGED <<loopVars, latest, rows, process, crashes, faults>>

-----------------------------------------------------------------------------
(* Around the controller *)

(* The scheduler takes a pending pod, and its node launches it. *)
SchedulePod(p) ==
  /\ podStatus[p] = "pending"
  /\ podStatus' = [podStatus EXCEPT ![p] = "starting"]
  /\ process' = [process EXCEPT ![p] = "launched"]
  /\ UNCHANGED <<loopVars, service, latest, podVersion, cycle, crashes, faults>>

(* The node's statuses are written whatever the row says. *)
PodRuns(p) ==
  /\ process[p] = "launched"
  /\ process' = [process EXCEPT ![p] = "up"]
  /\ podStatus' = [podStatus EXCEPT ![p] = "running"]
  /\ UNCHANGED <<loopVars, service, latest, podVersion, cycle, crashes, faults>>

PodFails(p) ==
  /\ process[p] # "none" /\ faults < MaxFaults
  /\ process' = [process EXCEPT ![p] = "none"]
  /\ podStatus' = [podStatus EXCEPT ![p] = "failed"]
  /\ crashes' = crashes + 1
  /\ faults' = faults + 1
  /\ UNCHANGED <<loopVars, service, latest, podVersion, cycle>>

(* Its node is lost or restarted, or a user stops it. *)
PodLost(p) ==
  /\ process[p] # "none" /\ faults < MaxFaults
  /\ process' = [process EXCEPT ![p] = "none"]
  /\ podStatus' = [podStatus EXCEPT ![p] = "ended"]
  /\ faults' = faults + 1
  /\ UNCHANGED <<loopVars, service, latest, podVersion, cycle, crashes>>

(* failureDetectionWindowMs has passed. *)
FailureAges(p) ==
  /\ podStatus[p] = "failed"
  /\ podStatus' = [podStatus EXCEPT ![p] = "ended"]
  /\ UNCHANGED <<loopVars, service, latest, podVersion, process, cycle, crashes, faults>>

BackoffEnds ==
  /\ service.backoff
  /\ service' = [service EXCEPT !.backoff = FALSE]
  /\ UNCHANGED <<loopVars, latest, rows, process, cycle, crashes, faults>>

PublishVersion ==
  /\ latest < MaxVersion
  /\ latest' = latest + 1
  /\ UNCHANGED <<loopVars, service, rows, process, cycle, crashes, faults>>

(* PATCH /api/services/:id with status active; bound: until the count,     *)
(* which no resume resets, has passed the maximum.                         *)
Resume ==
  /\ service.paused /\ service.consecutiveFailures <= MaxConsecutiveFailures
  /\ service' = [service EXCEPT !.paused = FALSE]
  /\ UNCHANGED <<loopVars, latest, rows, process, cycle, crashes, faults>>

-----------------------------------------------------------------------------
CycleStep ==
  \/ ListServices \/ ReadLatest \/ Upgrade \/ ListOldPods \/ ListPods
  \/ ClearFailures \/ CountFailures \/ RollBack \/ Pause \/ UpdateReplicaCounts
  \/ \E p \in Pods : MarkOldPod(p) \/ CreatePod(p)

PodStep(p) == SchedulePod(p) \/ PodRuns(p) \/ PodFails(p) \/ PodLost(p) \/ FailureAges(p)

Next ==
  \/ Loop \/ Finish \/ CycleStep
  \/ \E p \in Pods : PodStep(p)
  \/ BackoffEnds \/ PublishVersion \/ Resume

Spec == Init /\ [][Next]_vars

(* The timer ticks, queries return, and time passes. *)
Fairness ==
  /\ WF_vars(Loop /\ (Tick \/ Immediate))
  /\ WF_vars(Finish \/ CycleStep)
  /\ WF_vars(BackoffEnds)
  /\ \A p \in Pods : WF_vars(SchedulePod(p) \/ PodRuns(p)) /\ WF_vars(FailureAges(p))

FairSpec == Spec /\ Fairness

-----------------------------------------------------------------------------
TypeOK ==
  /\ LoopTypeOK
  /\ service \in Service
  /\ latest \in Versions
  /\ podStatus \in [Pods -> Active \cup {"none", "failed", "ended"}]
  /\ podVersion \in [Pods -> Versions \cup {None}]
  /\ process \in [Pods -> {"none", "launched", "up"}]
  /\ cycle \in [pc : {"idle", "services", "latest", "upgrade", "rolling", "mark", "pods", "clear",
                      "count", "rollback", "pause", "create", "end"},
                service : Service, version : Versions \cup {None}, marks : SUBSET Pods,
                next : {"pods", "end"}, failures : Nat, create : 0 .. Replicas,
                ready : 0 .. Cardinality(Pods)]
  /\ crashes \in Nat
  /\ faults \in 0 .. MaxFaults

(* No trigger of a reconnecting node is forgotten while cycles run. *)
RolloutSafe == TypeOK /\ NoLostTrigger

(* Nobody is blamed for what the infrastructure did: as long as no pod     *)
(* failed by itself, no failure is counted, no version is called failed    *)
(* and the service is not paused, however many pods were lost.             *)
BlamesOnlyCrashes ==
  crashes = 0 => /\ service.consecutiveFailures = 0 /\ service.failedVersion = None
                 /\ ~ service.paused /\ ~ service.backoff

(* A service is never moved to a version it backs off from: an upgrade     *)
(* avoids the version that failed, a rollback leaves it behind, though     *)
(* both work on a copy of the row that is a cycle old.  (For that reason a *)
(* rollback may leave a newer version than the one it blames.)             *)
AvoidsFailedVersion ==
  [][/\ service.packVersion < service'.packVersion /\ service.backoff
       => service'.packVersion # service.failedVersion
     /\ service.packVersion > service'.packVersion
       => service'.backoff /\ service'.failedVersion \notin {None, service'.packVersion}]_vars

(* A new version is adopted, unless the service is paused, backs off, or   *)
(* the controller is stopped.                                              *)
AdoptsLatest ==
  service.packVersion # latest
    ~> service.packVersion = latest \/ service.paused \/ service.backoff \/ ~ isRunning

(* Missing replicas are created through upgrades, failures and rollbacks.  *)
ReplacesLost ==
  Cardinality({p \in Pods : podStatus[p] \in Active}) < Replicas
    ~> \/ Cardinality({p \in Pods : podStatus[p] \in Active}) >= Replicas
       \/ service.paused \/ ~ isRunning

(* A trigger is followed by a cycle that starts after it. *)
TriggerIsServed == wanted /\ isRunning ~> ~ wanted \/ ~ isRunning

(* The controller gets on: with triggers, with versions, with lost pods. *)
ServiceConverges == TriggerIsServed /\ AdoptsLatest /\ ReplacesLost

(* service-controller.ts:324, of the pods an upgrade marks 'stopping':     *)
(* "they will be replaced by reconcileService".  But 'stopping' counts as  *)
(* active, so no pod is created, and no node is told to stop one.          *)
MarkedPodsAreReplaced ==
  \A p \in Pods : podStatus[p] = "stopping"
    ~> \/ podStatus[p] # "stopping"
       \/ \E q \in Pods : podStatus[q] \in Live /\ podVersion[q] = service.packVersion
       \/ service.paused \/ ~ isRunning

=============================================================================
