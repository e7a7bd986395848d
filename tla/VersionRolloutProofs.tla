-------------------------- MODULE VersionRolloutProofs --------------------------
(***************************************************************************)
(* Proofs about VersionRollout, for any pods, versions, replicas and       *)
(* limits: no trigger is lost, lost pods are never held against a version, *)
(* and no move of the version goes to one the service backs off from,      *)
(* although the cycle decides on a copy of the row.                        *)
(***************************************************************************)
EXTENDS VersionRollout, FiniteSetTheorems, TLAPS

-----------------------------------------------------------------------------
(* Types *)

(* What a cycle needs to know to go on at its pc. *)
CycleReady ==
  /\ At("upgrade") => cycle.version \in Versions
  /\ At("rollback") => cycle.service.lastSuccessfulVersion \in Versions

TypeInv == TypeOK /\ CycleReady

Pcs == {"idle", "services", "latest", "upgrade", "rolling", "mark", "pods", "clear", "count",
        "rollback", "pause", "create", "end"}

Cycle == [pc : Pcs, service : Service, version : Versions \cup {None}, marks : SUBSET Pods,
          next : {"pods", "end"}, failures : Nat, create : 0 .. Replicas,
          ready : 0 .. Cardinality(Pods)]

LEMMA CycleType == TypeOK => cycle \in Cycle
BY DEF TypeOK, Cycle, Pcs

(* Counts of pods are numbers. *)
LEMMA PodCounts ==
  /\ Cardinality(Pods) \in Nat
  /\ \A S \in SUBSET Pods : Cardinality(S) \in 0 .. Cardinality(Pods)
<1>1. Cardinality(Pods) \in Nat
  BY RolloutAssumption, FS_CardinalityType
<1>2. ASSUME NEW S \in SUBSET Pods PROVE Cardinality(S) \in 0 .. Cardinality(Pods)
  <2>1. IsFiniteSet(S) /\ Cardinality(S) <= Cardinality(Pods)
    BY RolloutAssumption, FS_Subset
  <2>2. Cardinality(S) \in Nat
    BY <2>1, FS_CardinalityType
  <2>. QED BY <1>1, <2>1, <2>2
<1>. QED BY <1>1, <1>2

(* The cycle before its first step. *)
LEMMA InitCycle ==
  /\ NewService \in Service /\ NoCycle \in Cycle
  /\ [NoCycle EXCEPT !.pc = "services"] \in Cycle
<1>1. 1 \in Versions
  BY RolloutAssumption DEF Versions
<1>2. 0 \in 0 .. Cardinality(Pods) /\ 0 \in 0 .. Replicas
  BY PodCounts, RolloutAssumption
<1>3. NewService \in Service
  BY <1>1, <1>2 DEF NewService, Service
<1>. QED BY <1>2, <1>3 DEF NoCycle, Cycle, Pcs

LEMMA InitTypes == Init => TypeInv
<1> SUFFICES ASSUME Init PROVE TypeInv
  OBVIOUS
<1>1. 1 \in Versions
  BY RolloutAssumption DEF Versions
<1>2. LoopTypeOK
  <2>1. triggers \in 0 .. MaxTriggers
    BY LoopAssumption DEF Init, LoopInit
  <2>. QED BY <2>1 DEF Init, LoopInit, LoopTypeOK
<1>. QED BY <1>1, <1>2, InitCycle, RolloutAssumption
         DEF Init, TypeInv, TypeOK, Cycle, Pcs, CycleReady, At, NoCycle

(* The loop's own steps keep the loop's types. *)
LEMMA LoopTypes ==
  ASSUME LoopTypeOK, LoopStep \/ CycleEnds \/ UNCHANGED loopVars
  PROVE  LoopTypeOK'
<1>1. \/ triggers' = triggers
      \/ triggers < MaxTriggers /\ triggers' = triggers + 1
  BY DEF LoopStep, Start, Stop, Tick, Immediate, TriggerReconcile, DebounceEnds, CycleEnds, loopVars
<1>2. triggers' \in 0 .. MaxTriggers
  <2>1. triggers \in 0 .. MaxTriggers
    BY DEF LoopTypeOK
  <2>. QED BY <1>1, <2>1, LoopAssumption
<1> USE <1>2 DEF LoopTypeOK, CycleBegins, CycleQueued
<1>3. CASE Start
  BY <1>3 DEF Start
<1>4. CASE Stop
  BY <1>4 DEF Stop
<1>5. CASE Tick
  BY <1>5 DEF Tick
<1>6. CASE Immediate
  BY <1>6 DEF Immediate
<1>7. CASE TriggerReconcile
  BY <1>7 DEF TriggerReconcile
<1>8. CASE DebounceEnds
  BY <1>8 DEF DebounceEnds
<1>9. CASE CycleEnds
  BY <1>9 DEF CycleEnds
<1>10. CASE UNCHANGED loopVars
  BY <1>10 DEF loopVars
<1>. QED BY <1>3, <1>4, <1>5, <1>6, <1>7, <1>8, <1>9, <1>10 DEF LoopStep

(* A trigger no cycle has started after is remembered in every step. *)
LEMMA LoopRemembers ==
  ASSUME NoLostTrigger, LoopStep \/ CycleEnds \/ UNCHANGED loopVars
  PROVE  NoLostTrigger'
<1> USE DEF NoLostTrigger, CycleBegins, CycleQueued
<1>3. CASE Start
  BY <1>3 DEF Start
<1>4. CASE Stop
  BY <1>4 DEF Stop
<1>5. CASE Tick
  BY <1>5 DEF Tick
<1>6. CASE Immediate
  BY <1>6 DEF Immediate
<1>7. CASE TriggerReconcile
  BY <1>7 DEF TriggerReconcile
<1>8. CASE DebounceEnds
  BY <1>8 DEF DebounceEnds
<1>9. CASE CycleEnds
  BY <1>9 DEF CycleEnds
<1>10. CASE UNCHANGED loopVars
  BY <1>10 DEF loopVars
<1>. QED BY <1>3, <1>4, <1>5, <1>6, <1>7, <1>8, <1>9, <1>10 DEF LoopStep

(* The steps of the system as the loop sees them. *)
LEMMA StepIsLoops == [Next]_vars => LoopStep \/ CycleEnds \/ UNCHANGED loopVars
BY DEF Next, Loop, Finish, CycleStep, ListServices, ReadLatest, Upgrade, ListOldPods, ListPods,
       ClearFailures, CountFailures, RollBack, Pause, UpdateReplicaCounts, MarkOldPod, CreatePod,
       PodStep, SchedulePod, PodRuns, PodFails, PodLost, FailureAges, BackoffEnds,
       PublishVersion, Resume, vars

(* The types of the service, its pods and the cycle. *)
DataType ==
  /\ service \in Service
  /\ latest \in Versions
  /\ podStatus \in [Pods -> Active \cup {"none", "failed", "ended"}]
  /\ podVersion \in [Pods -> Versions \cup {None}]
  /\ process \in [Pods -> {"none", "launched", "up"}]
  /\ cycle \in Cycle
  /\ crashes \in Nat
  /\ faults \in 0 .. MaxFaults

LEMMA TypeSplit == TypeOK <=> LoopTypeOK /\ DataType
BY DEF TypeOK, DataType, Cycle, Pcs

(* Changing the pc and the like keeps a cycle a cycle. *)
LEMMA CycleTypes ==
  ASSUME DataType, CycleReady, Loop \/ Finish \/ CycleStep
  PROVE  DataType' /\ CycleReady'
<1> USE DEF DataType, CycleReady, Cycle, Pcs, At, rows
<1>1. CASE Loop
  BY <1>1, InitCycle DEF Loop
<1>2. CASE Finish
  BY <1>2, InitCycle DEF Finish, NoCycle
<1>3. CASE ListServices
  BY <1>3 DEF ListServices
<1>4. CASE ReadLatest
  BY <1>4 DEF ReadLatest
<1>5. CASE Upgrade
  BY <1>5 DEF Upgrade, Service
<1>6. CASE ListOldPods
  BY <1>6 DEF ListOldPods
<1>7. CASE ListPods
  <2> DEFINE running == {p \in Pods : podStatus[p] = "running"}
             missing == IF Cardinality(Counted) < Replicas
                        THEN Replicas - Cardinality(Counted) ELSE 0
  <2>1. /\ Cardinality(RecentFailures) \in Nat
        /\ Cardinality(running) \in 0 .. Cardinality(Pods)
        /\ Cardinality(Counted) \in Nat
    <3>1. RecentFailures \in SUBSET Pods /\ running \in SUBSET Pods /\ Counted \in SUBSET Pods
      BY DEF RecentFailures, Counted
    <3>2. \A n \in 0 .. Cardinality(Pods) : n \in Nat
      BY PodCounts
    <3>. QED BY <3>1, <3>2, PodCounts
  <2>2. missing \in 0 .. Replicas
    BY <2>1, RolloutAssumption
  <2>3. /\ Verdict(running) \in {"clear", "count", "rollback", "pause", "create"}
        /\ Verdict(running) = "rollback" => cycle.service.lastSuccessfulVersion \in Versions
    <3>1. cycle.service.lastSuccessfulVersion \in Versions \cup {None}
      BY DEF Service
    <3>. QED BY <3>1 DEF Verdict
  <2>4. /\ cycle' = [cycle EXCEPT !.pc = Verdict(running),
                                 !.failures = Cardinality(RecentFailures),
                                 !.create = missing, !.ready = Cardinality(running)]
        /\ UNCHANGED <<service, latest, rows, process, crashes, faults>>
    BY <1>7 DEF ListPods
  <2> HIDE DEF running, missing
  <2>. QED BY <2>1, <2>2, <2>3, <2>4
<1>8. CASE ClearFailures
  BY <1>8 DEF ClearFailures, Service
<1>9. CASE CountFailures
  <2>1. cycle.service.consecutiveFailures + cycle.failures \in Nat
    BY DEF Service
  <2>. QED BY <1>9, <2>1 DEF CountFailures, Service
<1>10. CASE RollBack
  BY <1>10 DEF RollBack, Service
<1>11. CASE Pause
  <2>1. cycle.service.consecutiveFailures + cycle.failures \in Nat
    BY DEF Service
  <2>. QED BY <1>11, <2>1 DEF Pause, Service
<1>12. CASE UpdateReplicaCounts
  BY <1>12 DEF UpdateReplicaCounts, Service
<1>13. ASSUME NEW p \in Pods, MarkOldPod(p) PROVE DataType' /\ CycleReady'
  BY <1>13 DEF MarkOldPod, Active
<1>14. ASSUME NEW p \in Pods, CreatePod(p) PROVE DataType' /\ CycleReady'
  <2>1. cycle.create - 1 \in 0 .. Replicas
    BY <1>14, RolloutAssumption DEF CreatePod
  <2>2. cycle.service.packVersion \in Versions
    BY DEF Service
  <2>. QED BY <1>14, <2>1, <2>2 DEF CreatePod, Active, Live
<1>. QED BY <1>1, <1>2, <1>3, <1>4, <1>5, <1>6, <1>7, <1>8, <1>9, <1>10, <1>11, <1>12, <1>13, <1>14
         DEF CycleStep

LEMMA OtherTypes ==
  ASSUME DataType, CycleReady,
         (\E p \in Pods : PodStep(p)) \/ BackoffEnds \/ PublishVersion \/ Resume
  PROVE  DataType' /\ CycleReady'
<1> USE DEF DataType, CycleReady, At, rows
<1>1. ASSUME NEW p \in Pods, PodStep(p) PROVE DataType' /\ CycleReady'
  <2>1. cycle' = cycle /\ service' = service /\ latest' = latest /\ podVersion' = podVersion
    BY <1>1 DEF PodStep, SchedulePod, PodRuns, PodFails, PodLost, FailureAges
  <2>2. /\ crashes' = crashes \/ crashes' = crashes + 1
        /\ faults' = faults \/ (faults < MaxFaults /\ faults' = faults + 1)
    BY <1>1 DEF PodStep, SchedulePod, PodRuns, PodFails, PodLost, FailureAges
  <2>3. crashes' \in Nat /\ faults' \in 0 .. MaxFaults
    BY <2>2, RolloutAssumption
  <2>4. podStatus' \in [Pods -> Active \cup {"none", "failed", "ended"}]
    BY <1>1 DEF PodStep, SchedulePod, PodRuns, PodFails, PodLost, FailureAges, Active, Live
  <2>5. process' \in [Pods -> {"none", "launched", "up"}]
    BY <1>1 DEF PodStep, SchedulePod, PodRuns, PodFails, PodLost, FailureAges
  <2>. QED BY <2>1, <2>3, <2>4, <2>5
<1>2. CASE BackoffEnds
  BY <1>2 DEF BackoffEnds, Service
<1>3. CASE PublishVersion
  BY <1>3, RolloutAssumption DEF PublishVersion, Versions
<1>4. CASE Resume
  BY <1>4 DEF Resume, Service
<1>. QED BY <1>1, <1>2, <1>3, <1>4

LEMMA StepTypes == TypeInv /\ [Next]_vars => TypeInv'
<1> SUFFICES ASSUME TypeInv, [Next]_vars PROVE TypeInv'
  OBVIOUS
<1>1. LoopTypeOK' /\ LoopTypeOK /\ DataType /\ CycleReady
  BY LoopTypes, StepIsLoops, TypeSplit DEF TypeInv
<1>2. DataType' /\ CycleReady'
  <2>1. CASE Next
    BY <1>1, <2>1, CycleTypes, OtherTypes DEF Next
  <2>2. CASE UNCHANGED vars
    BY <1>1, <2>2 DEF vars, data, rows, DataType, CycleReady, At
  <2>. QED BY <2>1, <2>2
<1>. QED BY <1>1, <1>2 DEF TypeInv, TypeOK, DataType, Cycle, Pcs

LEMMA TypesAlways == Spec => []TypeInv
BY InitTypes, StepTypes, PTL DEF Spec

(* Every variable keeps its type, and the counts stay in their bounds: no  *)
(* cycle creates more pods than are missing, and no count of failures,     *)
(* ready pods or attempts leaves its range.                                *)
THEOREM TypeCorrect == Spec => []TypeOK
<1>1. TypeInv => TypeOK
  BY DEF TypeInv
<1>. QED BY <1>1, TypesAlways, PTL

-----------------------------------------------------------------------------
(* No trigger of a reconnecting node is lost, whatever cycles, ticks,      *)
(* stops and restarts of the controller come between.                      *)
THEOREM TriggersAreKept == Spec => []NoLostTrigger
<1>1. Init => NoLostTrigger
  BY DEF Init, LoopInit, NoLostTrigger
<1>2. NoLostTrigger /\ [Next]_vars => NoLostTrigger'
  BY LoopRemembers, StepIsLoops
<1>. QED BY <1>1, <1>2, PTL DEF Spec

(* Whatever the cycle does, cycles begin and end as ReconcileLoop says.     *)
THEOREM LoopIsKept == Spec => LoopSpec
<1>1. Init => LoopInit
  BY DEF Init
<1>2. [Next]_vars => [LoopStep \/ CycleEnds]_loopVars
  BY StepIsLoops
<1>. QED BY <1>1, <1>2, PTL DEF Spec, LoopSpec

-----------------------------------------------------------------------------
(* Failures *)

Blameless(s) ==
  /\ s.consecutiveFailures = 0 /\ s.failedVersion = None
  /\ ~ s.paused /\ ~ s.backoff

(* The row, the cycle's copy and the cycle's findings. *)
Clean ==
  crashes = 0 => /\ Blameless(service) /\ Blameless(cycle.service)
                 /\ RecentFailures = {} /\ cycle.failures = 0
                 /\ cycle.pc \notin {"clear", "count", "rollback", "pause"}

LEMMA InitClean == Init => Clean
BY DEF Init, Clean, Blameless, RecentFailures, NoCycle, NewService

(* A cycle that sees no failure blames nobody. *)
LEMMA VerdictClean ==
  ASSUME Blameless(cycle.service), RecentFailures = {}, NEW running
  PROVE  Verdict(running) = "create"
BY DEF Verdict, Blameless

LEMMA StepClean == TypeInv /\ Clean /\ [Next]_vars => Clean'
<1> SUFFICES ASSUME TypeInv, Clean, [Next]_vars, crashes' = 0 PROVE Clean'
  BY DEF Clean
<1>0. DataType /\ cycle \in Cycle /\ service \in Service
  BY TypeSplit DEF TypeInv, DataType
<1>1. crashes = 0
  <2>1. crashes \in Nat /\ (crashes' = crashes \/ crashes' = crashes + 1)
    BY <1>0 DEF DataType, Next, Loop, Finish, CycleStep, ListServices, ReadLatest, Upgrade,
       ListOldPods, ListPods, ClearFailures, CountFailures, RollBack, Pause, UpdateReplicaCounts,
       MarkOldPod, CreatePod, PodStep, SchedulePod, PodRuns, PodFails, PodLost, FailureAges,
       BackoffEnds, PublishVersion, Resume, vars, data
  <2>. QED BY <2>1
<1>2. /\ Blameless(service) /\ Blameless(cycle.service) /\ RecentFailures = {}
      /\ cycle.failures = 0 /\ cycle.pc \notin {"clear", "count", "rollback", "pause"}
  BY <1>1 DEF Clean
<1> USE <1>0, <1>2 DEF Clean, Blameless, RecentFailures, Cycle, At, rows
<1>3. CASE Loop
  BY <1>3 DEF Loop, NoCycle, NewService
<1>4. CASE Finish
  BY <1>4 DEF Finish, NoCycle, NewService
<1>5. CASE ListServices
  BY <1>5 DEF ListServices
<1>6. CASE ReadLatest
  BY <1>6 DEF ReadLatest
<1>7. CASE Upgrade
  BY <1>7 DEF Upgrade, Service
<1>8. CASE ListOldPods \/ \E p \in Pods : MarkOldPod(p)
  <2>1. cycle'.pc \in {cycle.next, "mark"}
    BY <1>8 DEF ListOldPods, MarkOldPod
  <2>2. cycle'.service = cycle.service /\ cycle'.failures = cycle.failures
    BY <1>8 DEF ListOldPods, MarkOldPod
  <2>3. \A p \in Pods : podStatus'[p] \in {podStatus[p], "stopping"}
    BY <1>8 DEF ListOldPods, MarkOldPod, DataType
  <2>4. service' = service
    BY <1>8 DEF ListOldPods, MarkOldPod
  <2>. QED BY <2>1, <2>2, <2>3, <2>4
<1>9. CASE ListPods
  BY <1>9, VerdictClean, FS_EmptySet DEF ListPods
<1>10. CASE ClearFailures \/ CountFailures \/ RollBack \/ Pause
  BY <1>10 DEF ClearFailures, CountFailures, RollBack, Pause
<1>11. CASE UpdateReplicaCounts
  BY <1>11 DEF UpdateReplicaCounts, Service
<1>12. CASE \E p \in Pods : CreatePod(p)
  BY <1>12 DEF CreatePod, DataType
<1>13. CASE \E p \in Pods : PodStep(p)
  BY <1>13, <1>1 DEF PodStep, SchedulePod, PodRuns, PodFails, PodLost, FailureAges, DataType
<1>14. CASE BackoffEnds \/ PublishVersion \/ Resume
  BY <1>14 DEF BackoffEnds, PublishVersion, Resume, Service
<1>15. CASE UNCHANGED vars
  BY <1>15 DEF vars, data
<1>. QED BY <1>3, <1>4, <1>5, <1>6, <1>7, <1>8, <1>9, <1>10, <1>11, <1>12, <1>13, <1>14, <1>15
         DEF Next, CycleStep

(* As long as no pod failed by itself, no version is blamed and no service *)
(* is paused, however many pods were lost, stopped or replaced.            *)
THEOREM LostPodsAreNotBlamed == Spec => []BlamesOnlyCrashes
<1>1. Clean => BlamesOnlyCrashes
  BY DEF Clean, BlamesOnlyCrashes, Blameless
<1>. QED BY <1>1, InitClean, StepClean, TypesAlways, PTL DEF Spec

-----------------------------------------------------------------------------
(* Moves of the version *)

(* The copy is as good as the row for what follows the listing of pods. *)
Known(copy, row) ==
  /\ copy.packVersion <= row.packVersion
  /\ copy.lastSuccessfulVersion # None => row.lastSuccessfulVersion = copy.lastSuccessfulVersion

(* What the copy a cycle decides on still says of the row. *)
Sync ==
  /\ service.packVersion <= latest
  /\ service.lastSuccessfulVersion # None
       => service.lastSuccessfulVersion <= service.packVersion
  /\ cycle.pc \in {"latest", "upgrade"} =>
       /\ cycle.service.packVersion = service.packVersion
       /\ cycle.service.lastSuccessfulVersion = service.lastSuccessfulVersion
       /\ cycle.service.failedVersion = service.failedVersion
       /\ service.backoff => cycle.service.backoff
  /\ cycle.pc = "upgrade" =>
       /\ service.packVersion <= cycle.version /\ cycle.version <= latest
       /\ cycle.service.backoff => cycle.service.failedVersion # cycle.version
  /\ cycle.pc \in {"pods", "clear", "count", "rollback", "pause"}
       => Known(cycle.service, service)
  /\ cycle.pc \in {"rolling", "mark"} /\ cycle.next = "pods" => Known(cycle.service, service)
  /\ cycle.pc = "rollback" =>
       cycle.service.lastSuccessfulVersion \notin {None, cycle.service.packVersion}

LEMMA InitSync == Init => Sync
BY DEF Init, Sync, NoCycle, NewService

(* The versions a step compares are numbers. *)
LEMMA VersionTypes ==
  ASSUME TypeInv
  PROVE  /\ Versions \subseteq Nat /\ None \notin Versions
         /\ latest \in Versions /\ service \in Service /\ cycle \in Cycle
         /\ cycle.service \in Service
         /\ service.packVersion \in Versions /\ cycle.service.packVersion \in Versions
         /\ service.lastSuccessfulVersion \in Versions \cup {None}
         /\ cycle.service.lastSuccessfulVersion \in Versions \cup {None}
         /\ cycle.pc = "upgrade" => cycle.version \in Versions
<1>1. DataType /\ CycleReady
  BY TypeSplit DEF TypeInv
<1>2. Versions \subseteq Nat
  BY RolloutAssumption DEF Versions
<1>. QED BY <1>1, <1>2, RolloutAssumption DEF DataType, CycleReady, At, Cycle, Service

LEMMA StepSync == TypeInv /\ Sync /\ [Next]_vars => Sync'
<1> SUFFICES ASSUME TypeInv, Sync, [Next]_vars PROVE Sync'
  OBVIOUS
<1> USE VersionTypes DEF Sync, Known, At, rows
<1>3. CASE Loop
  BY <1>3 DEF Loop, NoCycle
<1>4. CASE Finish
  BY <1>4 DEF Finish, NoCycle
<1>5. CASE ListServices
  BY <1>5 DEF ListServices, Cycle
<1>6. CASE ReadLatest
  BY <1>6 DEF ReadLatest, isInFailureBackoff, Cycle
<1>7. CASE Upgrade
  BY <1>7 DEF Upgrade, Service, Cycle
<1>8. CASE ListOldPods \/ \E p \in Pods : MarkOldPod(p)
  <2>1. cycle'.pc \in {cycle.next, "mark"} /\ cycle.pc \in {"rolling", "mark"}
    BY <1>8 DEF ListOldPods, MarkOldPod, Cycle
  <2>2. cycle'.service = cycle.service /\ cycle'.next = cycle.next
    BY <1>8 DEF ListOldPods, MarkOldPod, Cycle
  <2>3. service' = service /\ latest' = latest /\ cycle.next \in {"pods", "end"}
    BY <1>8 DEF ListOldPods, MarkOldPod, Cycle
  <2>4. Known(cycle.service, service) \/ cycle.next = "end"
    BY <2>1, <2>3
  <2>. QED BY <2>1, <2>2, <2>3, <2>4
<1>9. CASE ListPods
  <2>1. PICK running : cycle'.pc = Verdict(running)
    BY <1>9 DEF ListPods, Cycle
  <2>2. cycle'.service = cycle.service /\ service' = service /\ latest' = latest
    BY <1>9 DEF ListPods, Cycle
  <2>3. /\ Verdict(running) \in {"clear", "count", "rollback", "pause", "create"}
        /\ Verdict(running) = "rollback" =>
             cycle.service.lastSuccessfulVersion \notin {None, cycle.service.packVersion}
    BY DEF Verdict
  <2>. QED BY <1>9, <2>1, <2>2, <2>3 DEF ListPods
<1>10. CASE ClearFailures
  BY <1>10 DEF ClearFailures, Service, Cycle
<1>11. CASE CountFailures \/ Pause
  <2>1. /\ service'.packVersion = service.packVersion
        /\ service'.lastSuccessfulVersion = service.lastSuccessfulVersion
    BY <1>11 DEF CountFailures, Pause, Service
  <2>2. cycle'.pc \in {"create", "end"}
    BY <1>11 DEF CountFailures, Pause, Cycle
  <2>3. latest' = latest
    BY <1>11 DEF CountFailures, Pause
  <2>. QED BY <2>1, <2>2, <2>3
<1>12. CASE RollBack
  BY <1>12 DEF RollBack, Service, Cycle
<1>13. CASE UpdateReplicaCounts
  BY <1>13 DEF UpdateReplicaCounts, Service, Cycle
<1>14. CASE \E p \in Pods : CreatePod(p)
  BY <1>14 DEF CreatePod, Cycle
<1>15. CASE \E p \in Pods : PodStep(p)
  BY <1>15 DEF PodStep, SchedulePod, PodRuns, PodFails, PodLost, FailureAges
<1>16. CASE BackoffEnds \/ Resume
  BY <1>16 DEF BackoffEnds, Resume, Service
<1>17. CASE PublishVersion
  BY <1>17 DEF PublishVersion
<1>18. CASE UNCHANGED vars
  BY <1>18 DEF vars, data
<1>. QED BY <1>3, <1>4, <1>5, <1>6, <1>7, <1>8, <1>9, <1>10, <1>11, <1>12, <1>13, <1>14, <1>15,
            <1>16, <1>17, <1>18 DEF Next, CycleStep

(* Only an upgrade and a rollback move the version. *)
LEMMA OthersKeepVersion ==
  ASSUME TypeInv, [Next]_vars, ~ Upgrade, ~ RollBack
  PROVE  service'.packVersion = service.packVersion
<1> USE VersionTypes DEF Service, rows
<1>1. CASE ClearFailures \/ CountFailures \/ Pause \/ UpdateReplicaCounts \/ BackoffEnds \/ Resume
  BY <1>1 DEF ClearFailures, CountFailures, Pause, UpdateReplicaCounts, BackoffEnds, Resume
<1>2. CASE UNCHANGED vars
  BY <1>2 DEF vars, data
<1>. QED BY <1>1, <1>2 DEF Next, CycleStep, Loop, Finish, ListServices, ReadLatest, ListOldPods,
            ListPods, MarkOldPod, CreatePod, PodStep, SchedulePod, PodRuns, PodFails, PodLost,
            FailureAges, PublishVersion

(* A service is never moved to a version it backs off from, though every   *)
(* decision is taken on a copy: what the copy says of the versions cannot  *)
(* have changed when the decision is written.                              *)
THEOREM FailedVersionIsAvoided == Spec => AvoidsFailedVersion
<1>1. TypeInv /\ Sync /\ [Next]_vars =>
        [/\ service.packVersion < service'.packVersion /\ service.backoff
              => service'.packVersion # service.failedVersion
         /\ service.packVersion > service'.packVersion
              => service'.backoff /\ service'.failedVersion \notin {None, service'.packVersion}]_vars
  <2> SUFFICES ASSUME TypeInv, Sync, [Next]_vars
               PROVE  /\ service.packVersion < service'.packVersion /\ service.backoff
                           => service'.packVersion # service.failedVersion
                      /\ service.packVersion > service'.packVersion
                           => /\ service'.backoff
                              /\ service'.failedVersion \notin {None, service'.packVersion}
    OBVIOUS
  <2> USE VersionTypes
  <2>1. CASE Upgrade
    BY <2>1 DEF Upgrade, Sync, At, Service
  <2>2. CASE RollBack
    BY <2>2 DEF RollBack, Sync, Known, At, Service
  <2>3. CASE ~ Upgrade /\ ~ RollBack
    BY <2>3, OthersKeepVersion
  <2>. QED BY <2>1, <2>2, <2>3
<1>. QED BY <1>1, InitSync, StepSync, TypesAlways, PTL DEF Spec, AvoidsFailedVersion

(* Service, pods and cycle keep their types, and no trigger is forgotten. *)
THEOREM RolloutIsSafe == Spec => []RolloutSafe
BY TypeCorrect, TriggersAreKept, PTL DEF RolloutSafe

=============================================================================
