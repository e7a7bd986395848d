---------------------------- MODULE PodFleetProofs ----------------------------
(***************************************************************************)
(* Proofs about PodFleet, for any nodes, pods, replicas and faults.        *)
(***************************************************************************)
EXTENDS PodFleet, FiniteSetTheorems, SequenceTheorems, TLAPS

(* Conjuncts of TypeOK that most steps leave alone, one by one.            *)
RowTypes ==
  /\ podStatus \in [Pods -> Active \cup Terminal \cup {"none"}]
  /\ podNode \in [Pods -> Nodes \cup {None}]
  /\ revived \in SUBSET Pods

NodeTypes ==
  /\ connected \in SUBSET Nodes
  /\ local \in [Nodes -> [Pods -> {"none", "running", "stopping"}]]
  /\ toNode \in [Nodes -> Seq(Message)]

PassType ==
  pass \in [pc : {"idle", "pods", "nodes", "create", "daemon", "deploy", "mark", "stop"},
            want : 0 .. MaxReplicas, create : 0 .. MaxReplicas,
            remove : SUBSET [pod : Pods, node : Nodes \cup {None}],
            nodes : SUBSET Nodes, pod : Pods \cup {None}, node : Nodes \cup {None}]

RoundType ==
  round \in [pc : {"idle", "assign", "deploy"}, pods : SUBSET Pods, nodes : SUBSET Nodes,
             pod : Pods \cup {None}, node : Nodes \cup {None}]

DeletionType ==
  deletion \in [pc : {"idle", "stop", "tell", "delete"},
                pod : Pods \cup {None}, node : Nodes \cup {None}]

BoundTypes ==
  /\ replicas \in 0 .. MaxReplicas
  /\ faults \in 0 .. MaxFaults

UpdateType == updates \in SUBSET Update

(* What is written to the status of a row, whoever writes it.              *)
Written == Reported \cup {"evicted"}

LEMMA TypeParts ==
  TypeOK <=> /\ RowTypes /\ NodeTypes /\ PassType /\ RoundType /\ DeletionType /\ BoundTypes
             /\ UpdateType
  BY DEF TypeOK, RowTypes, NodeTypes, PassType, RoundType, DeletionType, BoundTypes, UpdateType

LEMMA InitTypes == Init => TypeOK
<1> SUFFICES ASSUME Init PROVE TypeOK
  OBVIOUS
<1> USE FleetAssumption DEF Init
<1>1. RowTypes
  BY DEF RowTypes, Active
<1>2. NodeTypes
  BY DEF NodeTypes
<1>3. PassType
  BY DEF PassType, NoPass
<1>4. RoundType
  BY DEF RoundType, NoRound
<1>5. DeletionType
  BY DEF DeletionType, NoDeletion
<1>6. BoundTypes /\ UpdateType
  BY DEF BoundTypes, UpdateType
<1>. QED BY <1>1, <1>2, <1>3, <1>4, <1>5, <1>6, TypeParts

(* A step that has pods and nodes to work on has them.                     *)
PassTargets ==
  /\ pass.pc \in {"deploy", "stop"} => pass.pod \in Pods
  /\ pass.pc = "deploy" => pass.node \in Nodes

RoundTargets == round.pc = "deploy" => round.pod \in Pods /\ round.node \in Nodes

DeletionTargets == deletion.pc # "idle" => deletion.pod \in Pods

Targets == PassTargets /\ RoundTargets /\ DeletionTargets

FleetTypes == TypeOK /\ Targets

-----------------------------------------------------------------------------
LEMMA WriteTypes ==
  ASSUME NEW p \in Pods, NEW s \in Written, WriteStatus(p, s), RowTypes
  PROVE  RowTypes'
  BY DEF WriteStatus, RowTypes, Reported, Written, Active, Terminal

LEMMA InsertTypes ==
  ASSUME NEW p \in Pods, NEW s \in Active, NEW n \in Nodes \cup {None}, InsertRow(p, s, n),
         RowTypes
  PROVE  RowTypes'
  BY DEF InsertRow, RowTypes

LEMMA SendTypes ==
  ASSUME NEW n, NEW type \in {"deploy", "stop"}, NEW p \in Pods, Send(n, type, p),
         UNCHANGED <<connected, local>>, NodeTypes
  PROVE  NodeTypes'
<1>1. CASE n \notin connected
  BY <1>1 DEF Send, NodeTypes
<1>2. CASE n \in connected
  <2>1. [type |-> type, pod |-> p] \in Message
    BY DEF Message
  <2>2. n \in Nodes /\ toNode[n] \in Seq(Message)
    BY <1>2 DEF NodeTypes
  <2>3. Append(toNode[n], [type |-> type, pod |-> p]) \in Seq(Message)
    BY <2>1, <2>2
  <2>. QED BY <2>2, <2>3, <1>2 DEF Send, NodeTypes
<1>. QED BY <1>1, <1>2

LEMMA RowSteps ==
  FleetTypes /\ [Next]_vars => RowTypes'
<1> SUFFICES ASSUME FleetTypes, [Next]_vars PROVE RowTypes'
  OBVIOUS
<1>0. RowTypes /\ PassType /\ UpdateType /\ DeletionType /\ RoundType
  BY TypeParts DEF FleetTypes
<1>1. ASSUME UNCHANGED rows PROVE RowTypes'
  BY <1>0, <1>1 DEF rows, RowTypes
<1>2. ASSUME PassStep PROVE RowTypes'
  <2>1. ASSUME NEW p \in Pods, CreatePod(p) PROVE RowTypes'
    BY <1>0, <2>1, InsertTypes DEF CreatePod, Active
  <2>2. ASSUME NEW p \in Pods, NEW n \in Nodes, CreateDaemonPod(n, p) PROVE RowTypes'
    BY <1>0, <2>2, InsertTypes DEF CreateDaemonPod, Active
  <2>3. ASSUME NEW r \in pass.remove, MarkStopping(r) PROVE RowTypes'
    <3>1. r.pod \in Pods
      BY <1>0 DEF PassType
    <3>. QED BY <3>1, <1>0, <2>3, WriteTypes DEF MarkStopping, Reported, Written
  <2>4. CASE PassStarts \/ PassLists \/ PassListsNodes \/ DeployDaemonPod \/ StopExcess \/ PassEnds
    BY <2>4, <1>1 DEF PassStarts, PassLists, PassListsNodes, DeployDaemonPod, StopExcess, PassEnds
  <2>. QED BY <1>2, <2>1, <2>2, <2>3, <2>4 DEF PassStep
<1>3. ASSUME RoundStep PROVE RowTypes'
  <2>1. ASSUME NEW p \in Pods, NEW n \in Nodes, RoundAssigns(p, n) PROVE RowTypes'
    BY <1>0, <2>1 DEF RoundAssigns, SchedulePod, RowTypes, Active
  <2>2. CASE RoundStarts \/ RoundDeploys \/ RoundEnds \/ \E p \in Pods : RoundSkips(p)
    BY <2>2, <1>1 DEF RoundStarts, RoundDeploys, RoundEnds, RoundSkips
  <2>. QED BY <1>3, <2>1, <2>2 DEF RoundStep
<1>4. ASSUME UpdateStep PROVE RowTypes'
  <2>1. ASSUME NEW u \in updates, WriteUpdate(u) PROVE RowTypes'
    <3>1. u.pod \in Pods /\ u.status \in Reported
      BY <1>0 DEF UpdateType, Update
    <3>. QED BY <3>1, <1>0, <2>1, WriteTypes DEF WriteUpdate, Written
  <2>2. ASSUME NEW u \in updates, CheckUpdate(u) PROVE RowTypes'
    BY <2>2, <1>1 DEF CheckUpdate
  <2>. QED BY <1>4, <2>1, <2>2 DEF UpdateStep
<1>5. ASSUME DeletionStep PROVE RowTypes'
  <2>0. deletion.pc # "idle" => deletion.pod \in Pods
    BY DEF FleetTypes, Targets, PassTargets, RoundTargets, DeletionTargets
  <2>1. CASE DeleteStops
    BY <2>0, <2>1, <1>0, WriteTypes DEF DeleteStops, Reported, Written
  <2>2. CASE DeleteTells
    BY <2>2, <1>1 DEF DeleteTells
  <2>3. CASE DeleteRow
    BY <2>0, <2>3, <1>0 DEF DeleteRow, RowTypes
  <2>. QED BY <1>5, <2>1, <2>2, <2>3 DEF DeletionStep
<1>6. ASSUME NEW n \in Nodes, NodeStep(n) PROVE RowTypes'
  BY <1>6, <1>1 DEF NodeStep, HandleDeploy, HandleStop, StopCompletes
<1>7. ASSUME NEW n \in Nodes, RevokePods(n) \/ Reconnect(n) PROVE RowTypes'
  BY <1>0, <1>7 DEF RevokePods, Reconnect, RowTypes, Terminal
<1>8. ASSUME NEW n \in Nodes, NEW crash \in BOOLEAN, Disconnect(n, crash) PROVE RowTypes'
  BY <1>8, <1>1 DEF Disconnect
<1>9. ASSUME NEW n \in Nodes, NEW p \in Pods, PodExits(n, p) PROVE RowTypes'
  BY <1>9, <1>1 DEF PodExits
<1>10. ASSUME NEW r, ScaleService(r) PROVE RowTypes'
  BY <1>10, <1>1 DEF ScaleService
<1>11. ASSUME NEW p \in Pods, DeleteReads(p) PROVE RowTypes'
  BY <1>11, <1>1 DEF DeleteReads
<1>12. ASSUME NEW p \in Pods, EvictPod(p) PROVE RowTypes'
  BY <1>12, <1>0, WriteTypes DEF EvictPod, Written
<1>13. CASE UNCHANGED vars
  BY <1>13, <1>1 DEF vars
<1>. QED BY <1>2, <1>3, <1>4, <1>5, <1>6, <1>7, <1>8, <1>9, <1>10, <1>11, <1>12, <1>13 DEF Next

LEMMA ReceiveTypes ==
  ASSUME NEW n \in Nodes, NEW type, Receive(n, type), NodeTypes
  PROVE  /\ Head(toNode[n]).pod \in Pods
         /\ toNode' \in [Nodes -> Seq(Message)]
<1>1. toNode[n] \in Seq(Message) /\ toNode[n] # <<>>
  BY DEF Receive, NodeTypes
<1>2. Head(toNode[n]) \in Message /\ Tail(toNode[n]) \in Seq(Message)
  BY <1>1, HeadTailProperties
<1>. QED BY <1>2 DEF Receive, NodeTypes, Message

LEMMA LocalTypes ==
  ASSUME NEW n \in Nodes, NEW p \in Pods, NEW s \in {"none", "running", "stopping"},
         NEW f \in [Nodes -> [Pods -> {"none", "running", "stopping"}]]
  PROVE  [f EXCEPT ![n][p] = s] \in [Nodes -> [Pods -> {"none", "running", "stopping"}]]
  OBVIOUS

LEMMA NodeSteps ==
  FleetTypes /\ [Next]_vars => NodeTypes'
<1> SUFFICES ASSUME FleetTypes, [Next]_vars PROVE NodeTypes'
  OBVIOUS
<1>0. NodeTypes /\ Targets
  BY TypeParts DEF FleetTypes
<1>1. ASSUME UNCHANGED nodeVars PROVE NodeTypes'
  BY <1>0, <1>1 DEF nodeVars, NodeTypes
<1>2. ASSUME PassStep PROVE NodeTypes'
  <2>1. CASE DeployDaemonPod
    <3>1. CASE UNCHANGED toNode
      BY <3>1, <2>1, <1>1 DEF DeployDaemonPod, nodeVars
    <3>2. CASE Send(pass.node, "deploy", pass.pod)
      BY <3>2, <2>1, <1>0, SendTypes DEF DeployDaemonPod, Targets, PassTargets
    <3>. QED BY <2>1, <3>1, <3>2 DEF DeployDaemonPod
  <2>2. CASE StopExcess
    <3>1. CASE UNCHANGED toNode
      BY <3>1, <2>2, <1>1 DEF StopExcess, nodeVars
    <3>2. CASE Send(pass.node, "stop", pass.pod)
      BY <3>2, <2>2, <1>0, SendTypes DEF StopExcess, Targets, PassTargets
    <3>. QED BY <2>2, <3>1, <3>2 DEF StopExcess
  <2>3. CASE \/ PassStarts \/ PassLists \/ PassListsNodes \/ PassEnds
             \/ \E p \in Pods : CreatePod(p) \/ \E n \in Nodes : CreateDaemonPod(n, p)
             \/ \E r \in pass.remove : MarkStopping(r)
    BY <2>3, <1>1 DEF PassStarts, PassLists, PassListsNodes, PassEnds, CreatePod, CreateDaemonPod,
                      MarkStopping
  <2>. QED BY <1>2, <2>1, <2>2, <2>3 DEF PassStep
<1>3. ASSUME RoundStep PROVE NodeTypes'
  <2>1. CASE RoundDeploys
    <3>1. CASE UNCHANGED toNode
      BY <3>1, <2>1, <1>1 DEF RoundDeploys, nodeVars
    <3>2. CASE Send(round.node, "deploy", round.pod)
      BY <3>2, <2>1, <1>0, SendTypes DEF RoundDeploys, Targets, RoundTargets
    <3>. QED BY <2>1, <3>1, <3>2 DEF RoundDeploys
  <2>2. CASE \/ RoundStarts \/ RoundEnds
             \/ \E p \in Pods : RoundSkips(p) \/ \E n \in Nodes : RoundAssigns(p, n)
    BY <2>2, <1>1 DEF RoundStarts, RoundEnds, RoundSkips, RoundAssigns
  <2>. QED BY <1>3, <2>1, <2>2 DEF RoundStep
<1>4. ASSUME UpdateStep PROVE NodeTypes'
  BY <1>4, <1>1 DEF UpdateStep, CheckUpdate, WriteUpdate
<1>5. ASSUME DeletionStep PROVE NodeTypes'
  <2>1. CASE DeleteTells
    BY <2>1, <1>0, SendTypes DEF DeleteTells, Targets, DeletionTargets
  <2>2. CASE DeleteStops \/ DeleteRow
    BY <2>2, <1>1 DEF DeleteStops, DeleteRow
  <2>. QED BY <1>5, <2>1, <2>2 DEF DeletionStep
<1>6. ASSUME NEW n \in Nodes, NodeStep(n) PROVE NodeTypes'
  <2>1. CASE HandleDeploy(n)
    <3>1. Head(toNode[n]).pod \in Pods /\ toNode' \in [Nodes -> Seq(Message)]
      BY <2>1, <1>0, ReceiveTypes DEF HandleDeploy
    <3>2. local \in [Nodes -> [Pods -> {"none", "running", "stopping"}]]
      BY <1>0 DEF NodeTypes
    <3>3. PICK p \in Pods : p = Head(toNode[n]).pod
      BY <3>1
    <3>4. \/ UNCHANGED local
           \/ local' = [local EXCEPT ![n][p] = "running"]
           \/ local' = [local EXCEPT ![n][p] = "none"]
      BY <2>1, <3>3 DEF HandleDeploy
    <3>5. local' \in [Nodes -> [Pods -> {"none", "running", "stopping"}]]
      <4>1. CASE UNCHANGED local
        BY <4>1, <3>2
      <4>2. CASE local' = [local EXCEPT ![n][p] = "running"]
        BY <4>2, <3>2, <3>3, LocalTypes
      <4>3. CASE local' = [local EXCEPT ![n][p] = "none"]
        BY <4>3, <3>2, <3>3, LocalTypes
      <4>. QED BY <3>4, <4>1, <4>2, <4>3
    <3>6. UNCHANGED connected
      BY <2>1 DEF HandleDeploy
    <3>. QED BY <3>1, <3>5, <3>6, <1>0 DEF NodeTypes
  <2>2. CASE HandleStop(n)
    <3>1. Head(toNode[n]).pod \in Pods /\ toNode' \in [Nodes -> Seq(Message)]
      BY <2>2, <1>0, ReceiveTypes DEF HandleStop
    <3>2. local \in [Nodes -> [Pods -> {"none", "running", "stopping"}]]
      BY <1>0 DEF NodeTypes
    <3>3. PICK p \in Pods : p = Head(toNode[n]).pod
      BY <3>1
    <3>4. \/ UNCHANGED local
           \/ local' = [local EXCEPT ![n][p] = "stopping"]
      BY <2>2, <3>3 DEF HandleStop
    <3>5. local' \in [Nodes -> [Pods -> {"none", "running", "stopping"}]]
      <4>1. CASE UNCHANGED local
        BY <4>1, <3>2
      <4>2. CASE local' = [local EXCEPT ![n][p] = "stopping"]
        BY <4>2, <3>2, <3>3, LocalTypes
      <4>. QED BY <3>4, <4>1, <4>2
    <3>6. UNCHANGED connected
      BY <2>2 DEF HandleStop
    <3>. QED BY <3>1, <3>5, <3>6, <1>0 DEF NodeTypes
  <2>3. CASE \E p \in Pods : StopCompletes(n, p)
    BY <2>3, <1>0 DEF StopCompletes, NodeTypes
  <2>. QED BY <1>6, <2>1, <2>2, <2>3 DEF NodeStep
<1>7. ASSUME NEW n \in Nodes, RevokePods(n) PROVE NodeTypes'
  BY <1>7, <1>1 DEF RevokePods
<1>8. ASSUME NEW n \in Nodes, Reconnect(n) PROVE NodeTypes'
  <2>1. PICK stops \in [1 .. Cardinality(StalePods(n)) -> StalePods(n)] :
          toNode' = [toNode EXCEPT ![n] = [i \in DOMAIN stops |->
                                             [type |-> "stop", pod |-> stops[i]]]]
    BY <1>8 DEF Reconnect
  <2>2. Cardinality(StalePods(n)) \in Nat
    BY FleetAssumption, FS_Subset, FS_CardinalityType DEF StalePods, RunningOn
  <2>3. [i \in DOMAIN stops |-> [type |-> "stop", pod |-> stops[i]]]
           \in [1 .. Cardinality(StalePods(n)) -> Message]
    BY <2>1 DEF StalePods, RunningOn, Message
  <2>4. [i \in DOMAIN stops |-> [type |-> "stop", pod |-> stops[i]]] \in Seq(Message)
    BY <2>2, <2>3, SeqDef
  <2>. QED BY <2>1, <2>4, <1>8, <1>0 DEF Reconnect, NodeTypes
<1>9. ASSUME NEW n \in Nodes, NEW crash \in BOOLEAN, Disconnect(n, crash) PROVE NodeTypes'
  BY <1>9, <1>0 DEF Disconnect, NodeTypes
<1>10. ASSUME NEW n \in Nodes, NEW p \in Pods, PodExits(n, p) PROVE NodeTypes'
  BY <1>10, <1>0 DEF PodExits, NodeTypes
<1>11. ASSUME NEW r, ScaleService(r) PROVE NodeTypes'
  BY <1>11, <1>1 DEF ScaleService
<1>12. ASSUME NEW p \in Pods, DeleteReads(p) \/ EvictPod(p) PROVE NodeTypes'
  BY <1>12, <1>1 DEF DeleteReads, EvictPod
<1>13. CASE UNCHANGED vars
  BY <1>13, <1>1 DEF vars
<1>. QED BY <1>2, <1>3, <1>4, <1>5, <1>6, <1>7, <1>8, <1>9, <1>10, <1>11, <1>12, <1>13 DEF Next

LEMMA PassSteps ==
  FleetTypes /\ [Next]_vars => PassType' /\ PassTargets'
<1> SUFFICES ASSUME FleetTypes, [Next]_vars PROVE PassType' /\ PassTargets'
  OBVIOUS
<1>0. PassType /\ PassTargets /\ RowTypes /\ NodeTypes /\ BoundTypes
  BY TypeParts DEF FleetTypes, Targets
<1>1. ASSUME UNCHANGED pass PROVE PassType' /\ PassTargets'
  BY <1>0, <1>1 DEF PassType, PassTargets
<1>2. ASSUME PassStep PROVE PassType' /\ PassTargets'
  <2>1. CASE PassStarts
    <3>1. pass' = [pc |-> "pods", want |-> replicas, create |-> 0, remove |-> {}, nodes |-> {},
                   pod |-> None, node |-> None]
      BY <2>1 DEF PassStarts, NoPass
    <3>2. 0 \in 0 .. MaxReplicas /\ replicas \in 0 .. MaxReplicas
      BY <1>0, FleetAssumption DEF BoundTypes
    <3>. QED BY <3>1, <3>2 DEF PassType, PassTargets
  <2>2. CASE PassLists
    <3>1. CASE pass' = [pass EXCEPT !.pc = "nodes", !.nodes = {podNode[p] : p \in Counted} \ {None}]
      <4>1. {podNode[p] : p \in Counted} \ {None} \subseteq Nodes
        BY <1>0 DEF RowTypes, Counted
      <4>. QED BY <3>1, <4>1, <1>0 DEF PassType, PassTargets
    <3>2. CASE /\ pass.want > 0 /\ Cardinality(Counted) < pass.want
               /\ pass' = [pass EXCEPT !.pc = "create", !.create = pass.want - Cardinality(Counted)]
      <4>1. Cardinality(Counted) \in Nat
        BY FleetAssumption, FS_Subset, FS_CardinalityType DEF Counted
      <4>2. pass.want \in 0 .. MaxReplicas
        BY <1>0 DEF PassType
      <4>3. pass.want - Cardinality(Counted) \in 0 .. MaxReplicas
        BY <3>2, <4>1, <4>2, FleetAssumption
      <4>. QED BY <3>2, <4>3, <1>0 DEF PassType, PassTargets
    <3>3. ASSUME NEW S \in ExcessOf(pass.want),
                 pass' = [pass EXCEPT !.pc = "mark",
                                      !.remove = {[pod |-> p, node |-> podNode[p]] : p \in S}]
          PROVE  PassType' /\ PassTargets'
      <4>1. S \subseteq Pods
        BY DEF ExcessOf, Counted
      <4>2. {[pod |-> p, node |-> podNode[p]] : p \in S}
               \subseteq [pod : Pods, node : Nodes \cup {None}]
        BY <4>1, <1>0 DEF RowTypes
      <4>. QED BY <3>3, <4>2, <1>0 DEF PassType, PassTargets
    <3>. QED BY <2>2, <3>1, <3>2, <3>3 DEF PassLists
  <2>3. CASE PassListsNodes
    BY <2>3, <1>0 DEF PassListsNodes, PassType, PassTargets, NodeTypes
  <2>4. CASE DeployDaemonPod
    BY <2>4, <1>0 DEF DeployDaemonPod, PassType, PassTargets
  <2>5. CASE StopExcess
    BY <2>5, <1>0 DEF StopExcess, PassType, PassTargets
  <2>6. CASE PassEnds
    BY <2>6, <1>0, FleetAssumption DEF PassEnds, NoPass, PassType, PassTargets
  <2>7. ASSUME NEW p \in Pods, CreatePod(p) PROVE PassType' /\ PassTargets'
    BY <2>7, <1>0, FleetAssumption DEF CreatePod, PassType, PassTargets
  <2>8. ASSUME NEW p \in Pods, NEW n \in Nodes, CreateDaemonPod(n, p)
        PROVE  PassType' /\ PassTargets'
    BY <2>8, <1>0 DEF CreateDaemonPod, PassType, PassTargets
  <2>9. ASSUME NEW r \in pass.remove, MarkStopping(r) PROVE PassType' /\ PassTargets'
    <3>1. r \in [pod : Pods, node : Nodes \cup {None}]
      BY <1>0 DEF PassType
    <3>. QED BY <3>1, <2>9, <1>0 DEF MarkStopping, PassType, PassTargets
  <2>. QED BY <1>2, <2>1, <2>2, <2>3, <2>4, <2>5, <2>6, <2>7, <2>8, <2>9 DEF PassStep
<1>3. CASE UNCHANGED vars
  BY <1>3, <1>1 DEF vars
<1>. QED
  BY <1>1, <1>2, <1>3
  DEF Next, RoundStep, RoundStarts, RoundDeploys, RoundEnds, RoundSkips, RoundAssigns,
      UpdateStep, CheckUpdate, WriteUpdate, DeletionStep, DeleteStops, DeleteTells, DeleteRow,
      NodeStep, HandleDeploy, HandleStop, StopCompletes, RevokePods, Reconnect, Disconnect,
      PodExits, ScaleService, DeleteReads, EvictPod

LEMMA RoundSteps ==
  FleetTypes /\ [Next]_vars => RoundType' /\ RoundTargets'
<1> SUFFICES ASSUME FleetTypes, [Next]_vars PROVE RoundType' /\ RoundTargets'
  OBVIOUS
<1>0. RoundType /\ RoundTargets /\ NodeTypes
  BY TypeParts DEF FleetTypes, Targets
<1>1. ASSUME UNCHANGED round PROVE RoundType' /\ RoundTargets'
  BY <1>0, <1>1 DEF RoundType, RoundTargets
<1>2. ASSUME RoundStep PROVE RoundType' /\ RoundTargets'
  <2>1. CASE RoundStarts
    BY <2>1, <1>0 DEF RoundStarts, Pending, RoundType, RoundTargets, NodeTypes
  <2>2. CASE RoundDeploys
    BY <2>2, <1>0 DEF RoundDeploys, RoundType, RoundTargets
  <2>3. CASE RoundEnds
    BY <2>3 DEF RoundEnds, NoRound, RoundType, RoundTargets
  <2>4. ASSUME NEW p \in Pods, RoundSkips(p) PROVE RoundType' /\ RoundTargets'
    BY <2>4, <1>0 DEF RoundSkips, RoundType, RoundTargets
  <2>5. ASSUME NEW p \in Pods, NEW n \in Nodes, RoundAssigns(p, n)
        PROVE  RoundType' /\ RoundTargets'
    BY <2>5, <1>0 DEF RoundAssigns, RoundType, RoundTargets
  <2>. QED BY <1>2, <2>1, <2>2, <2>3, <2>4, <2>5 DEF RoundStep
<1>3. CASE UNCHANGED vars
  BY <1>3, <1>1 DEF vars
<1>. QED
  BY <1>1, <1>2, <1>3
  DEF Next, PassStep, PassStarts, PassLists, PassListsNodes, DeployDaemonPod, StopExcess, PassEnds,
      CreatePod, CreateDaemonPod, MarkStopping,
      UpdateStep, CheckUpdate, WriteUpdate, DeletionStep, DeleteStops, DeleteTells, DeleteRow,
      NodeStep, HandleDeploy, HandleStop, StopCompletes, RevokePods, Reconnect, Disconnect,
      PodExits, ScaleService, DeleteReads, EvictPod

LEMMA DeletionSteps ==
  FleetTypes /\ [Next]_vars => DeletionType' /\ DeletionTargets'
<1> SUFFICES ASSUME FleetTypes, [Next]_vars PROVE DeletionType' /\ DeletionTargets'
  OBVIOUS
<1>0. DeletionType /\ DeletionTargets /\ RowTypes
  BY TypeParts DEF FleetTypes, Targets
<1>1. ASSUME UNCHANGED deletion PROVE DeletionType' /\ DeletionTargets'
  BY <1>0, <1>1 DEF DeletionType, DeletionTargets
<1>2. ASSUME DeletionStep PROVE DeletionType' /\ DeletionTargets'
  BY <1>0, <1>2 DEF DeletionStep, DeleteStops, DeleteTells, DeleteRow, NoDeletion, DeletionType,
                    DeletionTargets
<1>3. ASSUME NEW p \in Pods, DeleteReads(p) PROVE DeletionType' /\ DeletionTargets'
  BY <1>0, <1>3 DEF DeleteReads, DeletionType, DeletionTargets, RowTypes
<1>4. CASE UNCHANGED vars
  BY <1>4, <1>1 DEF vars
<1>. QED
  BY <1>1, <1>2, <1>3, <1>4
  DEF Next, PassStep, PassStarts, PassLists, PassListsNodes, DeployDaemonPod, StopExcess, PassEnds,
      CreatePod, CreateDaemonPod, MarkStopping,
      RoundStep, RoundStarts, RoundDeploys, RoundEnds, RoundSkips, RoundAssigns,
      UpdateStep, CheckUpdate, WriteUpdate,
      NodeStep, HandleDeploy, HandleStop, StopCompletes, RevokePods, Reconnect, Disconnect,
      PodExits, ScaleService, EvictPod

LEMMA BoundSteps ==
  FleetTypes /\ [Next]_vars => BoundTypes'
<1> SUFFICES ASSUME FleetTypes, [Next]_vars PROVE BoundTypes'
  OBVIOUS
<1>0. BoundTypes
  BY TypeParts DEF FleetTypes
<1>1. ASSUME UNCHANGED <<replicas, faults>> PROVE BoundTypes'
  BY <1>0, <1>1 DEF BoundTypes
<1>2. ASSUME UNCHANGED replicas, faults < MaxFaults, faults' = faults + 1 PROVE BoundTypes'
  BY <1>0, <1>2, FleetAssumption DEF BoundTypes
<1>3. ASSUME NEW r \in 0 .. MaxReplicas, ScaleService(r) PROVE BoundTypes'
  BY <1>0, <1>3, FleetAssumption DEF BoundTypes, ScaleService
<1>4. ASSUME NEW n \in Nodes, NodeStep(n) PROVE BoundTypes'
  BY <1>1, <1>2, <1>4 DEF NodeStep, HandleDeploy, HandleStop, StopCompletes
<1>5. CASE UNCHANGED vars
  BY <1>5, <1>1 DEF vars
<1>. QED
  BY <1>1, <1>2, <1>3, <1>4, <1>5
  DEF Next, PassStep, PassStarts, PassLists, PassListsNodes, DeployDaemonPod, StopExcess, PassEnds,
      CreatePod, CreateDaemonPod, MarkStopping,
      RoundStep, RoundStarts, RoundDeploys, RoundEnds, RoundSkips, RoundAssigns,
      UpdateStep, CheckUpdate, WriteUpdate, DeletionStep, DeleteStops, DeleteTells, DeleteRow,
      RevokePods, Reconnect, Disconnect, PodExits, DeleteReads, EvictPod

LEMMA ReportTypes ==
  ASSUME NEW n, NEW p \in Pods, NEW S \in SUBSET Reported, Report(n, p, S), UpdateType
  PROVE  UpdateType'
  BY DEF Report, UpdateType, Update

LEMMA UpdateSteps ==
  FleetTypes /\ [Next]_vars => UpdateType'
<1> SUFFICES ASSUME FleetTypes, [Next]_vars PROVE UpdateType'
  OBVIOUS
<1>0. UpdateType /\ NodeTypes
  BY TypeParts DEF FleetTypes
<1>1. ASSUME UNCHANGED updates PROVE UpdateType'
  BY <1>0, <1>1 DEF UpdateType
<1>2. ASSUME NEW u \in updates, CheckUpdate(u) \/ WriteUpdate(u) PROVE UpdateType'
  BY <1>0, <1>2 DEF CheckUpdate, WriteUpdate, UpdateType, Update
<1>3. ASSUME NEW n \in Nodes, NodeStep(n) PROVE UpdateType'
  <2>1. CASE HandleDeploy(n)
    <3>1. Head(toNode[n]).pod \in Pods
      BY <2>1, <1>0, ReceiveTypes DEF HandleDeploy
    <3>. QED BY <3>1, <2>1, <1>0, <1>1, ReportTypes DEF HandleDeploy, Reported
  <2>2. CASE HandleStop(n)
    <3>1. Head(toNode[n]).pod \in Pods
      BY <2>2, <1>0, ReceiveTypes DEF HandleStop
    <3>. QED BY <3>1, <2>2, <1>0, <1>1, ReportTypes DEF HandleStop, Reported
  <2>3. ASSUME NEW p \in Pods, StopCompletes(n, p) PROVE UpdateType'
    BY <2>3, <1>0, ReportTypes DEF StopCompletes, Reported
  <2>. QED BY <1>3, <2>1, <2>2, <2>3 DEF NodeStep
<1>4. ASSUME NEW n \in Nodes, NEW p \in Pods, PodExits(n, p) PROVE UpdateType'
  BY <1>4, <1>0, ReportTypes DEF PodExits, Reported
<1>5. CASE UNCHANGED vars
  BY <1>5, <1>1 DEF vars
<1>. QED
  BY <1>1, <1>2, <1>3, <1>4, <1>5
  DEF Next, PassStep, PassStarts, PassLists, PassListsNodes, DeployDaemonPod, StopExcess, PassEnds,
      CreatePod, CreateDaemonPod, MarkStopping,
      RoundStep, RoundStarts, RoundDeploys, RoundEnds, RoundSkips, RoundAssigns,
      UpdateStep, DeletionStep, DeleteStops, DeleteTells, DeleteRow,
      RevokePods, Reconnect, Disconnect, ScaleService, DeleteReads, EvictPod

LEMMA FleetTypesHold == Spec => []FleetTypes
<1>1. Init => FleetTypes
  BY InitTypes DEF Init, NoPass, NoRound, NoDeletion, FleetTypes, Targets, PassTargets,
                   RoundTargets, DeletionTargets
<1>2. FleetTypes /\ [Next]_vars => FleetTypes'
  <2> SUFFICES ASSUME FleetTypes, [Next]_vars PROVE FleetTypes'
    OBVIOUS
  <2>1. /\ RowTypes' /\ NodeTypes' /\ PassType' /\ RoundType' /\ DeletionType' /\ BoundTypes'
        /\ UpdateType' /\ PassTargets' /\ RoundTargets' /\ DeletionTargets'
    BY RowSteps, NodeSteps, PassSteps, RoundSteps, DeletionSteps, BoundSteps, UpdateSteps
  <2>2. TypeOK'
    BY <2>1 DEF TypeOK, RowTypes, NodeTypes, PassType, RoundType, DeletionType, BoundTypes,
                UpdateType
  <2>. QED BY <2>1, <2>2 DEF FleetTypes, Targets
<1>. QED BY <1>1, <1>2, PTL DEF Spec

(* Every row, message, pass and round is of its type in every reachable    *)
(* state, for any number of nodes, pods, replicas and faults.              *)
THEOREM TypeCorrect == Spec => []TypeOK
<1>1. FleetTypes => TypeOK
  BY DEF FleetTypes
<1>. QED BY <1>1, FleetTypesHold, PTL

-----------------------------------------------------------------------------
(* What a step can do to the row of pod p: nothing; a new row; a node for  *)
(* a row that waited; a status of a node, a revocation or an eviction; no  *)
(* row.                                                                    *)
RowChange(p) ==
  \/ podStatus'[p] = podStatus[p] /\ podNode'[p] = podNode[p]
  \/ Unused(p) /\ podStatus'[p] = "pending" /\ podNode'[p] = None
  \/ Unused(p) /\ podStatus'[p] = "placed"
  \/ podStatus[p] = "pending" /\ podStatus'[p] = "placed"
  \/ podStatus[p] # "none" /\ podStatus'[p] \in Written /\ podNode'[p] = podNode[p]
  \/ podStatus'[p] = "none" /\ podNode'[p] = None

LEMMA WriteChanges ==
  ASSUME NEW q \in Pods, NEW s \in Written, WriteStatus(q, s), RowTypes, NEW p \in Pods
  PROVE  RowChange(p)
<1>1. podNode'[p] = podNode[p]
  BY DEF WriteStatus
<1>2. podStatus'[p] = IF p = q /\ podStatus[p] # "none" THEN s ELSE podStatus[p]
  BY DEF WriteStatus, RowTypes
<1>. QED BY <1>1, <1>2 DEF RowChange

LEMMA RowChanges ==
  ASSUME FleetTypes, [Next]_vars, NEW p \in Pods
  PROVE  RowChange(p)
<1>0. RowTypes /\ PassType /\ UpdateType /\ DeletionTargets
  BY TypeParts DEF FleetTypes, Targets
<1>1. ASSUME UNCHANGED <<podStatus, podNode>> PROVE RowChange(p)
  BY <1>1 DEF RowChange
<1>2. ASSUME PassStep PROVE RowChange(p)
  <2>1. ASSUME NEW q \in Pods, CreatePod(q) PROVE RowChange(p)
    BY <1>0, <2>1 DEF CreatePod, InsertRow, RowTypes, RowChange
  <2>2. ASSUME NEW q \in Pods, NEW n \in Nodes, CreateDaemonPod(n, q) PROVE RowChange(p)
    BY <1>0, <2>2 DEF CreateDaemonPod, InsertRow, RowTypes, RowChange
  <2>3. ASSUME NEW r \in pass.remove, MarkStopping(r) PROVE RowChange(p)
    <3>1. r.pod \in Pods
      BY <1>0 DEF PassType
    <3>. QED BY <3>1, <1>0, <2>3, WriteChanges DEF MarkStopping, Reported, Written
  <2>. QED
    BY <1>1, <1>2, <2>1, <2>2, <2>3
    DEF PassStep, PassStarts, PassLists, PassListsNodes, DeployDaemonPod, StopExcess, PassEnds, rows
<1>3. ASSUME RoundStep PROVE RowChange(p)
  <2>1. ASSUME NEW q \in Pods, NEW n \in Nodes, RoundAssigns(q, n) PROVE RowChange(p)
    BY <1>0, <2>1 DEF RoundAssigns, SchedulePod, RowTypes, RowChange
  <2>. QED
    BY <1>1, <1>3, <2>1 DEF RoundStep, RoundStarts, RoundDeploys, RoundEnds, RoundSkips, rows
<1>4. ASSUME UpdateStep PROVE RowChange(p)
  <2>1. ASSUME NEW u \in updates, WriteUpdate(u) PROVE RowChange(p)
    <3>1. u.pod \in Pods /\ u.status \in Reported
      BY <1>0 DEF UpdateType, Update
    <3>. QED BY <3>1, <1>0, <2>1, WriteChanges DEF WriteUpdate, Written
  <2>. QED BY <1>1, <1>4, <2>1 DEF UpdateStep, CheckUpdate, rows
<1>5. ASSUME DeletionStep PROVE RowChange(p)
  <2>1. CASE DeleteStops
    <3>1. deletion.pod \in Pods
      BY <2>1, <1>0 DEF DeleteStops, DeletionTargets
    <3>. QED BY <3>1, <2>1, <1>0, WriteChanges DEF DeleteStops, Reported, Written
  <2>2. CASE DeleteRow
    BY <2>2, <1>0 DEF DeleteRow, RowTypes, RowChange
  <2>. QED BY <1>1, <1>5, <2>1, <2>2 DEF DeletionStep, DeleteTells, rows
<1>6. ASSUME NEW n \in Nodes, RevokePods(n) \/ Reconnect(n) PROVE RowChange(p)
  BY <1>0, <1>6 DEF RevokePods, Reconnect, RowTypes, RowChange, Reported, Written, ActivePods, Active
<1>7. ASSUME NEW q \in Pods, EvictPod(q) PROVE RowChange(p)
  BY <1>0, <1>7, WriteChanges DEF EvictPod, Written
<1>8. CASE UNCHANGED vars
  BY <1>8, <1>1 DEF vars, rows
<1>. QED
  BY <1>1, <1>2, <1>3, <1>4, <1>5, <1>6, <1>7, <1>8
  DEF Next, NodeStep, HandleDeploy, HandleStop, StopCompletes, Disconnect, PodExits, ScaleService,
      DeleteReads, rows

PendingWaits == \A p \in Pods : podStatus[p] = "pending" => podNode[p] = None

LEMMA PendingWaitsHolds == Spec => []PendingWaits
<1>1. Init => PendingWaits
  BY DEF Init, PendingWaits
<1>2. FleetTypes /\ PendingWaits /\ [Next]_vars => PendingWaits'
  BY RowChanges DEF PendingWaits, RowChange, Reported, Written
<1>. QED BY <1>1, <1>2, FleetTypesHold, PTL DEF Spec

(* A row that has a node keeps it for life and is never pending again,     *)
(* whichever of scheduler, controller, API and nodes write in between.     *)
THEOREM AssignmentIsFinal == Spec => PodStaysAssigned
<1>1. FleetTypes /\ PendingWaits /\ [Next]_vars
        => [\A p \in Pods : podStatus[p] # "none" /\ podNode[p] # None /\ ~ Unused(p) =>
              \/ podStatus'[p] = "none"
              \/ podNode'[p] = podNode[p] /\ podStatus'[p] # "pending"]_vars
  BY RowChanges DEF PendingWaits, RowChange, Reported, Written
<1>. QED BY <1>1, FleetTypesHold, PendingWaitsHolds, PTL DEF Spec, PodStaysAssigned

-----------------------------------------------------------------------------
(* Rows that count, those brought back from the dead left out.             *)
Counting == ActivePods \ revived

LEMMA CountingIsFinite == IsFiniteSet(Counting) /\ Cardinality(Counting) \in Nat
BY FleetAssumption, FS_Subset, FS_CardinalityType DEF Counting, ActivePods

LEMMA WriteCounts ==
  ASSUME NEW q \in Pods, NEW s \in Written, WriteStatus(q, s), RowTypes
  PROVE  Counting' \subseteq Counting
<1> SUFFICES ASSUME NEW p \in Counting' PROVE p \in Counting
  OBVIOUS
<1>1. p \in Pods /\ podStatus'[p] \in Active /\ p \notin revived'
  BY DEF Counting, ActivePods
<1>2. CASE p = q
  BY <1>1, <1>2 DEF Counting, ActivePods, WriteStatus, RowTypes, Active, Terminal, Reported, Written
<1>3. CASE p # q
  BY <1>1, <1>3 DEF Counting, ActivePods, WriteStatus, RowTypes
<1>. QED BY <1>2, <1>3

(* Nothing but a pass adds a row that counts. *)
LEMMA OthersAddNothing ==
  ASSUME FleetTypes, [Next]_vars, ~ PassStep
  PROVE  Counting' \subseteq Counting
<1>0. RowTypes /\ UpdateType /\ DeletionTargets
  BY TypeParts DEF FleetTypes, Targets
<1>1. ASSUME UNCHANGED rows PROVE Counting' \subseteq Counting
  BY <1>1 DEF rows, Counting, ActivePods
<1>2. ASSUME RoundStep PROVE Counting' \subseteq Counting
  <2>1. ASSUME NEW q \in Pods, NEW n \in Nodes, RoundAssigns(q, n)
        PROVE  Counting' \subseteq Counting
    BY <1>0, <2>1 DEF RoundAssigns, SchedulePod, RowTypes, Counting, ActivePods, Active
  <2>. QED BY <1>1, <1>2, <2>1 DEF RoundStep, RoundStarts, RoundDeploys, RoundEnds, RoundSkips
<1>3. ASSUME UpdateStep PROVE Counting' \subseteq Counting
  <2>1. ASSUME NEW u \in updates, WriteUpdate(u) PROVE Counting' \subseteq Counting
    <3>1. u.pod \in Pods /\ u.status \in Reported
      BY <1>0 DEF UpdateType, Update
    <3>. QED BY <3>1, <1>0, <2>1, WriteCounts DEF WriteUpdate, Written
  <2>. QED BY <1>1, <1>3, <2>1 DEF UpdateStep, CheckUpdate
<1>4. ASSUME DeletionStep PROVE Counting' \subseteq Counting
  <2>1. CASE DeleteStops
    <3>1. deletion.pod \in Pods
      BY <2>1, <1>0 DEF DeleteStops, DeletionTargets
    <3>. QED BY <3>1, <2>1, <1>0, WriteCounts DEF DeleteStops, Reported, Written
  <2>2. CASE DeleteRow
    BY <2>2, <1>0 DEF DeleteRow, RowTypes, Counting, ActivePods, Active
  <2>. QED BY <1>1, <1>4, <2>1, <2>2 DEF DeletionStep, DeleteTells
<1>5. ASSUME NEW n \in Nodes, RevokePods(n) \/ Reconnect(n) PROVE Counting' \subseteq Counting
  BY <1>0, <1>5 DEF RevokePods, Reconnect, RowTypes, Counting, ActivePods, Active
<1>6. ASSUME NEW q \in Pods, EvictPod(q) PROVE Counting' \subseteq Counting
  BY <1>0, <1>6, WriteCounts DEF EvictPod, Written
<1>7. CASE UNCHANGED vars
  BY <1>7, <1>1 DEF vars
<1>. QED
  BY <1>1, <1>2, <1>3, <1>4, <1>5, <1>6, <1>7
  DEF Next, NodeStep, HandleDeploy, HandleStop, StopCompletes, Disconnect, PodExits, ScaleService,
      DeleteReads

LEMMA OneMore ==
  ASSUME NEW S, NEW x, NEW T \in SUBSET (S \cup {x}), IsFiniteSet(S)
  PROVE  Cardinality(T) \in Nat /\ Cardinality(T) <= Cardinality(S) + 1
<1> DEFINE U == S \cup {x}
<1>1. /\ IsFiniteSet(U)
      /\ Cardinality(U) = IF x \in S THEN Cardinality(S) ELSE Cardinality(S) + 1
  BY FS_AddElement
<1>2. Cardinality(S) \in Nat
  BY FS_CardinalityType
<1>3. IsFiniteSet(T) /\ Cardinality(T) <= Cardinality(U)
  BY <1>1, FS_Subset
<1>4. Cardinality(T) \in Nat
  BY <1>3, FS_CardinalityType
<1> HIDE DEF U
<1>. QED BY <1>1, <1>2, <1>3, <1>4

LEMMA StepCreatesOnlyMissing ==
  FleetTypes /\ CreatesOnlyMissing /\ [Next]_vars => CreatesOnlyMissing'
<1> SUFFICES ASSUME FleetTypes, CreatesOnlyMissing, [Next]_vars, pass'.pc = "create"
             PROVE  Cardinality(Counting') + pass'.create <= pass'.want
  BY DEF CreatesOnlyMissing, Counting
<1>0. /\ PassType /\ RowTypes
      /\ pass.pc = "create" => Cardinality(Counting) + pass.create <= pass.want
  BY TypeParts DEF FleetTypes, CreatesOnlyMissing, Counting
<1>1. IsFiniteSet(Counting) /\ Cardinality(Counting) \in Nat
  BY CountingIsFinite
<1>2. CASE PassLists
  <2>1. Cardinality(Counted) < pass.want
    BY <1>2, <1>0 DEF PassLists, PassType
  <2>2. pass'.create = pass.want - Cardinality(Counted) /\ pass'.want = pass.want
    BY <1>2, <1>0 DEF PassLists, PassType
  <2>3. Counting' \subseteq Counted /\ IsFiniteSet(Counted)
    BY <1>2, <1>0, FleetAssumption, FS_Subset
    DEF PassLists, rows, Counting, ActivePods, Counted, RowTypes, Active, Terminal
  <2>4. Cardinality(Counting') <= Cardinality(Counted)
    BY <2>3, FS_Subset
  <2>5. Cardinality(Counted) \in Nat /\ Cardinality(Counting') \in Nat
    BY <2>3, FS_Subset, FS_CardinalityType
  <2>6. pass.want \in Nat
    BY <1>0 DEF PassType
  <2>. QED BY <2>2, <2>4, <2>5, <2>6
<1>3. ASSUME NEW p \in Pods, CreatePod(p)
      PROVE  Cardinality(Counting') + pass'.create <= pass'.want
  <2>1. Counting' \subseteq Counting \cup {p}
    BY <1>3, <1>0 DEF CreatePod, InsertRow, Counting, ActivePods, RowTypes
  <2>3. Cardinality(Counting') \in Nat /\ Cardinality(Counting') <= Cardinality(Counting) + 1
    BY <2>1, <1>1, OneMore
  <2>4. pass'.create = pass.create - 1 /\ pass'.want = pass.want /\ pass.pc = "create"
    BY <1>3, <1>0 DEF CreatePod, PassType
  <2>5. pass.create \in Nat /\ pass.want \in Nat
    BY <1>0 DEF PassType
  <2>. QED BY <1>0, <1>1, <2>3, <2>4, <2>5
<1>4. CASE ~ PassStep
  <2>1. pass' = pass
    BY <1>4
    DEF Next, RoundStep, RoundStarts, RoundDeploys, RoundEnds, RoundSkips, RoundAssigns,
        UpdateStep, CheckUpdate, WriteUpdate, DeletionStep, DeleteStops, DeleteTells, DeleteRow,
        NodeStep, HandleDeploy, HandleStop, StopCompletes, RevokePods, Reconnect, Disconnect,
        PodExits, ScaleService, DeleteReads, EvictPod, vars
  <2>2. Cardinality(Counting') <= Cardinality(Counting) /\ Cardinality(Counting') \in Nat
    <3>1. Counting' \subseteq Counting
      BY <1>4, OthersAddNothing
    <3>. QED BY <3>1, <1>1, FS_Subset, FS_CardinalityType
  <2>3. pass.create \in Nat /\ pass.want \in Nat
    BY <1>0 DEF PassType
  <2>. QED BY <2>1, <2>2, <2>3, <1>0, <1>1
<1>5. ASSUME PassStarts \/ PassListsNodes \/ DeployDaemonPod \/ StopExcess \/ PassEnds PROVE FALSE
  <2>1. CASE PassStarts
    <3>1. pass'.pc = "pods"
      BY <2>1 DEF PassStarts, NoPass
    <3>. QED BY <3>1
  <2>2. CASE PassEnds
    BY <2>2 DEF PassEnds, NoPass
  <2>3. CASE PassListsNodes \/ DeployDaemonPod \/ StopExcess
    BY <2>3, <1>0 DEF PassListsNodes, DeployDaemonPod, StopExcess, PassType
  <2>. QED BY <1>5, <2>1, <2>2, <2>3
<1>6. ASSUME NEW p \in Pods, NEW n \in Nodes, CreateDaemonPod(n, p) PROVE FALSE
  BY <1>6, <1>0 DEF CreateDaemonPod, PassType
<1>7. ASSUME NEW r \in pass.remove, MarkStopping(r) PROVE FALSE
  BY <1>7, <1>0 DEF MarkStopping, PassType
<1>. QED BY <1>2, <1>3, <1>4, <1>5, <1>6, <1>7 DEF PassStep

(* A pass creates no more than is missing, whatever becomes, between its   *)
(* awaits, of the rows it counted, for any replicas.                       *)
THEOREM PassNeverOvershoots == Spec => []CreatesOnlyMissing
<1>1. Init => CreatesOnlyMissing
  BY DEF Init, NoPass, CreatesOnlyMissing
<1>. QED BY <1>1, StepCreatesOnlyMissing, FleetTypesHold, PTL DEF Spec

-----------------------------------------------------------------------------
(* Where a start of pod p can be: it runs, its deploy is under way, or the *)
(* pass or the round is about to send it.                                  *)
Home(n, p) == local[n][p] # "none"
Sent(n, i, p) == i \in DOMAIN toNode[n] /\ toNode[n][i] = [type |-> "deploy", pod |-> p]
Created(p) == pass.pc = "deploy" /\ pass.pod = p
Assigned(p) == round.pc = "deploy" /\ round.pod = p

Unstarted(p) ==
  /\ ~ Created(p) /\ ~ Assigned(p)
  /\ \A n \in Nodes : ~ Home(n, p) /\ \A i \in Nat : ~ Sent(n, i, p)

StartedOnce(p) ==
  /\ ~ (Created(p) /\ Assigned(p))
  /\ \A n \in Nodes :
       /\ Home(n, p) => /\ ~ Created(p) /\ ~ Assigned(p)
                        /\ \A m \in Nodes : /\ Home(m, p) => m = n
                                            /\ \A i \in Nat : ~ Sent(m, i, p)
       /\ \A i \in Nat : Sent(n, i, p) =>
            /\ ~ Created(p) /\ ~ Assigned(p)
            /\ \A m \in Nodes, j \in Nat : Sent(m, j, p) => m = n /\ j = i

(* What SingleProcess needs besides: a pending row has not been started.   *)
PodInv(p) == StartedOnce(p) /\ (podStatus[p] = "pending" => Unstarted(p))

StartInv == \A p \in Pods : PodInv(p)

(* What an unused name means for starts. *)
LEMMA UnusedIsUnstarted ==
  ASSUME NEW p \in Pods, Unused(p)
  PROVE  Unstarted(p)
BY DEF Unused, Unstarted, Home, Sent, Created, Assigned

(* A step that starts nothing of p. *)
LEMMA NothingStarts ==
  ASSUME NEW p \in Pods, PodInv(p),
         Created(p)' => Created(p), Assigned(p)' => Assigned(p),
         \A n \in Nodes : Home(n, p)' => Home(n, p),
         \A n \in Nodes, i \in Nat : Sent(n, i, p)' => Sent(n, i, p),
         RowChange(p)
  PROVE  PodInv(p)'
<1>1. podStatus'[p] = "pending" => Unstarted(p)
  BY UnusedIsUnstarted DEF RowChange, PodInv, Reported, Written
<1>2. Unstarted(p) => Unstarted(p)'
  BY DEF Unstarted
<1>3. StartedOnce(p)'
  BY DEF PodInv, StartedOnce
<1>. QED BY <1>1, <1>2, <1>3 DEF PodInv

(* The same when node n takes its first message. *)
LEMMA NothingStartsAtHead ==
  ASSUME NEW p \in Pods, NEW n \in Nodes, PodInv(p),
         Created(p)' => Created(p), Assigned(p)' => Assigned(p),
         \A m \in Nodes : Home(m, p)' => Home(m, p),
         \A m \in Nodes, i \in Nat : Sent(m, i, p)' => Sent(m, IF m = n THEN i + 1 ELSE i, p),
         RowChange(p)
  PROVE  PodInv(p)'
<1> DEFINE k(m, i) == IF m = n THEN i + 1 ELSE i
<1>1. \A m \in Nodes, i \in Nat : k(m, i) \in Nat
  OBVIOUS
<1>2. \A m \in Nodes, i, j \in Nat : k(m, i) = k(m, j) => i = j
  OBVIOUS
<1>3. \A m \in Nodes, i \in Nat : Sent(m, i, p)' => Sent(m, k(m, i), p)
  OBVIOUS
<1> HIDE DEF k
<1>4. podStatus'[p] = "pending" => Unstarted(p)
  BY UnusedIsUnstarted DEF RowChange, PodInv, Reported, Written
<1>5. Unstarted(p) => Unstarted(p)'
  BY <1>1, <1>3 DEF Unstarted
<1>6. StartedOnce(p)'
  BY <1>1, <1>2, <1>3 DEF PodInv, StartedOnce
<1>. QED BY <1>4, <1>5, <1>6 DEF PodInv

LEMMA SendStarts ==
  ASSUME NEW n, NEW type \in {"deploy", "stop"}, NEW q \in Pods, Send(n, type, q), NodeTypes,
         NEW p \in Pods, NEW m \in Nodes, NEW i \in Nat, Sent(m, i, p)'
  PROVE  \/ Sent(m, i, p)
         \/ type = "deploy" /\ q = p /\ m = n /\ i = Len(toNode[n]) + 1
<1>1. CASE n \notin connected \/ m # n
  BY <1>1 DEF Send, Sent, NodeTypes
<1>2. CASE n \in connected /\ m = n
  <2>1. toNode[n] \in Seq(Message)
    BY <1>2 DEF NodeTypes
  <2>2. toNode'[n] = Append(toNode[n], [type |-> type, pod |-> q])
    BY <1>2 DEF Send, NodeTypes
  <2>3. i \in 1 .. Len(toNode[n]) + 1 /\ toNode'[n][i] = [type |-> "deploy", pod |-> p]
    BY <1>2, <2>1, <2>2 DEF Sent
  <2>4. CASE i = Len(toNode[n]) + 1
    <3>1. [type |-> type, pod |-> q] = [type |-> "deploy", pod |-> p]
      BY <2>1, <2>2, <2>3, <2>4
    <3>. QED BY <3>1, <2>4, <1>2
  <2>5. CASE i \in 1 .. Len(toNode[n])
    BY <2>1, <2>2, <2>3, <2>5, <1>2 DEF Sent
  <2>. QED BY <2>1, <2>3, <2>4, <2>5
<1>. QED BY <1>1, <1>2

LEMMA ReceiveStarts ==
  ASSUME NEW n \in Nodes, NEW type, Receive(n, type), NodeTypes, NEW p \in Pods,
         NEW m \in Nodes, NEW i \in Nat, Sent(m, i, p)'
  PROVE  Sent(m, IF m = n THEN i + 1 ELSE i, p)
<1>1. CASE m # n
  BY <1>1 DEF Receive, Sent, NodeTypes
<1>2. CASE m = n
  <2>1. toNode[n] \in Seq(Message) /\ toNode[n] # <<>>
    BY DEF Receive, NodeTypes
  <2>2. toNode'[n] = Tail(toNode[n])
    BY DEF Receive, NodeTypes
  <2>3. i \in 1 .. Len(toNode[n]) - 1 /\ toNode[n][i + 1] = [type |-> "deploy", pod |-> p]
    BY <1>2, <2>1, <2>2 DEF Sent
  <2>. QED BY <1>2, <2>1, <2>3 DEF Sent
<1>. QED BY <1>1, <1>2

LEMMA PassStepStarts ==
  ASSUME FleetTypes, PassStep, NEW p \in Pods, PodInv(p), RowChange(p)
  PROVE  PodInv(p)'
<1>0. PassType /\ PassTargets /\ NodeTypes /\ RowTypes
  BY TypeParts DEF FleetTypes, Targets
<1>1. ASSUME UNCHANGED <<nodeVars, round>>, Created(p)' => Created(p) PROVE PodInv(p)'
  BY <1>1, NothingStarts DEF nodeVars, Home, Sent, Assigned
<1>2. CASE PassStarts
  <2>1. pass'.pc = "pods"
    BY <1>2 DEF PassStarts, NoPass
  <2>. QED BY <2>1, <1>1, <1>2 DEF PassStarts, Created
<1>3. CASE PassLists
  <2>1. pass'.pc \in {"nodes", "create", "mark"}
    BY <1>3, <1>0 DEF PassLists, PassType
  <2>. QED BY <2>1, <1>1, <1>3 DEF PassLists, Created
<1>4. CASE PassListsNodes
  <2>1. pass'.pc = "daemon"
    BY <1>4, <1>0 DEF PassListsNodes, PassType
  <2>. QED BY <2>1, <1>1, <1>4 DEF PassListsNodes, Created
<1>5. CASE PassEnds
  BY <1>1, <1>5 DEF PassEnds, NoPass, Created
<1>6. ASSUME NEW q \in Pods, CreatePod(q) PROVE PodInv(p)'
  <2>1. pass'.pc = "create"
    BY <1>6, <1>0 DEF CreatePod, PassType
  <2>. QED BY <2>1, <1>1, <1>6 DEF CreatePod, Created
<1>7. ASSUME NEW r \in pass.remove, MarkStopping(r) PROVE PodInv(p)'
  <2>1. pass'.pc = "stop"
    BY <1>7, <1>0 DEF MarkStopping, PassType
  <2>. QED BY <2>1, <1>1, <1>7 DEF MarkStopping, Created
<1>8. CASE StopExcess
  <2>1. pass'.pc = "mark" /\ pass.pod \in Pods
    BY <1>8, <1>0 DEF StopExcess, PassType, PassTargets
  <2>2. \A m \in Nodes, i \in Nat : Sent(m, i, p)' => Sent(m, i, p)
    <3>1. CASE UNCHANGED toNode
      BY <3>1 DEF Sent
    <3>2. CASE Send(pass.node, "stop", pass.pod)
      BY <3>2, <2>1, <1>0, SendStarts
    <3>. QED BY <3>1, <3>2, <1>8 DEF StopExcess
  <2>. QED BY <2>1, <2>2, <1>8, NothingStarts DEF StopExcess, Created, Assigned, Home
<1>9. ASSUME NEW q \in Pods, NEW n \in Nodes, CreateDaemonPod(n, q) PROVE PodInv(p)'
  <2>1. pass'.pc = "deploy" /\ pass'.pod = q /\ Unused(q) /\ UNCHANGED <<nodeVars, round>>
    BY <1>9, <1>0 DEF CreateDaemonPod, PassType, InsertRow
  <2>2. CASE p # q
    BY <2>1, <2>2, <1>1 DEF Created
  <2>3. CASE p = q
    <3>1. Unstarted(p)
      BY <2>1, <2>3, UnusedIsUnstarted
    <3>2. podStatus'[p] = "placed"
      BY <1>9, <1>0, <2>3 DEF CreateDaemonPod, InsertRow, RowTypes
    <3>3. /\ ~ Assigned(p)'
          /\ \A m \in Nodes : ~ Home(m, p)' /\ \A i \in Nat : ~ Sent(m, i, p)'
      BY <2>1, <3>1 DEF nodeVars, Unstarted, Assigned, Home, Sent
    <3>. QED BY <3>2, <3>3 DEF PodInv, StartedOnce
  <2>. QED BY <2>2, <2>3
<1>10. CASE DeployDaemonPod
  <2>1. pass.pc = "deploy" /\ pass'.pc = "daemon" /\ pass.pod \in Pods
    BY <1>10, <1>0 DEF DeployDaemonPod, PassType, PassTargets
  <2>2. UNCHANGED <<round, local, podStatus>>
    BY <1>10 DEF DeployDaemonPod, rows
  <2>3. \A m \in Nodes, i \in Nat :
          Sent(m, i, p)' =>
            \/ Sent(m, i, p)
            \/ pass.pod = p /\ m = pass.node /\ i = Len(toNode[pass.node]) + 1
    <3>1. CASE UNCHANGED toNode
      BY <3>1 DEF Sent
    <3>2. CASE Send(pass.node, "deploy", pass.pod)
      BY <3>2, <2>1, <1>0, SendStarts
    <3>. QED BY <3>1, <3>2, <1>10 DEF DeployDaemonPod
  <2>4. CASE pass.pod # p
    BY <2>1, <2>2, <2>3, <2>4, NothingStarts DEF Created, Assigned, Home
  <2>5. CASE pass.pod = p
    <3>1. Created(p) /\ ~ Created(p)'
      BY <2>1, <2>5 DEF Created
    <3>2. podStatus'[p] # "pending"
      BY <3>1, <2>2 DEF PodInv, Unstarted
    <3>3. ~ Assigned(p) /\ \A m \in Nodes : ~ Home(m, p) /\ \A i \in Nat : ~ Sent(m, i, p)
      BY <3>1 DEF PodInv, StartedOnce
    <3>4. ~ Assigned(p)' /\ \A m \in Nodes : ~ Home(m, p)'
      BY <3>3, <2>2 DEF Assigned, Home
    <3>5. \A m \in Nodes, i \in Nat :
            Sent(m, i, p)' => m = pass.node /\ i = Len(toNode[pass.node]) + 1
      BY <3>3, <2>3
    <3>. QED BY <3>1, <3>2, <3>4, <3>5 DEF PodInv, StartedOnce
  <2>. QED BY <2>4, <2>5
<1>. QED
  BY <1>2, <1>3, <1>4, <1>5, <1>6, <1>7, <1>8, <1>9, <1>10 DEF PassStep

LEMMA RoundStepStarts ==
  ASSUME FleetTypes, RoundStep, NEW p \in Pods, PodInv(p), RowChange(p)
  PROVE  PodInv(p)'
<1>0. RoundType /\ RoundTargets /\ NodeTypes /\ RowTypes
  BY TypeParts DEF FleetTypes, Targets
<1>1. ASSUME UNCHANGED <<nodeVars, pass>>, Assigned(p)' => Assigned(p) PROVE PodInv(p)'
  BY <1>1, NothingStarts DEF nodeVars, Home, Sent, Created
<1>2. CASE RoundStarts
  <2>1. round'.pc = "assign"
    BY <1>2, <1>0 DEF RoundStarts, RoundType
  <2>. QED BY <2>1, <1>1, <1>2 DEF RoundStarts, Assigned
<1>3. CASE RoundEnds
  BY <1>1, <1>3 DEF RoundEnds, NoRound, Assigned
<1>4. ASSUME NEW q \in Pods, RoundSkips(q) PROVE PodInv(p)'
  <2>1. round'.pc = "assign"
    BY <1>4, <1>0 DEF RoundSkips, RoundType
  <2>. QED BY <2>1, <1>1, <1>4 DEF RoundSkips, Assigned
<1>5. ASSUME NEW q \in Pods, NEW n \in Nodes, RoundAssigns(q, n) PROVE PodInv(p)'
  <2>1. round'.pc = "deploy" /\ round'.pod = q /\ UNCHANGED <<nodeVars, pass>>
    BY <1>5, <1>0 DEF RoundAssigns, RoundType
  <2>2. CASE p # q
    BY <2>1, <2>2, <1>1 DEF Assigned
  <2>3. CASE p = q
    <3>1. Unstarted(p)
      BY <1>5, <2>3 DEF RoundAssigns, SchedulePod, PodInv
    <3>2. podStatus'[p] = "placed"
      BY <1>5, <1>0, <2>3 DEF RoundAssigns, SchedulePod, RowTypes
    <3>3. /\ ~ Created(p)'
          /\ \A m \in Nodes : ~ Home(m, p)' /\ \A i \in Nat : ~ Sent(m, i, p)'
      BY <2>1, <3>1 DEF nodeVars, Unstarted, Created, Home, Sent
    <3>. QED BY <3>2, <3>3 DEF PodInv, StartedOnce
  <2>. QED BY <2>2, <2>3
<1>6. CASE RoundDeploys
  <2>1. round.pc = "deploy" /\ round'.pc = "assign" /\ round.pod \in Pods
    BY <1>6, <1>0 DEF RoundDeploys, RoundType, RoundTargets
  <2>2. UNCHANGED <<pass, local, podStatus>>
    BY <1>6 DEF RoundDeploys, rows
  <2>3. \A m \in Nodes, i \in Nat :
          Sent(m, i, p)' =>
            \/ Sent(m, i, p)
            \/ round.pod = p /\ m = round.node /\ i = Len(toNode[round.node]) + 1
    <3>1. CASE UNCHANGED toNode
      BY <3>1 DEF Sent
    <3>2. CASE Send(round.node, "deploy", round.pod)
      BY <3>2, <2>1, <1>0, SendStarts
    <3>. QED BY <3>1, <3>2, <1>6 DEF RoundDeploys
  <2>4. CASE round.pod # p
    BY <2>1, <2>2, <2>3, <2>4, NothingStarts DEF Created, Assigned, Home
  <2>5. CASE round.pod = p
    <3>1. Assigned(p) /\ ~ Assigned(p)'
      BY <2>1, <2>5 DEF Assigned
    <3>2. podStatus'[p] # "pending"
      BY <3>1, <2>2 DEF PodInv, Unstarted
    <3>3. ~ Created(p) /\ \A m \in Nodes : ~ Home(m, p) /\ \A i \in Nat : ~ Sent(m, i, p)
      BY <3>1 DEF PodInv, StartedOnce
    <3>4. ~ Created(p)' /\ \A m \in Nodes : ~ Home(m, p)'
      BY <3>3, <2>2 DEF Created, Home
    <3>5. \A m \in Nodes, i \in Nat :
            Sent(m, i, p)' => m = round.node /\ i = Len(toNode[round.node]) + 1
      BY <3>3, <2>3
    <3>. QED BY <3>1, <3>2, <3>4, <3>5 DEF PodInv, StartedOnce
  <2>. QED BY <2>4, <2>5
<1>. QED BY <1>2, <1>3, <1>4, <1>5, <1>6 DEF RoundStep

(* The node's pod handler; only a deploy starts the pod, and that deploy   *)
(* was the one start there was.                                            *)
LEMMA NodeStepStarts ==
  ASSUME FleetTypes, NEW n \in Nodes, NodeStep(n), NEW p \in Pods, PodInv(p), RowChange(p)
  PROVE  PodInv(p)'
<1>0. NodeTypes
  BY TypeParts DEF FleetTypes
<1>1. ASSUME NEW type, Receive(n, type), UNCHANGED <<pass, round>>,
             \A m \in Nodes : Home(m, p)' => Home(m, p)
      PROVE  PodInv(p)'
  <2>1. \A m \in Nodes, i \in Nat : Sent(m, i, p)' => Sent(m, IF m = n THEN i + 1 ELSE i, p)
    BY <1>1, <1>0, ReceiveStarts
  <2>. QED BY <2>1, <1>1, NothingStartsAtHead DEF Created, Assigned
<1>2. CASE HandleDeploy(n)
  <2>1. PICK q \in Pods : q = Head(toNode[n]).pod
    BY <1>2, <1>0, ReceiveTypes DEF HandleDeploy
  <2>2. Receive(n, "deploy") /\ UNCHANGED <<pass, round, podStatus>>
    BY <1>2 DEF HandleDeploy, rows
  <2>3. local \in [Nodes -> [Pods -> {"none", "running", "stopping"}]]
    BY <1>0 DEF NodeTypes
  <2>4. \/ UNCHANGED local
        \/ local' = [local EXCEPT ![n][q] = "running"]
        \/ local' = [local EXCEPT ![n][q] = "none"]
    BY <1>2, <2>1 DEF HandleDeploy
  <2>5. CASE UNCHANGED local \/ local' = [local EXCEPT ![n][q] = "none"] \/ p # q
    <3>1. \A m \in Nodes : Home(m, p)' => Home(m, p)
      BY <2>3, <2>4, <2>5 DEF Home
    <3>. QED BY <3>1, <2>2, <1>1
  <2>6. CASE local' = [local EXCEPT ![n][q] = "running"] /\ p = q
    <3>1. Sent(n, 1, p)
      <4>1. toNode[n] \in Seq(Message) /\ toNode[n] # <<>>
        BY <2>2, <1>0 DEF Receive, NodeTypes
      <4>2. 1 \in DOMAIN toNode[n] /\ toNode[n][1] = Head(toNode[n]) /\ toNode[n][1] \in Message
        BY <4>1
      <4>3. toNode[n][1] = [type |-> "deploy", pod |-> p]
        BY <4>2, <2>1, <2>2, <2>6 DEF Receive, Message
      <4>. QED BY <4>2, <4>3 DEF Sent
    <3>2. /\ ~ Created(p) /\ ~ Assigned(p)
          /\ \A m \in Nodes, i \in Nat : Sent(m, i, p) => m = n /\ i = 1
          /\ \A m \in Nodes : ~ Home(m, p)
      BY <3>1 DEF PodInv, StartedOnce
    <3>3. \A m \in Nodes, i \in Nat : ~ Sent(m, i, p)'
      <4> SUFFICES ASSUME NEW m \in Nodes, NEW i \in Nat, Sent(m, i, p)' PROVE FALSE
        OBVIOUS
      <4>1. Sent(m, IF m = n THEN i + 1 ELSE i, p)
        BY <2>2, <1>0, ReceiveStarts
      <4>2. m = n /\ i = 0
        BY <4>1, <3>2
      <4>3. toNode'[n] \in Seq(Message)
        BY <2>2, <1>0, ReceiveTypes
      <4>. QED BY <4>2, <4>3 DEF Sent
    <3>4. \A m \in Nodes : Home(m, p)' => m = n
      BY <3>2, <2>3, <2>6 DEF Home
    <3>5. ~ Created(p)' /\ ~ Assigned(p)'
      BY <3>2, <2>2 DEF Created, Assigned
    <3>6. podStatus'[p] # "pending"
      BY <3>1, <2>2 DEF PodInv, Unstarted
    <3>. QED BY <3>3, <3>4, <3>5, <3>6 DEF PodInv, StartedOnce
  <2>. QED BY <2>4, <2>5, <2>6
<1>3. CASE HandleStop(n)
  <2>1. PICK q \in Pods : q = Head(toNode[n]).pod
    BY <1>3, <1>0, ReceiveTypes DEF HandleStop
  <2>2. local \in [Nodes -> [Pods -> {"none", "running", "stopping"}]]
    BY <1>0 DEF NodeTypes
  <2>3. \/ UNCHANGED local
        \/ local[n][q] = "running" /\ local' = [local EXCEPT ![n][q] = "stopping"]
    BY <1>3, <2>1 DEF HandleStop
  <2>4. \A m \in Nodes : Home(m, p)' => Home(m, p)
    BY <2>2, <2>3 DEF Home
  <2>. QED BY <2>4, <1>1, <1>3 DEF HandleStop
<1>4. ASSUME NEW q \in Pods, StopCompletes(n, q) PROVE PodInv(p)'
  <2>1. \A m \in Nodes : Home(m, p)' => Home(m, p)
    BY <1>4, <1>0 DEF StopCompletes, NodeTypes, Home
  <2>. QED BY <2>1, <1>4, NothingStarts DEF StopCompletes, Sent, Created, Assigned
<1>. QED BY <1>2, <1>3, <1>4 DEF NodeStep

LEMMA StepStarts ==
  FleetTypes /\ StartInv /\ [Next]_vars => StartInv'
<1> SUFFICES ASSUME FleetTypes, StartInv, [Next]_vars, NEW p \in Pods PROVE PodInv(p)'
  BY DEF StartInv
<1>0. PodInv(p) /\ RowChange(p) /\ NodeTypes
  BY RowChanges, TypeParts DEF StartInv, FleetTypes
<1>1. ASSUME UNCHANGED <<nodeVars, pass, round>> PROVE PodInv(p)'
  BY <1>0, <1>1, NothingStarts DEF nodeVars, Home, Sent, Created, Assigned
<1>2. ASSUME NEW n \in Nodes, NEW crash \in BOOLEAN, Disconnect(n, crash) PROVE PodInv(p)'
  <2>1. \A m \in Nodes : Home(m, p)' => Home(m, p)
    BY <1>0, <1>2 DEF Disconnect, NodeTypes, Home
  <2>2. \A m \in Nodes, i \in Nat : Sent(m, i, p)' => Sent(m, i, p)
    BY <1>0, <1>2 DEF Disconnect, NodeTypes, Sent
  <2>. QED BY <2>1, <2>2, <1>0, <1>2, NothingStarts DEF Disconnect, Created, Assigned
<1>3. ASSUME NEW n \in Nodes, Reconnect(n) PROVE PodInv(p)'
  <2>1. PICK stops :
          toNode' = [toNode EXCEPT ![n] = [i \in DOMAIN stops |->
                                             [type |-> "stop", pod |-> stops[i]]]]
    BY <1>3 DEF Reconnect
  <2>2. \A m \in Nodes, i \in Nat : Sent(m, i, p)' => Sent(m, i, p)
    BY <1>0, <2>1 DEF NodeTypes, Sent
  <2>. QED BY <2>2, <1>0, <1>3, NothingStarts DEF Reconnect, Home, Created, Assigned
<1>4. ASSUME NEW n \in Nodes, NEW q \in Pods, PodExits(n, q) PROVE PodInv(p)'
  <2>1. \A m \in Nodes : Home(m, p)' => Home(m, p)
    BY <1>0, <1>4 DEF PodExits, NodeTypes, Home
  <2>. QED BY <2>1, <1>0, <1>4, NothingStarts DEF PodExits, Sent, Created, Assigned
<1>5. CASE DeleteTells
  <2>1. deletion.pod \in Pods
    BY <1>5 DEF DeleteTells, FleetTypes, Targets, DeletionTargets
  <2>2. \A m \in Nodes, i \in Nat : Sent(m, i, p)' => Sent(m, i, p)
    BY <2>1, <1>0, <1>5, SendStarts DEF DeleteTells
  <2>. QED BY <2>2, <1>0, <1>5, NothingStarts DEF DeleteTells, Home, Created, Assigned
<1>6. CASE PassStep \/ RoundStep \/ \E n \in Nodes : NodeStep(n)
  BY <1>0, <1>6, PassStepStarts, RoundStepStarts, NodeStepStarts
<1>7. CASE UNCHANGED vars
  BY <1>7, <1>1 DEF vars
<1>. QED
  BY <1>1, <1>2, <1>3, <1>4, <1>5, <1>6, <1>7
  DEF Next, UpdateStep, CheckUpdate, WriteUpdate, DeletionStep, DeleteStops, DeleteRow, RevokePods,
      ScaleService, DeleteReads, EvictPod

(* A set all of whose elements are equal. *)
LEMMA AtMostOneElement ==
  ASSUME NEW S, \A x, y \in S : x = y
  PROVE  IF S = {} THEN Cardinality(S) = 0 ELSE Cardinality(S) = 1
<1>1. CASE S = {}
  BY <1>1, FS_EmptySet
<1>2. CASE S # {}
  <2>1. PICK x : S = {x}
    BY <1>2
  <2>. QED BY <2>1, FS_Singleton
<1>. QED BY <1>1, <1>2

LEMMA StartInvImplies == TypeOK /\ StartInv => SingleProcess
<1> SUFFICES ASSUME TypeOK, StartInv, NEW p \in Pods
             PROVE  Cardinality({n \in Nodes : local[n][p] # "none"})
                      + (Cardinality(Deploys(p))
                         + (IF pass.pc = "deploy" /\ pass.pod = p THEN 1 ELSE 0)
                         + (IF round.pc = "deploy" /\ round.pod = p THEN 1 ELSE 0)) <= 1
  BY DEF SingleProcess
<1> DEFINE homes == {n \in Nodes : Home(n, p)}
           sent == Deploys(p)
<1>0. StartedOnce(p)
  BY DEF StartInv, PodInv
<1>1. \A m \in sent : m[1] \in Nodes /\ m[2] \in Nat /\ m = <<m[1], m[2]>> /\ Sent(m[1], m[2], p)
  BY DEF Deploys, Sent, TypeOK
<1>2. \A x, y \in homes : x = y
  BY <1>0 DEF StartedOnce
<1>3. \A x, y \in sent : x = y
  BY <1>0, <1>1 DEF StartedOnce
<1>4. homes = {} \/ sent = {}
  BY <1>0, <1>1 DEF StartedOnce
<1>5. homes # {} \/ sent # {} => ~ Created(p) /\ ~ Assigned(p)
  BY <1>0, <1>1 DEF StartedOnce
<1>6. ~ (Created(p) /\ Assigned(p))
  BY <1>0 DEF StartedOnce
<1>7. /\ IF homes = {} THEN Cardinality(homes) = 0 ELSE Cardinality(homes) = 1
      /\ IF sent = {} THEN Cardinality(sent) = 0 ELSE Cardinality(sent) = 1
  BY <1>2, <1>3, AtMostOneElement
<1>8. homes = {n \in Nodes : local[n][p] # "none"}
  BY DEF Home
<1> HIDE DEF homes, sent
<1>9. Cardinality(homes)
        + (Cardinality(sent) + (IF Created(p) THEN 1 ELSE 0) + (IF Assigned(p) THEN 1 ELSE 0)) <= 1
  BY <1>4, <1>5, <1>6, <1>7
<1>. QED BY <1>8, <1>9 DEF sent, Created, Assigned

(* A pod runs at most once, and is not about to run a second time, for any *)
(* number of nodes, pods and lost sockets.                                 *)
THEOREM PodRunsOnce == Spec => []SingleProcess
<1>1. Init => StartInv
  BY DEF Init, NoPass, NoRound, StartInv, PodInv, StartedOnce, Unstarted, Home, Sent, Created,
         Assigned
<1>2. FleetTypes => TypeOK
  BY DEF FleetTypes
<1>. QED BY <1>1, <1>2, StepStarts, StartInvImplies, FleetTypesHold, PTL DEF Spec

-----------------------------------------------------------------------------
(* The refinement of PodPlaces *)

(* Pod p is on node n, or a start of it there is under way. *)
Headed(n, p) ==
  \/ Home(n, p)
  \/ \E i \in Nat : Sent(n, i, p)
  \/ Created(p) /\ pass.node = n
  \/ Assigned(p) /\ round.node = n

(* A row that is there names the node its pod is on or headed for. *)
Matches(p) == podStatus[p] # "none" => \A n \in Nodes : Headed(n, p) => podNode[p] = n

PlaceInv == \A p \in Pods : Matches(p)

(* A step that makes p headed nowhere but to the node its row names then. *)
HeadedByRow(p) == \A n \in Nodes : Headed(n, p)' => Headed(n, p) \/ podNode'[p] = n

LEMMA UnstartedIsNotHeaded ==
  ASSUME NEW p \in Pods, Unstarted(p), NEW n \in Nodes
  PROVE  ~ Headed(n, p)
BY DEF Unstarted, Headed

LEMMA MatchesKept ==
  ASSUME NEW p \in Pods, PodInv(p), Matches(p), RowChange(p), HeadedByRow(p)
  PROVE  Matches(p)'
<1> SUFFICES ASSUME podStatus'[p] # "none", NEW n \in Nodes, Headed(n, p)', Headed(n, p)
             PROVE  podNode'[p] = n
  BY DEF Matches, HeadedByRow
<1>1. ~ Unused(p) /\ podStatus[p] # "pending"
  BY UnusedIsUnstarted, UnstartedIsNotHeaded DEF PodInv
<1>2. podStatus[p] # "none" /\ podNode'[p] = podNode[p]
  BY <1>1 DEF RowChange, Reported, Written
<1>. QED BY <1>2 DEF Matches

(* Nothing is headed for a node that was not, where neither pass nor round *)
(* takes a node up.                                                        *)
LEMMA NothingHeads ==
  ASSUME NEW p \in Pods, UNCHANGED <<pass, round>>,
         \A n \in Nodes : Home(n, p)' => Headed(n, p),
         \A n \in Nodes, i \in Nat : Sent(n, i, p)' => Headed(n, p)
  PROVE  HeadedByRow(p)
BY DEF HeadedByRow, Headed, Created, Assigned

LEMMA PassHeads ==
  ASSUME FleetTypes, PassStep, NEW p \in Pods
  PROVE  HeadedByRow(p)
<1>0. PassType /\ PassTargets /\ NodeTypes /\ RowTypes
  BY TypeParts DEF FleetTypes, Targets
<1>1. ASSUME UNCHANGED <<nodeVars, round>>, pass'.pc # "deploy" PROVE HeadedByRow(p)
  BY <1>1 DEF HeadedByRow, Headed, nodeVars, Home, Sent, Created, Assigned
<1>2. CASE PassStarts \/ PassEnds
  <2>1. pass'.pc # "deploy"
    <3>1. CASE PassStarts
      <4>1. pass'.pc = "pods"
        BY <3>1 DEF PassStarts, NoPass
      <4>. QED BY <4>1
    <3>2. CASE PassEnds
      BY <3>2 DEF PassEnds, NoPass
    <3>. QED BY <1>2, <3>1, <3>2
  <2>. QED BY <2>1, <1>1, <1>2 DEF PassStarts, PassEnds
<1>3. CASE PassLists \/ PassListsNodes
  <2>1. pass'.pc \in {"nodes", "create", "mark", "daemon"}
    BY <1>3, <1>0 DEF PassLists, PassListsNodes, PassType
  <2>. QED BY <2>1, <1>1, <1>3 DEF PassLists, PassListsNodes
<1>4. ASSUME NEW q \in Pods, CreatePod(q) PROVE HeadedByRow(p)
  <2>1. pass'.pc = "create"
    BY <1>4, <1>0 DEF CreatePod, PassType
  <2>. QED BY <2>1, <1>1, <1>4 DEF CreatePod
<1>5. ASSUME NEW r \in pass.remove, MarkStopping(r) PROVE HeadedByRow(p)
  <2>1. pass'.pc = "stop"
    BY <1>5, <1>0 DEF MarkStopping, PassType
  <2>. QED BY <2>1, <1>1, <1>5 DEF MarkStopping
<1>6. ASSUME NEW q \in Pods, NEW n \in Nodes, CreateDaemonPod(n, q) PROVE HeadedByRow(p)
  <2>1. pass'.pod = q /\ pass'.node = n /\ UNCHANGED <<nodeVars, round>>
    BY <1>6, <1>0 DEF CreateDaemonPod, PassType
  <2>2. pass.pc # "deploy"
    BY <1>6 DEF CreateDaemonPod
  <2>3. podNode'[q] = n
    BY <1>6, <1>0 DEF CreateDaemonPod, InsertRow, RowTypes
  <2>. QED BY <2>1, <2>2, <2>3 DEF HeadedByRow, Headed, nodeVars, Home, Sent, Created, Assigned
<1>7. CASE StopExcess \/ DeployDaemonPod
  <2>1. pass'.pc # "deploy" /\ pass.pod \in Pods /\ UNCHANGED <<local, round>>
    BY <1>7, <1>0 DEF StopExcess, DeployDaemonPod, PassType, PassTargets
  <2>2. ASSUME NEW n \in Nodes, NEW i \in Nat, Sent(n, i, p)' PROVE Headed(n, p)
    <3>1. CASE UNCHANGED toNode
      BY <3>1, <2>2 DEF Sent, Headed
    <3>2. CASE StopExcess /\ Send(pass.node, "stop", pass.pod)
      BY <3>2, <2>1, <2>2, <1>0, SendStarts DEF Headed
    <3>3. CASE DeployDaemonPod /\ Send(pass.node, "deploy", pass.pod)
      <4>1. Sent(n, i, p) \/ (pass.pod = p /\ n = pass.node)
        <5>1. Send(pass.node, "deploy", pass.pod) /\ pass.pod \in Pods
          BY <3>3, <2>1
        <5>. QED BY <5>1, <2>2, <1>0, SendStarts
      <4>2. pass.pc = "deploy"
        BY <3>3 DEF DeployDaemonPod
      <4>. QED BY <4>1, <4>2 DEF Headed, Created
    <3>. QED BY <1>7, <3>1, <3>2, <3>3 DEF StopExcess, DeployDaemonPod
  <2>. QED BY <2>1, <2>2 DEF HeadedByRow, Headed, Home, Created, Assigned
<1>. QED BY <1>2, <1>3, <1>4, <1>5, <1>6, <1>7 DEF PassStep

LEMMA RoundHeads ==
  ASSUME FleetTypes, RoundStep, NEW p \in Pods
  PROVE  HeadedByRow(p)
<1>0. RoundType /\ RoundTargets /\ NodeTypes /\ RowTypes
  BY TypeParts DEF FleetTypes, Targets
<1>1. ASSUME UNCHANGED <<nodeVars, pass>>, round'.pc # "deploy" PROVE HeadedByRow(p)
  BY <1>1 DEF HeadedByRow, Headed, nodeVars, Home, Sent, Created, Assigned
<1>2. CASE RoundStarts \/ RoundEnds \/ \E q \in Pods : RoundSkips(q)
  <2>1. round'.pc # "deploy"
    <3>1. CASE RoundEnds
      BY <3>1 DEF RoundEnds, NoRound
    <3>2. CASE RoundStarts \/ \E q \in Pods : RoundSkips(q)
      BY <3>2, <1>0 DEF RoundStarts, RoundSkips, RoundType
    <3>. QED BY <1>2, <3>1, <3>2
  <2>. QED BY <2>1, <1>1, <1>2 DEF RoundStarts, RoundEnds, RoundSkips
<1>3. ASSUME NEW q \in Pods, NEW n \in Nodes, RoundAssigns(q, n) PROVE HeadedByRow(p)
  <2>1. round'.pod = q /\ round'.node = n /\ UNCHANGED <<nodeVars, pass>>
    BY <1>3, <1>0 DEF RoundAssigns, RoundType
  <2>2. podNode'[q] = n
    BY <1>3, <1>0 DEF RoundAssigns, SchedulePod, RowTypes
  <2>. QED BY <2>1, <2>2 DEF HeadedByRow, Headed, nodeVars, Home, Sent, Created, Assigned
<1>4. CASE RoundDeploys
  <2>1. round'.pc # "deploy" /\ round.pod \in Pods /\ UNCHANGED <<local, pass>>
    BY <1>4, <1>0 DEF RoundDeploys, RoundType, RoundTargets
  <2>2. ASSUME NEW n \in Nodes, NEW i \in Nat, Sent(n, i, p)' PROVE Headed(n, p)
    <3>1. CASE UNCHANGED toNode
      BY <3>1, <2>2 DEF Sent, Headed
    <3>2. CASE Send(round.node, "deploy", round.pod)
      BY <3>2, <2>1, <2>2, <1>0, <1>4, SendStarts DEF Headed, Assigned, RoundDeploys
    <3>. QED BY <1>4, <3>1, <3>2 DEF RoundDeploys
  <2>. QED BY <2>1, <2>2 DEF HeadedByRow, Headed, Home, Created, Assigned
<1>. QED BY <1>2, <1>3, <1>4 DEF RoundStep

LEMMA NodeHeads ==
  ASSUME FleetTypes, NEW n \in Nodes, NodeStep(n), NEW p \in Pods
  PROVE  HeadedByRow(p)
<1>0. NodeTypes
  BY TypeParts DEF FleetTypes
<1>5. local \in [Nodes -> [Pods -> {"none", "running", "stopping"}]]
  BY <1>0 DEF NodeTypes
<1>1. ASSUME NEW type, Receive(n, type), NEW m \in Nodes, NEW i \in Nat, Sent(m, i, p)'
      PROVE  Headed(m, p)
  <2>1. Sent(m, IF m = n THEN i + 1 ELSE i, p)
    BY <1>1, <1>0, ReceiveStarts
  <2>. QED BY <2>1 DEF Headed
<1>2. CASE HandleDeploy(n)
  <2>1. PICK q \in Pods : q = Head(toNode[n]).pod
    BY <1>2, <1>0, ReceiveTypes DEF HandleDeploy
  <2>2. Receive(n, "deploy") /\ UNCHANGED <<pass, round>>
    BY <1>2 DEF HandleDeploy
  <2>3. Sent(n, 1, q)
    <3>1. toNode[n] \in Seq(Message) /\ toNode[n] # <<>>
      BY <2>2, <1>0 DEF Receive, NodeTypes
    <3>2. 1 \in DOMAIN toNode[n] /\ toNode[n][1] = Head(toNode[n]) /\ toNode[n][1] \in Message
      BY <3>1
    <3>. QED BY <3>2, <2>1, <2>2 DEF Receive, Message, Sent
  <2>4. \/ UNCHANGED local
        \/ local' = [local EXCEPT ![n][q] = "running"]
        \/ local' = [local EXCEPT ![n][q] = "none"]
    BY <1>2, <2>1 DEF HandleDeploy
  <2>5. ASSUME NEW m \in Nodes, Home(m, p)' PROVE Home(m, p) \/ (m = n /\ p = q)
    BY <2>4, <2>5, <1>5 DEF Home
  <2>6. \A m \in Nodes : Home(m, p)' => Headed(m, p)
    BY <2>3, <2>5 DEF Headed
  <2>. QED BY <2>2, <2>6, <1>1, NothingHeads
<1>3. CASE HandleStop(n)
  <2>1. PICK q \in Pods : q = Head(toNode[n]).pod
    BY <1>3, <1>0, ReceiveTypes DEF HandleStop
  <2>2. \/ UNCHANGED local
        \/ local[n][q] = "running" /\ local' = [local EXCEPT ![n][q] = "stopping"]
    BY <1>3, <2>1 DEF HandleStop
  <2>3. ASSUME NEW m \in Nodes, Home(m, p)' PROVE Headed(m, p)
    <3>1. Home(m, p)
      BY <2>2, <2>3, <1>5 DEF Home
    <3>. QED BY <3>1 DEF Headed
  <2>. QED BY <2>3, <1>1, <1>3, NothingHeads DEF HandleStop
<1>4. ASSUME NEW q \in Pods, StopCompletes(n, q) PROVE HeadedByRow(p)
  <2>1. \A m \in Nodes : Home(m, p)' => Headed(m, p)
    BY <1>4, <1>0 DEF StopCompletes, NodeTypes, Home, Headed
  <2>. QED BY <2>1, <1>4, NothingHeads DEF StopCompletes, Sent, Headed
<1>. QED BY <1>2, <1>3, <1>4 DEF NodeStep

LEMMA StepHeads ==
  ASSUME FleetTypes, [Next]_vars, NEW p \in Pods
  PROVE  HeadedByRow(p)
<1>0. NodeTypes
  BY TypeParts DEF FleetTypes
<1>1. ASSUME UNCHANGED <<nodeVars, pass, round>> PROVE HeadedByRow(p)
  BY <1>1, NothingHeads DEF nodeVars, Home, Sent, Headed
<1>2. ASSUME NEW n \in Nodes, NEW crash \in BOOLEAN, Disconnect(n, crash) PROVE HeadedByRow(p)
  <2>1. \A m \in Nodes : Home(m, p)' => Headed(m, p)
    BY <1>0, <1>2 DEF Disconnect, NodeTypes, Home, Headed
  <2>2. \A m \in Nodes, i \in Nat : Sent(m, i, p)' => Headed(m, p)
    BY <1>0, <1>2 DEF Disconnect, NodeTypes, Sent, Headed
  <2>. QED BY <2>1, <2>2, <1>2, NothingHeads DEF Disconnect
<1>3. ASSUME NEW n \in Nodes, Reconnect(n) PROVE HeadedByRow(p)
  <2>1. PICK stops :
          toNode' = [toNode EXCEPT ![n] = [i \in DOMAIN stops |->
                                             [type |-> "stop", pod |-> stops[i]]]]
    BY <1>3 DEF Reconnect
  <2>2. \A m \in Nodes, i \in Nat : Sent(m, i, p)' => Headed(m, p)
    BY <1>0, <2>1 DEF NodeTypes, Sent, Headed
  <2>. QED BY <2>2, <1>3, NothingHeads DEF Reconnect, Home, Headed
<1>4. ASSUME NEW n \in Nodes, NEW q \in Pods, PodExits(n, q) PROVE HeadedByRow(p)
  <2>1. \A m \in Nodes : Home(m, p)' => Headed(m, p)
    BY <1>0, <1>4 DEF PodExits, NodeTypes, Home, Headed
  <2>. QED BY <2>1, <1>4, NothingHeads DEF PodExits, Sent, Headed
<1>5. CASE DeleteTells
  <2>1. deletion.pod \in Pods
    BY <1>5 DEF DeleteTells, FleetTypes, Targets, DeletionTargets
  <2>2. \A m \in Nodes, i \in Nat : Sent(m, i, p)' => Headed(m, p)
    BY <2>1, <1>0, <1>5, SendStarts DEF DeleteTells, Headed
  <2>. QED BY <2>2, <1>5, NothingHeads DEF DeleteTells, Home, Headed
<1>6. CASE PassStep \/ RoundStep \/ \E n \in Nodes : NodeStep(n)
  BY <1>6, PassHeads, RoundHeads, NodeHeads
<1>7. CASE UNCHANGED vars
  BY <1>7, <1>1 DEF vars
<1>. QED
  BY <1>1, <1>2, <1>3, <1>4, <1>5, <1>6, <1>7
  DEF Next, UpdateStep, CheckUpdate, WriteUpdate, DeletionStep, DeleteStops, DeleteRow, RevokePods,
      ScaleService, DeleteReads, EvictPod

(* What places rest on. *)
FleetInv == FleetTypes /\ StartInv /\ PlaceInv

LEMMA FleetInvHolds == Spec => []FleetInv
<1>1. Init => StartInv /\ PlaceInv
  BY DEF Init, NoPass, NoRound, StartInv, PodInv, StartedOnce, Unstarted, Home, Sent, Created,
         Assigned, PlaceInv, Matches
<1>2. FleetTypes /\ StartInv /\ PlaceInv /\ [Next]_vars => PlaceInv'
  BY RowChanges, StepHeads, MatchesKept DEF StartInv, PlaceInv
<1>. QED BY <1>1, <1>2, StepStarts, FleetTypesHold, PTL DEF Spec, FleetInv

(* The mapping of PodFleet, as functions. *)
May == [p \in Pods |-> Named(p)]
Runs == [p \in Pods |-> Homes(p)]

(* A step that moves no pod and renames no node is none of PodPlaces; the  *)
(* others do so for one pod, or for one node that goes.                    *)
LEMMA Stutters ==
  ASSUME \A p \in Pods : Named(p)' = Named(p) /\ Homes(p)' = Homes(p)
  PROVE  UNCHANGED Placement!vars
<1>1. May' = May /\ Runs' = Runs
  BY DEF May, Runs
<1>. QED BY <1>1 DEF Placement!vars, May, Runs

LEMMA Places ==
  ASSUME NEW q \in Pods, NEW S, UNCHANGED local,
         \A p \in Pods : Named(p)' = IF p = q THEN S ELSE Named(p)
  PROVE  May' = [May EXCEPT ![q] = S] /\ Runs' = Runs
BY DEF May, Runs, Homes

LEMMA Moves ==
  ASSUME NEW q \in Pods, NEW S, UNCHANGED <<podStatus, podNode>>,
         \A p \in Pods : Homes(p)' = IF p = q THEN S ELSE Homes(p)
  PROVE  May' = May /\ Runs' = [Runs EXCEPT ![q] = S]
BY DEF May, Runs, Named

(* A status written by id names no other node. *)
LEMMA WriteNamesNothing ==
  ASSUME NEW q \in Pods, NEW s \in Reported, WriteStatus(q, s), RowTypes, NEW p \in Pods
  PROVE  Named(p)' = Named(p)
<1>1. podNode'[p] = podNode[p]
  BY DEF WriteStatus
<1>2. podStatus'[p] = IF p = q /\ podStatus[p] # "none" THEN s ELSE podStatus[p]
  BY DEF WriteStatus, RowTypes
<1>. QED BY <1>1, <1>2 DEF Named, Reported

LEMMA PlacesRow ==
  ASSUME NEW q \in Pods, NEW n \in Nodes \cup {None}, NEW s \in {"pending", "placed"}, RowTypes,
         podStatus' = [podStatus EXCEPT ![q] = s], podNode' = [podNode EXCEPT ![q] = n],
         UNCHANGED local, Unstarted(q)
  PROVE  Placement!Next
<1>1. \A p \in Pods : Named(p)' = IF p = q THEN {n} \ {None} ELSE Named(p)
  BY DEF Named, RowTypes
<1>2. May' = [May EXCEPT ![q] = {n} \ {None}] /\ Runs' = Runs
  BY <1>1, Places
<1>3. Runs[q] = {}
  BY DEF Runs, Homes, Unstarted, Home
<1>4. Placement!Place(q, {n} \ {None})
  BY <1>2, <1>3 DEF Placement!Place, May, Runs
<1>5. n \in Nodes => {n} \ {None} = {n}
  BY FleetAssumption
<1>. QED BY <1>4, <1>5 DEF Placement!Next

LEMMA RowsRefine ==
  ASSUME FleetInv, UNCHANGED local,
         PassStep \/ RoundStep \/ UpdateStep \/ DeletionStep
  PROVE  [Placement!Next]_(Placement!vars)
<1>0. RowTypes /\ PassType /\ UpdateType /\ DeletionTargets
  BY TypeParts DEF FleetInv, FleetTypes, Targets
<1>1. ASSUME UNCHANGED <<podStatus, podNode>> PROVE UNCHANGED Placement!vars
  BY <1>1, Stutters DEF Named, Homes
<1>2. ASSUME NEW q \in Pods, NEW s \in Reported, WriteStatus(q, s) PROVE UNCHANGED Placement!vars
  BY <1>0, <1>2, WriteNamesNothing, Stutters DEF Homes
<1>3. CASE PassStep
  <2>1. ASSUME NEW q \in Pods, CreatePod(q) PROVE Placement!Next
    BY <2>1, <1>0, UnusedIsUnstarted, PlacesRow DEF CreatePod, InsertRow
  <2>2. ASSUME NEW q \in Pods, NEW n \in Nodes, CreateDaemonPod(n, q) PROVE Placement!Next
    BY <2>2, <1>0, UnusedIsUnstarted, PlacesRow DEF CreateDaemonPod, InsertRow
  <2>3. ASSUME NEW r \in pass.remove, MarkStopping(r) PROVE UNCHANGED Placement!vars
    <3>1. r.pod \in Pods
      BY <1>0 DEF PassType
    <3>. QED BY <3>1, <2>3, <1>2 DEF MarkStopping, Reported
  <2>. QED
    BY <1>1, <1>3, <2>1, <2>2, <2>3
    DEF PassStep, PassStarts, PassLists, PassListsNodes, DeployDaemonPod, StopExcess, PassEnds, rows
<1>4. CASE RoundStep
  <2>1. ASSUME NEW q \in Pods, NEW n \in Nodes, RoundAssigns(q, n) PROVE Placement!Next
    <3>1. Unstarted(q)
      BY <2>1 DEF RoundAssigns, SchedulePod, FleetInv, StartInv, PodInv
    <3>. QED BY <3>1, <2>1, <1>0, PlacesRow DEF RoundAssigns, SchedulePod
  <2>. QED
    BY <1>1, <1>4, <2>1 DEF RoundStep, RoundStarts, RoundDeploys, RoundEnds, RoundSkips, rows
<1>5. CASE UpdateStep
  <2>1. ASSUME NEW u \in updates, WriteUpdate(u) PROVE UNCHANGED Placement!vars
    <3>1. u.pod \in Pods /\ u.status \in Reported
      BY <1>0 DEF UpdateType, Update
    <3>. QED BY <3>1, <2>1, <1>2 DEF WriteUpdate
  <2>. QED BY <1>1, <1>5, <2>1 DEF UpdateStep, CheckUpdate, rows
<1>6. CASE DeletionStep
  <2>1. CASE DeleteStops
    <3>1. deletion.pod \in Pods
      BY <2>1, <1>0 DEF DeleteStops, DeletionTargets
    <3>. QED BY <3>1, <2>1, <1>2 DEF DeleteStops, Reported
  <2>2. CASE DeleteRow
    <3>1. deletion.pod \in Pods
      BY <2>2, <1>0 DEF DeleteRow, DeletionTargets
    <3>2. \A p \in Pods : Named(p)' = IF p = deletion.pod THEN Nodes ELSE Named(p)
      BY <3>1, <2>2, <1>0 DEF DeleteRow, Named, RowTypes
    <3>3. May' = [May EXCEPT ![deletion.pod] = Nodes] /\ Runs' = Runs
      BY <3>1, <3>2, Places
    <3>4. Placement!Forget(deletion.pod)
      BY <3>3 DEF Placement!Forget, May, Runs
    <3>. QED BY <3>1, <3>4 DEF Placement!Next
  <2>. QED BY <1>1, <1>6, <2>1, <2>2 DEF DeletionStep, DeleteTells, rows
<1>. QED BY <1>3, <1>4, <1>5, <1>6

(* A process of q that goes, or none. *)
LEMMA ProcessEnds ==
  ASSUME FleetInv, NEW n \in Nodes, NEW q \in Pods, UNCHANGED <<podStatus, podNode>>,
         \/ local[n][q] # "none"
         \/ \A m \in Nodes : ~ Home(m, q),
         local' = [local EXCEPT ![n][q] = "none"]
  PROVE  Placement!Next
<1>1. local \in [Nodes -> [Pods -> {"none", "running", "stopping"}]]
  BY DEF FleetInv, FleetTypes, TypeOK
<1>2. \A m \in Nodes : Home(m, q) => m = n
  BY DEF FleetInv, StartInv, PodInv, StartedOnce, Home
<1>3. \A m \in Nodes : local'[m][q] = "none"
  BY <1>1, <1>2 DEF Home
<1>4. \A m \in Nodes, p \in Pods : p # q => local'[m][p] = local[m][p]
  BY <1>1
<1>5. \A p \in Pods : Homes(p)' = IF p = q THEN {} ELSE Homes(p)
  BY <1>3, <1>4 DEF Homes
<1>6. May' = May /\ Runs' = [Runs EXCEPT ![q] = {}]
  BY <1>5, Moves
<1>7. Placement!End(q)
  BY <1>6 DEF Placement!End, May, Runs
<1>. QED BY <1>7 DEF Placement!Next

LEMMA DeployRefines ==
  ASSUME FleetInv, NEW n \in Nodes, HandleDeploy(n)
  PROVE  [Placement!Next]_(Placement!vars)
<1>0. NodeTypes
  BY TypeParts DEF FleetInv, FleetTypes
<1>1. PICK q \in Pods : q = Head(toNode[n]).pod
  BY <1>0, ReceiveTypes DEF HandleDeploy
<1>2. Receive(n, "deploy") /\ UNCHANGED <<podStatus, podNode>>
  BY DEF HandleDeploy, rows
<1>3. Sent(n, 1, q)
  <2>1. toNode[n] \in Seq(Message) /\ toNode[n] # <<>>
    BY <1>2, <1>0 DEF Receive, NodeTypes
  <2>2. 1 \in DOMAIN toNode[n] /\ toNode[n][1] = Head(toNode[n]) /\ toNode[n][1] \in Message
    BY <2>1
  <2>. QED BY <2>2, <1>1, <1>2 DEF Receive, Message, Sent
<1>4. \A m \in Nodes : ~ Home(m, q)
  BY <1>3 DEF FleetInv, StartInv, PodInv, StartedOnce
<1>5. local \in [Nodes -> [Pods -> {"none", "running", "stopping"}]]
  BY <1>0 DEF NodeTypes
<1>6. CASE UNCHANGED local
  BY <1>2, <1>6, Stutters DEF Named, Homes
<1>7. CASE local' = [local EXCEPT ![n][q] = "none"]
  BY <1>2, <1>4, <1>7, ProcessEnds
<1>8. CASE local' = [local EXCEPT ![n][q] = "running"]
  <2>1. \A m \in Nodes : local'[m][q] = IF m = n THEN "running" ELSE "none"
    BY <1>4, <1>5, <1>8 DEF Home
  <2>2. \A m \in Nodes, p \in Pods : p # q => local'[m][p] = local[m][p]
    BY <1>5, <1>8
  <2>3. \A p \in Pods : Homes(p)' = IF p = q THEN {n} ELSE Homes(p)
    BY <2>1, <2>2 DEF Homes
  <2>4. May' = May /\ Runs' = [Runs EXCEPT ![q] = {n}]
    BY <2>3, <1>2, Moves
  <2>5. Runs[q] = {}
    BY <1>4 DEF Runs, Homes, Home
  <2>6. n \in May[q]
    <3>1. Headed(n, q)
      BY <1>3 DEF Headed
    <3>2. podStatus[q] # "none" => podNode[q] = n
      BY <3>1 DEF FleetInv, PlaceInv, Matches
    <3>. QED BY <3>2, FleetAssumption DEF May, Named
  <2>7. Placement!Start(q, n)
    BY <2>4, <2>5, <2>6 DEF Placement!Start, May, Runs
  <2>. QED BY <2>7 DEF Placement!Next
<1>. QED BY <1>1, <1>6, <1>7, <1>8 DEF HandleDeploy

LEMMA StepPlaces ==
  ASSUME FleetInv, [Next]_vars
  PROVE  [Placement!Next]_(Placement!vars)
<1>0. NodeTypes /\ RowTypes
  BY TypeParts DEF FleetInv, FleetTypes
<1>1. local \in [Nodes -> [Pods -> {"none", "running", "stopping"}]]
  BY <1>0 DEF NodeTypes
<1>2. ASSUME UNCHANGED <<podStatus, podNode, local>> PROVE UNCHANGED Placement!vars
  BY <1>2, Stutters DEF Named, Homes
<1>3. CASE PassStep \/ RoundStep \/ UpdateStep \/ DeletionStep
  <2>1. UNCHANGED local
    BY <1>3
    DEF PassStep, PassStarts, PassLists, PassListsNodes, DeployDaemonPod, StopExcess, PassEnds,
        CreatePod, CreateDaemonPod, MarkStopping, RoundStep, RoundStarts, RoundDeploys, RoundEnds,
        RoundSkips, RoundAssigns, UpdateStep, CheckUpdate, WriteUpdate, DeletionStep, DeleteStops,
        DeleteTells, DeleteRow, nodeVars
  <2>. QED BY <2>1, <1>3, RowsRefine
<1>4. ASSUME NEW n \in Nodes, HandleStop(n) PROVE UNCHANGED Placement!vars
  <2>1. PICK q \in Pods : q = Head(toNode[n]).pod
    BY <1>4, <1>0, ReceiveTypes DEF HandleStop
  <2>2. \/ UNCHANGED local
        \/ local[n][q] = "running" /\ local' = [local EXCEPT ![n][q] = "stopping"]
    BY <1>4, <2>1 DEF HandleStop
  <2>3. \A m \in Nodes, p \in Pods : local'[m][p] # "none" <=> local[m][p] # "none"
    BY <2>2, <1>1
  <2>4. \A p \in Pods : Homes(p)' = Homes(p)
    BY <2>3 DEF Homes
  <2>5. UNCHANGED <<podStatus, podNode>>
    BY <1>4 DEF HandleStop, rows
  <2>. QED BY <2>4, <2>5, Stutters DEF Named
<1>5. ASSUME NEW n \in Nodes, NEW q \in Pods, StopCompletes(n, q) \/ PodExits(n, q)
      PROVE  Placement!Next
  BY <1>5, ProcessEnds DEF StopCompletes, PodExits, rows
<1>6. ASSUME NEW n \in Nodes, NEW crash \in BOOLEAN, Disconnect(n, crash)
      PROVE  [Placement!Next]_(Placement!vars)
  <2>1. CASE UNCHANGED local
    BY <2>1, <1>2, <1>6 DEF Disconnect, rows
  <2>2. CASE local' = [local EXCEPT ![n] = [p \in Pods |-> "none"]]
    <3>1. \A p \in Pods : Homes(p)' = Homes(p) \ {n}
      BY <2>2, <1>1 DEF Homes
    <3>2. May' = May
      BY <1>6 DEF Disconnect, rows, May, Named
    <3>3. Runs' = [p \in Pods |-> Runs[p] \ {n}]
      BY <3>1 DEF Runs
    <3>4. Placement!Crash(n)
      BY <3>2, <3>3 DEF Placement!Crash, May, Runs
    <3>. QED BY <3>4 DEF Placement!Next
  <2>. QED BY <1>6, <2>1, <2>2 DEF Disconnect
<1>7. ASSUME NEW n \in Nodes, RevokePods(n) \/ Reconnect(n) PROVE UNCHANGED Placement!vars
  <2>1. UNCHANGED <<podNode, local>>
    BY <1>7 DEF RevokePods, Reconnect, nodeVars
  <2>2. \A p \in Pods : podStatus'[p] = "none" <=> podStatus[p] = "none"
    BY <1>7, <1>0 DEF RevokePods, Reconnect, ActivePods, Active, RowTypes
  <2>. QED BY <2>1, <2>2, Stutters DEF Named, Homes
<1>8. ASSUME NEW r, ScaleService(r) PROVE UNCHANGED Placement!vars
  BY <1>2, <1>8 DEF ScaleService, rows, nodeVars
<1>9. ASSUME NEW p \in Pods, DeleteReads(p) PROVE UNCHANGED Placement!vars
  BY <1>2, <1>9 DEF DeleteReads, rows, nodeVars
<1>10. ASSUME NEW q \in Pods, EvictPod(q) PROVE UNCHANGED Placement!vars
  <2>1. UNCHANGED <<podNode, local>>
    BY <1>10 DEF EvictPod, WriteStatus, nodeVars
  <2>2. \A p \in Pods : podStatus'[p] = "none" <=> podStatus[p] = "none"
    BY <1>10, <1>0 DEF EvictPod, WriteStatus, RowTypes
  <2>. QED BY <2>1, <2>2, Stutters DEF Named, Homes
<1>11. CASE UNCHANGED vars
  BY <1>2, <1>11 DEF vars, rows, nodeVars
<1>. QED
  BY <1>3, <1>4, <1>5, <1>6, <1>7, <1>8, <1>9, <1>10, <1>11, DeployRefines DEF Next, NodeStep

(* The fleet keeps what PodPlaces promises: whoever writes the rows and    *)
(* whatever is lost or crashes, a pod starts only on the node its row      *)
(* names, on one node at a time, and its row names another node only once  *)
(* no process of it is left.                                               *)
THEOREM PlacementIsKept == Spec => ImplementsPlacement
<1>1. Init => Placement!Init
  BY DEF Init, Placement!Init, Named, Homes
<1>2. FleetInv /\ [Next]_vars => [Placement!Next]_(Placement!vars)
  BY StepPlaces
<1>. QED BY <1>1, <1>2, FleetInvHolds, PTL DEF Spec, ImplementsPlacement, Placement!Spec

(* A process is where its row says, for as long as there is a row.         *)
THEOREM ProcessesAreInPlace == Spec => []Placement!RunsInPlace
<1>1. FleetInv => Placement!RunsInPlace
  <2> SUFFICES ASSUME FleetInv, NEW p \in Pods, NEW n \in Homes(p) PROVE n \in Named(p)
    BY DEF Placement!RunsInPlace
  <2>1. n \in Nodes /\ Headed(n, p)
    BY DEF Homes, Headed, Home
  <2>. QED BY <2>1, FleetAssumption DEF FleetInv, PlaceInv, Matches, Named
<1>. QED BY <1>1, FleetInvHolds, PTL

(* Rows, messages, passes and rounds keep their types, no pod is started   *)
(* twice, and none runs where its row does not have it.                    *)
THEOREM FleetIsSafe == Spec => []FleetSafe
BY TypeCorrect, PodRunsOnce, ProcessesAreInPlace, PTL DEF FleetSafe

=============================================================================
