------------------------------- MODULE PodFleet -------------------------------
(***************************************************************************)
(* The pods of one service: the rows of table pods, the processes on the   *)
(* nodes, and the four parties that write rows without asking each other:  *)
(* the service controller (replicas or DaemonSet), the scheduler, the API  *)
(* and the status updates of the nodes.                                    *)
(*                                                                         *)
(* Each works on what it read several awaits ago, and all but schedulePod  *)
(* write without a condition on the row.  A status update is a handler of  *)
(* its own as soon as it is received: two updates of the same pod may be   *)
(* written in either order.  Messages to a node keep their order and are   *)
(* lost when its socket goes.                                              *)
(***************************************************************************)
EXTENDS Integers, FiniteSets, Sequences

CONSTANTS Nodes,         (* node agents                                     *)
          Flaky,         (* those that may fail or lose their socket        *)
          Pods,          (* pod rows that may exist at the same time        *)
          None,          (* SQL NULL                                        *)
          MaxReplicas,   (* bound: replicas a user asks for                 *)
          MaxFaults      (* bound: lost sockets, exits, deletions, scalings, *)
                         (* evictions                                       *)

ASSUME FleetAssumption ==
  /\ MaxReplicas \in Nat \ {0}
  /\ MaxFaults \in Nat
  /\ Flaky \subseteq Nodes
  /\ IsFiniteSet(Nodes) /\ IsFiniteSet(Pods)
  /\ None \notin Nodes \cup Pods

VARIABLES
  replicas,           (* services.replicas; 0 asks for one pod per node     *)
  podStatus, podNode, (* table pods; "none" where there is no row           *)
  connected,          (* nodes that are online over an open socket          *)
  local,              (* what each node's pod handler runs                  *)
  toNode,             (* messages under way to each node                    *)
  updates,            (* handlers of pod:status:update in flight            *)
  pass,               (* the controller's pass over the service             *)
  round,              (* the scheduler's round                              *)
  deletion,           (* a DELETE /api/pods/:id in flight                   *)
  revived,            (* history: rows that left a terminal status          *)
  faults              (* bound                                              *)

rows     == <<podStatus, podNode, revived>>
nodeVars == <<connected, local, toNode>>
vars == <<replicas, rows, nodeVars, updates, pass, round, deletion, faults>>

(* "placed" stands for scheduled, starting and running, "ended" for        *)
(* stopped and failed: no decision below tells them apart.                 *)
Active   == {"pending", "placed", "stopping"}
Terminal == {"ended", "evicted"}
Reported == {"placed", "stopping", "ended"}

ActivePods == {p \in Pods : podStatus[p] \in Active}

Message == [type : {"deploy", "stop"}, pod : Pods]
Update  == [pod : Pods, status : Reported, step : {"check", "write"}]

NoPass == [pc |-> "idle", want |-> 0, create |-> 0, remove |-> {}, nodes |-> {},
           pod |-> None, node |-> None]
NoRound == [pc |-> "idle", pods |-> {}, nodes |-> {}, pod |-> None, node |-> None]
NoDeletion == [pc |-> "idle", pod |-> None, node |-> None]

Init ==
  /\ replicas \in 0 .. MaxReplicas
  /\ podStatus = [p \in Pods |-> "none"]
  /\ podNode = [p \in Pods |-> None]
  /\ connected = Nodes
  /\ local = [n \in Nodes |-> [p \in Pods |-> "none"]]
  /\ toNode = [n \in Nodes |-> <<>>]
  /\ updates = {}
  /\ pass = NoPass
  /\ round = NoRound
  /\ deletion = NoDeletion
  /\ revived = {}
  /\ faults = 0

-----------------------------------------------------------------------------
(* Rows *)

(* An update statement by id; it matches nothing when the row is gone. *)
WriteStatus(p, s) ==
  /\ podStatus' = [podStatus EXCEPT ![p] = IF @ = "none" THEN @ ELSE s]
  /\ revived' = IF podStatus[p] \in Terminal /\ s \in Active THEN revived \cup {p} ELSE revived
  /\ UNCHANGED podNode

(* Nothing refers to the old pod of this name any more: the name stands    *)
(* for a new row.                                                          *)
Unused(p) ==
  /\ podStatus[p] \in Terminal \cup {"none"}
  /\ \A n \in Nodes : local[n][p] = "none" /\ \A i \in DOMAIN toNode[n] : toNode[n][i].pod # p
  /\ \A u \in updates : u.pod # p
  /\ pass.pod # p /\ \A r \in pass.remove : r.pod # p
  /\ round.pod # p /\ p \notin round.pods
  /\ deletion.pod # p

InsertRow(p, s, n) ==
  /\ Unused(p)
  /\ podStatus' = [podStatus EXCEPT ![p] = s]
  /\ podNode' = [podNode EXCEPT ![p] = n]
  /\ revived' = revived \ {p}

(* sendToConnection: lost unless the node's socket is open. *)
Send(n, type, p) ==
  toNode' = IF n \in connected
            THEN [toNode EXCEPT ![n] = Append(@, [type |-> type, pod |-> p])]
            ELSE toNode

-----------------------------------------------------------------------------
(* The service controller: one pass, from the list of services to the last *)
(* pod it creates or stops.                                                *)

PassStarts ==
  /\ pass.pc = "idle"
  /\ pass' = [NoPass EXCEPT !.pc = "pods", !.want = replicas]
  /\ UNCHANGED <<replicas, rows, nodeVars, updates, round, deletion, faults>>

(* Mutant: pods that no node has taken yet are not counted. *)
CountedRunning == {p \in Pods : podStatus[p] \in {"placed", "stopping"}}

(* Filter of the rows that count: all but stopped, failed and evicted. *)
Counted == {p \in Pods : podStatus[p] \notin Terminal \cup {"none"}}

(* The pods a scale-down stops: as many as exceed the replicas, less those *)
(* that are stopping already (the newest ones first, which is left open).  *)
ExcessOf(want) ==
  LET candidates == {p \in Counted : podStatus[p] # "stopping"}
      excess == Cardinality(Counted) - want - Cardinality(Counted \ candidates)
  IN  IF excess <= 0 THEN {{}}
      ELSE {S \in SUBSET candidates :
              Cardinality(S) = IF excess < Cardinality(candidates) THEN excess
                               ELSE Cardinality(candidates)}

(* listPodsByService; what follows before the next await is decided here. *)
PassLists ==
  /\ pass.pc = "pods"
  /\ \/ /\ pass.want = 0
        /\ pass' = [pass EXCEPT !.pc = "nodes", !.nodes = {podNode[p] : p \in Counted} \ {None}]
     \/ /\ pass.want > 0 /\ Cardinality(Counted) < pass.want
        /\ pass' = [pass EXCEPT !.pc = "create", !.create = pass.want - Cardinality(Counted)]
     \/ /\ pass.want > 0 /\ Cardinality(Counted) >= pass.want
        /\ \E S \in ExcessOf(pass.want) :
             pass' = [pass EXCEPT !.pc = "mark",
                                  !.remove = {[pod |-> p, node |-> podNode[p]] : p \in S}]
  /\ UNCHANGED <<replicas, rows, nodeVars, updates, round, deletion, faults>>

(* DaemonSet: the nodes online now that had no pod then. *)
PassListsNodes ==
  /\ pass.pc = "nodes"
  /\ pass' = [pass EXCEPT !.pc = "daemon", !.nodes = connected \ pass.nodes]
  /\ UNCHANGED <<replicas, rows, nodeVars, updates, round, deletion, faults>>

CreatePod(p) ==
  /\ pass.pc = "create" /\ pass.create > 0
  /\ InsertRow(p, "pending", None)
  /\ pass' = [pass EXCEPT !.create = @ - 1]
  /\ UNCHANGED <<replicas, nodeVars, updates, round, deletion, faults>>

(* A DaemonSet's pod is inserted with its node, as scheduled. *)
CreateDaemonPod(n, p) ==
  /\ pass.pc = "daemon" /\ n \in pass.nodes
  /\ InsertRow(p, "placed", n)
  /\ pass' = [pass EXCEPT !.pc = "deploy", !.nodes = @ \ {n}, !.pod = p, !.node = n]
  /\ UNCHANGED <<replicas, nodeVars, updates, round, deletion, faults>>

(* deployPodToNode reads node and pod again, but not the pod's status. *)
DeployDaemonPod ==
  /\ pass.pc = "deploy"
  /\ \/ /\ podStatus[pass.pod] # "none"
        /\ Send(pass.node, "deploy", pass.pod)
     \/ /\ podStatus[pass.pod] = "none"
        /\ UNCHANGED toNode
  /\ pass' = [pass EXCEPT !.pc = "daemon", !.pod = None, !.node = None]
  /\ UNCHANGED <<replicas, rows, connected, local, updates, round, deletion, faults>>

(* updatePod(id, 'stopping'), whatever the row has become. *)
MarkStopping(r) ==
  /\ pass.pc = "mark" /\ r \in pass.remove
  /\ WriteStatus(r.pod, "stopping")
  /\ pass' = [pass EXCEPT !.pc = "stop", !.remove = @ \ {r}, !.pod = r.pod, !.node = r.node]
  /\ UNCHANGED <<replicas, nodeVars, updates, round, deletion, faults>>

(* pod:stop to the node the pod had when the list was read, if any. *)
StopExcess ==
  /\ pass.pc = "stop"
  /\ \/ /\ pass.node # None
        /\ Send(pass.node, "stop", pass.pod)
     \/ /\ pass.node = None
        /\ UNCHANGED toNode
  /\ pass' = [pass EXCEPT !.pc = "mark", !.pod = None, !.node = None]
  /\ UNCHANGED <<replicas, rows, connected, local, updates, round, deletion, faults>>

(* The end of its list (or, a bound, of the free names). *)
PassEnds ==
  /\ \/ pass.pc = "create" /\ pass.create = 0
     \/ pass.pc = "daemon" /\ pass.nodes = {}
     \/ pass.pc = "mark" /\ pass.remove = {}
     \/ pass.pc \in {"create", "daemon"} /\ \A p \in Pods : ~ Unused(p)
  /\ pass' = NoPass
  /\ UNCHANGED <<replicas, rows, nodeVars, updates, round, deletion, faults>>

-----------------------------------------------------------------------------
(* The scheduler: a round over the pods that were pending *)

Pending == {p \in Pods : podStatus[p] = "pending"}

RoundStarts ==
  /\ round.pc = "idle" /\ Pending # {} /\ connected # {}
  /\ round' = [round EXCEPT !.pc = "assign", !.pods = Pending, !.nodes = connected]
  /\ UNCHANGED <<replicas, rows, nodeVars, updates, pass, deletion, faults>>

(* schedulePod: only a row that is still pending; any compatible node. *)
SchedulePod(p, n) ==
  /\ podStatus[p] = "pending"
  /\ podStatus' = [podStatus EXCEPT ![p] = "placed"]
  /\ podNode' = [podNode EXCEPT ![p] = n]
  /\ UNCHANGED revived

RoundAssigns(p, n) ==
  /\ round.pc = "assign" /\ p \in round.pods /\ n \in round.nodes
  /\ SchedulePod(p, n)
  /\ round' = [round EXCEPT !.pc = "deploy", !.pods = @ \ {p}, !.pod = p, !.node = n]
  /\ UNCHANGED <<replicas, nodeVars, updates, pass, deletion, faults>>

(* POD_NOT_PENDING: another path took the pod, or it was stopped. *)
RoundSkips(p) ==
  /\ round.pc = "assign" /\ p \in round.pods
  /\ podStatus[p] # "pending"
  /\ round' = [round EXCEPT !.pods = @ \ {p}]
  /\ UNCHANGED <<replicas, rows, nodeVars, updates, pass, deletion, faults>>

RoundDeploys ==
  /\ round.pc = "deploy"
  /\ \/ /\ podStatus[round.pod] # "none"
        /\ Send(round.node, "deploy", round.pod)
     \/ /\ podStatus[round.pod] = "none"
        /\ UNCHANGED toNode
  /\ round' = [round EXCEPT !.pc = "assign", !.pod = None, !.node = None]
  /\ UNCHANGED <<replicas, rows, connected, local, updates, pass, deletion, faults>>

(* Mutant: isProcessing is not reset. *)
RoundHangs ==
  /\ round.pc = "assign" /\ round.pods = {}
  /\ round' = [NoRound EXCEPT !.pc = "assign"]
  /\ UNCHANGED <<replicas, rows, nodeVars, updates, pass, deletion, faults>>

RoundEnds ==
  /\ round.pc = "assign" /\ round.pods = {}
  /\ round' = NoRound
  /\ UNCHANGED <<replicas, rows, nodeVars, updates, pass, deletion, faults>>

-----------------------------------------------------------------------------
(* The node's pod handler.  A status is sent only while registered.        *)

Report(n, p, statuses) ==
  updates' = IF n \in connected
             THEN updates \cup {[pod |-> p, status |-> s, step |-> "check"] : s \in statuses}
             ELSE updates

Receive(n, type) ==
  /\ toNode[n] # <<>> /\ Head(toNode[n]).type = type
  /\ toNode' = [toNode EXCEPT ![n] = Tail(@)]

(* handleDeploy: refused while the pod runs; starting and then running, or *)
(* failed when the executor throws, are reported in one turn.  (What a     *)
(* starting can do to the row a running can do as well.)                   *)
HandleDeploy(n) ==
  LET p == Head(toNode[n]).pod IN
  /\ Receive(n, "deploy")
  /\ \/ /\ local[n][p] = "running"
        /\ UNCHANGED <<local, updates, faults>>
     \/ /\ local[n][p] # "running"
        /\ local' = [local EXCEPT ![n][p] = "running"]
        /\ Report(n, p, {"placed"})
        /\ UNCHANGED faults
     \/ /\ local[n][p] # "running" /\ n \in Flaky /\ faults < MaxFaults
        /\ local' = [local EXCEPT ![n][p] = "none"]
        /\ Report(n, p, {"placed", "ended"})
        /\ faults' = faults + 1
  /\ UNCHANGED <<replicas, rows, connected, pass, round, deletion>>

(* handleStop: an error, and no report, unless the pod runs. *)
HandleStop(n) ==
  LET p == Head(toNode[n]).pod IN
  /\ Receive(n, "stop")
  /\ \/ /\ local[n][p] = "running"
        /\ local' = [local EXCEPT ![n][p] = "stopping"]
        /\ Report(n, p, {"stopping"})
     \/ /\ local[n][p] # "running"
        /\ UNCHANGED <<local, updates>>
  /\ UNCHANGED <<replicas, rows, connected, pass, round, deletion, faults>>

StopCompletes(n, p) ==
  /\ local[n][p] = "stopping"
  /\ local' = [local EXCEPT ![n][p] = "none"]
  /\ Report(n, p, {"ended"})
  /\ UNCHANGED <<replicas, rows, connected, toNode, pass, round, deletion, faults>>

(* handleExecutionComplete of a process that ended by itself. *)
PodExits(n, p) ==
  /\ local[n][p] = "running" /\ n \in Flaky /\ faults < MaxFaults
  /\ faults' = faults + 1
  /\ local' = [local EXCEPT ![n][p] = "none"]
  /\ Report(n, p, {"ended"})
  /\ UNCHANGED <<replicas, rows, connected, toNode, pass, round, deletion>>

-----------------------------------------------------------------------------
(* pod:status:update at the server *)

(* stopping is compared with the row first ... *)
CheckUpdate(u) ==
  /\ u \in updates /\ u.step = "check" /\ u.status = "stopping"
  /\ updates' = (updates \ {u}) \cup
       (IF podStatus[u.pod] \in Terminal THEN {} ELSE {[u EXCEPT !.step = "write"]})
  /\ UNCHANGED <<replicas, rows, nodeVars, pass, round, deletion, faults>>

(* ... and written later; running, stopped and failed are just written.    *)
WriteUpdate(u) ==
  /\ u \in updates
  /\ u.step = "write" \/ u.status # "stopping"
  /\ WriteStatus(u.pod, u.status)
  /\ updates' = updates \ {u}
  /\ UNCHANGED <<replicas, nodeVars, pass, round, deletion, faults>>

-----------------------------------------------------------------------------
(* Sockets and nodes (NodeLease has the details) *)

(* The socket goes, and with it what is under way; or the agent's process  *)
(* dies and its pods with it.                                              *)
Disconnect(n, crash) ==
  /\ n \in connected /\ n \in Flaky /\ faults < MaxFaults
  /\ faults' = faults + 1
  /\ connected' = connected \ {n}
  /\ toNode' = [toNode EXCEPT ![n] = <<>>]
  /\ local' = IF crash THEN [local EXCEPT ![n] = [p \in Pods |-> "none"]] ELSE local
  /\ UNCHANGED <<replicas, rows, updates, pass, round, deletion>>

(* Mutant: the pods of a dead node wait for another one. *)
RescheduleLost(n) ==
  /\ n \notin connected
  /\ \E p \in ActivePods : podNode[p] = n
  /\ podStatus' = [p \in Pods |-> IF p \in ActivePods /\ podNode[p] = n THEN "pending"
                                  ELSE podStatus[p]]
  /\ UNCHANGED <<replicas, podNode, revived, nodeVars, updates, pass, round, deletion, faults>>

(* Mutant: revocation takes the node out of the rows, too. *)
RevokeUnassigns(n) ==
  /\ n \notin connected
  /\ \E p \in ActivePods : podNode[p] = n
  /\ podStatus' = [p \in Pods |-> IF p \in ActivePods /\ podNode[p] = n THEN "ended"
                                  ELSE podStatus[p]]
  /\ podNode' = [p \in Pods |-> IF p \in ActivePods /\ podNode[p] = n THEN None ELSE podNode[p]]
  /\ UNCHANGED <<replicas, revived, nodeVars, updates, pass, round, deletion, faults>>

(* The lease runs out: revokePodsOnNode. *)
RevokePods(n) ==
  /\ n \notin connected
  /\ \E p \in ActivePods : podNode[p] = n
  /\ podStatus' = [p \in Pods |-> IF p \in ActivePods /\ podNode[p] = n THEN "ended"
                                  ELSE podStatus[p]]
  /\ UNCHANGED <<replicas, podNode, revived, nodeVars, updates, pass, round, deletion, faults>>

RunningOn(n) == {p \in Pods : local[n][p] = "running"}

(* Mutant: rows of this node that ended meanwhile are overlooked. *)
StaleRows(n) == {p \in RunningOn(n) : podStatus[p] = "none" \/ podNode[p] # n}

(* What the node should not be running: rows that are gone, assigned       *)
(* elsewhere, stopped or failed; not those that are evicted.               *)
StalePods(n) == {p \in RunningOn(n) :
                   podStatus[p] = "none" \/ podNode[p] # n \/ podStatus[p] = "ended"}

(* node:reconnect: orphans (active rows the node does not run) are         *)
(* stopped, stale pods are told to stop, in some order.                    *)
Reconnect(n) ==
  /\ n \notin connected
  /\ connected' = connected \cup {n}
  /\ podStatus' = [p \in Pods |-> IF p \in ActivePods \ RunningOn(n) /\ podNode[p] = n
                                  THEN "ended" ELSE podStatus[p]]
  /\ \E stops \in [1 .. Cardinality(StalePods(n)) -> StalePods(n)] :
       /\ \A i, j \in DOMAIN stops : i # j => stops[i] # stops[j]
       /\ toNode' = [toNode EXCEPT ![n] = [i \in DOMAIN stops |->
                                             [type |-> "stop", pod |-> stops[i]]]]
  /\ UNCHANGED <<replicas, podNode, revived, local, updates, pass, round, deletion, faults>>

-----------------------------------------------------------------------------
(* The API *)

ScaleService(r) ==
  /\ faults < MaxFaults /\ r # replicas
  /\ replicas' = r
  /\ faults' = faults + 1
  /\ UNCHANGED <<rows, nodeVars, updates, pass, round, deletion>>

(* pod:evict: the row is marked, whatever it is; the node is not told.     *)
EvictPod(p) ==
  /\ podStatus[p] # "none" /\ faults < MaxFaults
  /\ faults' = faults + 1
  /\ WriteStatus(p, "evicted")
  /\ UNCHANGED <<replicas, nodeVars, updates, pass, round, deletion>>

(* DELETE /api/pods/:id reads the row, stops it if it looked alive, tells  *)
(* the node it had, and deletes the row.                                   *)
DeleteReads(p) ==
  /\ deletion.pc = "idle" /\ podStatus[p] # "none" /\ faults < MaxFaults
  /\ faults' = faults + 1
  /\ deletion' = [pc |-> IF podStatus[p] = "placed"
                         THEN "stop" ELSE "delete",
                  pod |-> p, node |-> podNode[p]]
  /\ UNCHANGED <<replicas, rows, nodeVars, updates, pass, round>>

DeleteStops ==
  /\ deletion.pc = "stop"
  /\ WriteStatus(deletion.pod, "ended")
  /\ deletion' = [deletion EXCEPT !.pc = "tell"]
  /\ UNCHANGED <<replicas, nodeVars, updates, pass, round, faults>>

DeleteTells ==
  /\ deletion.pc = "tell"
  /\ Send(deletion.node, "stop", deletion.pod)
  /\ deletion' = [deletion EXCEPT !.pc = "delete"]
  /\ UNCHANGED <<replicas, rows, connected, local, updates, pass, round, faults>>

DeleteRow ==
  /\ deletion.pc = "delete"
  /\ podStatus' = [podStatus EXCEPT ![deletion.pod] = "none"]
  /\ podNode' = [podNode EXCEPT ![deletion.pod] = None]
  /\ revived' = revived \ {deletion.pod}
  /\ deletion' = NoDeletion
  /\ UNCHANGED <<replicas, nodeVars, updates, pass, round, faults>>

-----------------------------------------------------------------------------
PassStep ==
  \/ PassStarts \/ PassLists \/ PassListsNodes \/ DeployDaemonPod \/ StopExcess \/ PassEnds
  \/ \E p \in Pods : CreatePod(p) \/ \E n \in Nodes : CreateDaemonPod(n, p)
  \/ \E r \in pass.remove : MarkStopping(r)

RoundStep ==
  \/ RoundStarts \/ RoundDeploys \/ RoundEnds
  \/ \E p \in Pods : RoundSkips(p) \/ \E n \in Nodes : RoundAssigns(p, n)

NodeStep(n) ==
  \/ HandleDeploy(n) \/ HandleStop(n)
  \/ \E p \in Pods : StopCompletes(n, p)

UpdateStep == \E u \in updates : CheckUpdate(u) \/ WriteUpdate(u)

DeletionStep == DeleteStops \/ DeleteTells \/ DeleteRow

Next ==
  \/ PassStep \/ RoundStep \/ UpdateStep \/ DeletionStep
  \/ \E n \in Nodes : \/ NodeStep(n) \/ RevokePods(n) \/ Reconnect(n)
                      \/ \E crash \in BOOLEAN : Disconnect(n, crash)
                      \/ \E p \in Pods : PodExits(n, p)
  \/ \E r \in 0 .. MaxReplicas : ScaleService(r)
  \/ \E p \in Pods : DeleteReads(p) \/ EvictPod(p)

Spec == Init /\ [][Next]_vars

(* The two cycles go on, handlers that started end, messages on an open    *)
(* socket arrive, an agent that lost its socket reconnects.                *)
Fairness ==
  /\ WF_vars(PassStep)
  /\ WF_vars(RoundStep)
  /\ WF_vars(DeletionStep)
  /\ \A p \in Pods : WF_vars(\E u \in updates : u.pod = p /\ (CheckUpdate(u) \/ WriteUpdate(u)))
  /\ \A n \in Nodes : WF_vars(NodeStep(n)) /\ WF_vars(Reconnect(n))

FairSpec == Spec /\ Fairness

-----------------------------------------------------------------------------
TypeOK ==
  /\ replicas \in 0 .. MaxReplicas
  /\ podStatus \in [Pods -> Active \cup Terminal \cup {"none"}]
  /\ podNode \in [Pods -> Nodes \cup {None}]
  /\ connected \in SUBSET Nodes
  /\ local \in [Nodes -> [Pods -> {"none", "running", "stopping"}]]
  /\ toNode \in [Nodes -> Seq(Message)]
  /\ updates \in SUBSET Update
  /\ pass \in [pc : {"idle", "pods", "nodes", "create", "daemon", "deploy", "mark", "stop"},
               want : 0 .. MaxReplicas, create : 0 .. MaxReplicas,
               remove : SUBSET [pod : Pods, node : Nodes \cup {None}],
               nodes : SUBSET Nodes, pod : Pods \cup {None}, node : Nodes \cup {None}]
  /\ round \in [pc : {"idle", "assign", "deploy"}, pods : SUBSET Pods, nodes : SUBSET Nodes,
                pod : Pods \cup {None}, node : Nodes \cup {None}]
  /\ deletion \in [pc : {"idle", "stop", "tell", "delete"},
                   pod : Pods \cup {None}, node : Nodes \cup {None}]
  /\ revived \in SUBSET Pods
  /\ faults \in 0 .. MaxFaults

(* Messages that would start pod p. *)
Deploys(p) == {m \in UNION {{n} \X DOMAIN toNode[n] : n \in Nodes} :
                 toNode[m[1]][m[2]] = [type |-> "deploy", pod |-> p]}

(* A pod is started once: while a process of it runs no other deploy of it *)
(* is under way or about to be sent, and none ever runs on two nodes.      *)
(* Relates the guard of schedulePod, the DaemonSet path, which inserts the *)
(* row past the scheduler, and reconnects of nodes that kept their pods.   *)
SingleProcess ==
  \A p \in Pods :
    LET homes == {n \in Nodes : local[n][p] # "none"}
        deploying == Cardinality(Deploys(p))
                     + (IF pass.pc = "deploy" /\ pass.pod = p THEN 1 ELSE 0)
                     + (IF round.pc = "deploy" /\ round.pod = p THEN 1 ELSE 0)
    IN  Cardinality(homes) + deploying <= 1

(* A process runs where its row says, and its row names another node only  *)
(* once no process of it is left: the fleet implements PodPlaces.  A row   *)
(* that is gone names no node, and forbids none until the deploy that may  *)
(* still be under way has arrived.                                         *)
Homes(p) == {n \in Nodes : local[n][p] # "none"}
Named(p) == IF podStatus[p] = "none" THEN Nodes ELSE {podNode[p]} \ {None}
Placement == INSTANCE PodPlaces
  WITH may <- [p \in Pods |-> Named(p)], runs <- [p \in Pods |-> Homes(p)]
ImplementsPlacement == Placement!Spec

(* Types, one start of each pod, and processes where their rows are.       *)
FleetSafe == TypeOK /\ SingleProcess /\ Placement!RunsInPlace

(* A pass never overshoots: whatever became of the pods it counted, what   *)
(* it has still to create fits into the replicas it read, except for rows  *)
(* that a late update brought back from the dead.                          *)
CreatesOnlyMissing ==
  pass.pc = "create" => Cardinality(ActivePods \ revived) + pass.create <= pass.want

(* A row that has a node keeps it for life and never waits for a node      *)
(* again: a pod is moved by replacing its row only.                        *)
PodStaysAssigned ==
  [][\A p \in Pods : podStatus[p] # "none" /\ podNode[p] # None /\ ~ Unused(p) =>
       \/ podStatus'[p] = "none"
       \/ podNode'[p] = podNode[p] /\ podStatus'[p] # "pending"]_vars

(* Fewer rows than replicas (a node without a row, for a DaemonSet) is not *)
(* a lasting state while there is a free row name.                         *)
Deficit ==
  /\ \E p \in Pods : Unused(p)
  /\ IF replicas = 0
     THEN \E n \in connected : \A p \in ActivePods : podNode[p] # n
     ELSE Cardinality(ActivePods) < replicas
DeficitIsFilled == Deficit ~> ~ Deficit

(* No pod stays pending for ever: every agent that lost its socket comes   *)
(* back, and a round assigns or skips each pod it read.                    *)
PendingIsScheduled == Pending # {} ~> Pending = {}

(* Replicas come: as rows, and as rows with a node. *)
PodsAreProvided == DeficitIsFilled /\ PendingIsScheduled

(* A process whose row was stopped, failed or deleted while its node was   *)
(* away is stopped when the node is back, unless its row counts again or   *)
(* is evicted meanwhile.                                                   *)
StaleProcessEnds ==
  \A n \in Flaky, p \in Pods :
    n \notin connected /\ local[n][p] = "running" /\ podStatus[p] \in {"ended", "none"}
      ~> local[n][p] # "running" \/ podStatus[p] \in Active \cup {"evicted"}

(* What the code's comments say and the code does not keep (README); TLC    *)
(* refutes it, and no run is kept of it: an evicted pod is "removed due to *)
(* resource pressure" (shared/src/types/pod.ts:22).  Neither the eviction   *)
(* nor a reconnect tells the node.                                         *)
EvictedPodsAreRemoved ==
  \A n \in Nodes, p \in Pods :
    local[n][p] = "running" /\ podStatus[p] = "evicted"
      ~> local[n][p] # "running" \/ podStatus[p] # "evicted"

=============================================================================
