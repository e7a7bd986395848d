---------------------------- MODULE NodeLeaseProofs ----------------------------
(***************************************************************************)
(* Proofs about NodeLease, for any set of nodes, sockets and pods, any     *)
(* timeouts and any bounds on faults.                                      *)
(***************************************************************************)
EXTENDS NodeLease, TLAPS

(* A socket belongs to a node. *)
LEMMA NodeOfType == ASSUME NEW c \in Conns PROVE NodeOf(c) \in Nodes
BY DEF Conns, NodeOf

(* Ages stay in their range, grow by at most one and keep their order. *)
LEMMA OlderFacts ==
  ASSUME NEW a \in Ages, NEW b \in Ages
  PROVE  /\ Older(a) \in Ages
         /\ Older(a) >= a
         /\ a >= b => Older(a) >= Older(b)
BY LeaseAssumption DEF Ages, Older, MaxAge

LEMMA AgeZero == 0 \in Ages /\ MaxAge \in Ages
BY LeaseAssumption DEF Ages, MaxAge

(* The updates of a join in flight keep its type. *)
LEMMA JoinUpdates ==
  ASSUME joining \in [Conns -> JoinRecord], NEW c \in Conns, NEW q \in JoinPc,
         NEW S \in SUBSET Pods
  PROVE  /\ [joining EXCEPT ![c].pc = q] \in [Conns -> JoinRecord]
         /\ [joining EXCEPT ![c].pc = q, ![c].orphans = S] \in [Conns -> JoinRecord]
         /\ [joining EXCEPT ![c] = NoJoin] \in [Conns -> JoinRecord]
<1>1. NoJoin \in JoinRecord
  BY DEF NoJoin, JoinRecord, JoinPc
<1>2. joining[c] \in JoinRecord
  OBVIOUS
<1>3. [joining[c] EXCEPT !.pc = q] \in JoinRecord
  BY <1>2 DEF JoinRecord
<1>4. [joining[c] EXCEPT !.pc = q, !.orphans = S] \in JoinRecord
  BY <1>2 DEF JoinRecord
<1>. QED BY <1>1, <1>3, <1>4

LEMMA InitTyped == Init => TypeOK
<1> SUFFICES ASSUME Init PROVE TypeOK
  OBVIOUS
<1> USE AgeZero, LeaseAssumption DEF Init
<1>1. /\ status \in [Nodes -> NodeStatus] /\ connectionId \in [Nodes -> Conns \cup {None}]
      /\ heartbeatAge \in [Nodes -> Ages] /\ suspectAge \in [Nodes -> Ages \cup {None}]
      /\ podStatus \in [Pods -> PodStatus] /\ podNode \in [Pods -> Nodes \cup {None}]
  BY DEF NodeStatus, PodStatus
<1>2. /\ agentState \in [Nodes -> AgentState] /\ agentConn \in [Nodes -> Conns \cup {None}]
      /\ running \in [Nodes -> SUBSET Pods] /\ due \in SUBSET Nodes /\ open \in SUBSET Conns
  BY DEF AgentState
<1>3. /\ joining \in [Conns -> JoinRecord]
      /\ beating \in SUBSET Conns /\ closing \in [Conns -> ClosePc]
  BY DEF NoJoin, JoinRecord, JoinPc, ClosePc
<1>4. /\ health \in [pc : HealthPc, work : SUBSET Nodes, node : Nodes \cup {None}]
      /\ (health.pc \in {"offline", "clear"} => health.node \in Nodes)
  BY DEF NoCycle, HealthPc
<1>5. /\ sched \in [pc : SchedPc, pods : SUBSET Pods, conns : SUBSET Conns,
                    pod : Pods \cup {None}, conn : Conns \cup {None}]
      /\ (sched.pc = "deploy" => sched.pod \in Pods /\ sched.conn \in Conns)
  BY DEF NoRound, SchedPc
<1>6. restarts \in 0 .. MaxRestarts /\ dbErrors \in 0 .. MaxDbErrors /\ unheard \in SUBSET Nodes
  OBVIOUS
<1>. QED BY <1>1, <1>2, <1>3, <1>4, <1>5, <1>6 DEF TypeOK

(* The type invariant, action group by action group. *)
LEMMA AgentStepTyped ==
  ASSUME TypeOK, NEW n \in Nodes,
         \/ AgentStart(n) \/ AgentCrash(n) \/ AgentLosesConn(n) \/ Heartbeat(n)
         \/ \E c \in Conns : AgentConnect(n, c)
         \/ \E p \in Pods : PodExit(n, p)
  PROVE  TypeOK'
<1> USE DEF TypeOK, nodeRow, podRow, agentVars, handlerVars, serviceVars, faultVars
<1>1. CASE AgentStart(n)
  BY <1>1 DEF AgentStart, AgentState
<1>2. CASE AgentCrash(n)
  BY <1>2 DEF AgentCrash, AgentState
<1>3. ASSUME NEW c \in Conns, AgentConnect(n, c) PROVE TypeOK'
  BY <1>3 DEF AgentConnect, AgentState, JoinRecord, JoinPc
<1>4. CASE AgentLosesConn(n)
  BY <1>4 DEF AgentLosesConn, AgentState
<1>5. ASSUME NEW p \in Pods, PodExit(n, p) PROVE TypeOK'
  BY <1>5 DEF PodExit, PodStatus
<1>6. CASE Heartbeat(n)
  <2>1. beating' \in SUBSET Conns
    BY <1>6 DEF Heartbeat
  <2>. QED BY <1>6, <2>1 DEF Heartbeat
<1>. QED BY <1>1, <1>2, <1>3, <1>4, <1>5, <1>6

LEMMA ErrorsBounded == TypeOK /\ DbError => dbErrors' \in 0 .. MaxDbErrors
BY LeaseAssumption DEF TypeOK, DbError

LEMMA HandlerTyped ==
  ASSUME TypeOK, NEW c \in Conns, HandlerStep(c) \/ CallFails(c) \/ ServerClose(c)
  PROVE  TypeOK'
<1>0. NodeOf(c) \in Nodes
  BY NodeOfType
<1> USE <1>0, AgeZero
    DEF TypeOK, nodeRow, podRow, agentVars, handlerVars, serviceVars, faultVars
<1>1. CASE CreateNode(c)
  <2>1. joining' \in [Conns -> JoinRecord]
    BY <1>1, JoinUpdates DEF CreateNode, JoinPc
  <2>. QED BY <1>1, <2>1 DEF CreateNode, NodeStatus
<1>2. CASE AckRegister(c)
  BY <1>2 DEF AckRegister, Acknowledge, AgentState, NoJoin, JoinRecord, JoinPc
<1>3. CASE ReconnectNode(c)
  <2>1. joining' \in [Conns -> JoinRecord]
    BY <1>3, JoinUpdates DEF ReconnectNode, JoinPc
  <2>. QED BY <1>3, <2>1 DEF ReconnectNode, NodeStatus
<1>4. CASE ListOrphans(c)
  <2>1. ActiveOn(NodeOf(c)) \ joining[c].reported \in SUBSET Pods
    BY DEF ActiveOn
  <2>2. joining' \in [Conns -> JoinRecord]
    BY <1>4, <2>1, JoinUpdates DEF ListOrphans, JoinPc
  <2>. QED BY <1>4, <2>2 DEF ListOrphans
<1>5. CASE StopOrphans(c)
  <2>1. podStatus' \in [Pods -> PodStatus]
    BY <1>5 DEF StopOrphans, PodStatus
  <2>2. joining' \in [Conns -> JoinRecord]
    BY <1>5, JoinUpdates DEF StopOrphans, JoinPc
  <2>. QED BY <1>5, <2>1, <2>2 DEF StopOrphans
<1>6. CASE FinishReconnect(c)
  <2>1. running' \in [Nodes -> SUBSET Pods]
    BY <1>6 DEF FinishReconnect
  <2>2. agentState' \in [Nodes -> AgentState] /\ due' \in SUBSET Nodes
    BY <1>6 DEF FinishReconnect, Acknowledge, AgentState
  <2>3. joining' \in [Conns -> JoinRecord]
    BY <1>6, JoinUpdates DEF FinishReconnect, Acknowledge, JoinPc
  <2>. QED BY <1>6, <2>1, <2>2, <2>3 DEF FinishReconnect
<1>7. CASE UpdateHeartbeat(c)
  BY <1>7 DEF UpdateHeartbeat, NodeStatus
<1>8. CASE ListNodesOfConn(c)
  BY <1>8 DEF ListNodesOfConn, ClosePc
<1>9. CASE DisconnectMarks(c)
  BY <1>9 DEF DisconnectMarks, MarkNodeSuspect, NodeStatus, ClosePc
<1>10. CASE DisconnectClears(c)
  BY <1>10 DEF DisconnectClears, ClosePc
<1>11. CASE RequestFails(c)
  BY <1>11, LeaseAssumption DEF RequestFails, DbError, AgentState, NoJoin, JoinRecord, JoinPc
<1>12. CASE ServerClose(c)
  BY <1>12 DEF ServerClose, ClosePc
<1>13. CASE SweepFails(c)
  <2>1. dbErrors' \in 0 .. MaxDbErrors
    BY <1>13, ErrorsBounded DEF SweepFails
  <2>2. joining' \in [Conns -> JoinRecord]
    <3>1. "stale" \in JoinPc /\ {} \in SUBSET Pods
      BY DEF JoinPc
    <3>2. \/ joining' = [joining EXCEPT ![c].pc = "stale", ![c].orphans = {}]
          \/ joining' = [joining EXCEPT ![c] = NoJoin]
      BY <1>13 DEF SweepFails, Acknowledge
    <3>3. joining \in [Conns -> JoinRecord]
      OBVIOUS
    <3>4. /\ [joining EXCEPT ![c].pc = "stale", ![c].orphans = {}] \in [Conns -> JoinRecord]
          /\ [joining EXCEPT ![c] = NoJoin] \in [Conns -> JoinRecord]
      BY <3>1, <3>3, JoinUpdates
    <3>. QED BY <3>2, <3>4
  <2>3. agentState' \in [Nodes -> AgentState] /\ due' \in SUBSET Nodes
    BY <1>13 DEF SweepFails, Acknowledge, AgentState
  <2>. QED BY <1>13, <2>1, <2>2, <2>3 DEF SweepFails
<1>14. CASE HeartbeatFails(c)
  BY <1>14, LeaseAssumption DEF HeartbeatFails, DbError
<1>15. CASE DisconnectFails(c)
  BY <1>15, LeaseAssumption DEF DisconnectFails, DbError, ClosePc
<1>. QED
  BY <1>1, <1>2, <1>3, <1>4, <1>5, <1>6, <1>7, <1>8, <1>9, <1>10, <1>11, <1>12, <1>13, <1>14, <1>15
  DEF HandlerStep, CallFails

LEMMA HealthTyped == ASSUME TypeOK, HealthStep \/ HealthFails PROVE TypeOK'
<1> USE AgeZero, LeaseAssumption
    DEF TypeOK, nodeRow, podRow, agentVars, handlerVars, faultVars, HealthPc
<1>1. CASE HealthListsOnline
  BY <1>1 DEF HealthListsOnline, StaleNodes
<1>2. CASE HealthListsSuspects
  BY <1>2 DEF HealthListsSuspects, ExpiredNodes
<1>3. CASE HealthDone
  BY <1>3 DEF HealthDone
<1>4. CASE ExpireNodeLease
  BY <1>4 DEF ExpireNodeLease, NodeStatus
<1>5. CASE HealthClears
  BY <1>5 DEF HealthClears
<1>6. ASSUME NEW n \in Nodes, HealthMarks(n) PROVE TypeOK'
  BY <1>6 DEF HealthMarks, MarkNodeSuspect, NodeStatus
<1>7. ASSUME NEW n \in Nodes, RevokePodsOnNode(n) PROVE TypeOK'
  BY <1>7 DEF RevokePodsOnNode, PodStatus
<1>8. CASE HealthFails
  <2>1. dbErrors' \in 0 .. MaxDbErrors
    BY <1>8, ErrorsBounded DEF HealthFails
  <2> DEFINE Typed == /\ health' \in [pc : HealthPc, work : SUBSET Nodes, node : Nodes \cup {None}]
                      /\ (health'.pc \in {"offline", "clear"} => health'.node \in Nodes)
  <2>2. Typed
    <3>1. CASE health.pc = "due" /\ health' = [health EXCEPT !.pc = "stale"]
      BY <3>1
    <3>2. CASE health.pc = "stale" /\ health' = [health EXCEPT !.pc = "revoke"]
      BY <3>2
    <3>3. ASSUME NEW n \in health.work, health.pc = "stale", health' = [health EXCEPT !.work = @ \ {n}]
          PROVE  Typed
      BY <3>3
    <3>4. ASSUME NEW n \in health.work, health' = [health EXCEPT !.pc = "offline", !.node = n]
          PROVE  Typed
      BY <3>4
    <3>5. CASE health' = [pc |-> "revoke", work |-> health.work \ {health.node}, node |-> None]
      BY <3>5
    <3>. HIDE DEF Typed
    <3>. QED BY <1>8, <3>1, <3>2, <3>3, <3>4, <3>5 DEF HealthFails
  <2>. QED BY <1>8, <2>1, <2>2 DEF HealthFails
<1>. QED BY <1>1, <1>2, <1>3, <1>4, <1>5, <1>6, <1>7, <1>8 DEF HealthStep

LEMMA SchedulerTyped ==
  ASSUME TypeOK, SchedulerStep \/ \E p \in Pods : ReplacePod(p)
  PROVE  TypeOK'
<1> USE DEF TypeOK, nodeRow, podRow, agentVars, handlerVars, serviceVars, faultVars,
            SchedPc, PodStatus
<1>1. CASE SchedulerLists
  BY <1>1 DEF SchedulerLists, Pending, OnlineConns
<1>2. CASE DeployPodToNode
  <2>1. /\ sched.conn \in Conns /\ NodeOf(sched.conn) \in Nodes /\ sched.pod \in Pods
    BY <1>2, NodeOfType DEF DeployPodToNode
  <2>2. running' \in [Nodes -> SUBSET Pods] /\ podStatus' \in [Pods -> PodStatus]
    BY <1>2, <2>1 DEF DeployPodToNode
  <2>3. /\ sched' \in [pc : SchedPc, pods : SUBSET Pods, conns : SUBSET Conns,
                       pod : Pods \cup {None}, conn : Conns \cup {None}]
        /\ sched'.pc = "assign"
    BY <1>2 DEF DeployPodToNode
  <2>. QED BY <1>2, <2>2, <2>3 DEF DeployPodToNode
<1>3. CASE SchedulerDone
  BY <1>3 DEF SchedulerDone, NoRound
<1>4. ASSUME NEW p \in Pods, NEW c \in Conns, SchedulePod(p, c) PROVE TypeOK'
  BY <1>4, NodeOfType DEF SchedulePod
<1>5. ASSUME NEW p \in Pods, ReplacePod(p) PROVE TypeOK'
  BY <1>5 DEF ReplacePod
<1>. QED BY <1>1, <1>2, <1>3, <1>4, <1>5 DEF SchedulerStep

LEMMA RestartTyped == ASSUME TypeOK, ServerRestart PROVE TypeOK'
BY LeaseAssumption
   DEF ServerRestart, TypeOK, nodeRow, podRow, agentVars, NoJoin, JoinRecord, NoCycle, NoRound,
       JoinPc, ClosePc, HealthPc, SchedPc

LEMMA TickTyped == ASSUME TypeOK, Tick PROVE TypeOK'
<1> USE DEF TypeOK, Tick, podRow, handlerVars, faultVars
<1>1. heartbeatAge' \in [Nodes -> Ages]
  BY OlderFacts
<1>2. suspectAge' \in [Nodes -> Ages \cup {None}]
  BY OlderFacts
<1>3. /\ health' \in [pc : HealthPc, work : SUBSET Nodes, node : Nodes \cup {None}]
      /\ health'.pc = "due"
  BY DEF NoCycle, HealthPc
<1>4. /\ sched' \in [pc : SchedPc, pods : SUBSET Pods, conns : SUBSET Conns,
                     pod : Pods \cup {None}, conn : Conns \cup {None}]
      /\ sched'.pc = "due"
  BY DEF NoRound, SchedPc
<1>. QED BY <1>1, <1>2, <1>3, <1>4

LEMMA NextTyped == TypeOK /\ [Next]_vars => TypeOK'
<1> SUFFICES ASSUME TypeOK, [Next]_vars PROVE TypeOK'
  OBVIOUS
<1>1. ASSUME NEW n \in Nodes,
             \/ AgentStart(n) \/ AgentCrash(n) \/ AgentLosesConn(n) \/ Heartbeat(n)
             \/ \E c \in Conns : AgentConnect(n, c)
             \/ \E p \in Pods : PodExit(n, p)
      PROVE  TypeOK'
  BY <1>1, AgentStepTyped
<1>2. CASE \E c \in Conns : HandlerStep(c) \/ CallFails(c) \/ ServerClose(c)
  BY <1>2, HandlerTyped
<1>3. CASE HealthStep \/ HealthFails
  BY <1>3, HealthTyped
<1>4. CASE SchedulerStep \/ \E p \in Pods : ReplacePod(p)
  BY <1>4, SchedulerTyped
<1>5. CASE ServerRestart
  BY <1>5, RestartTyped
<1>6. CASE Tick
  BY <1>6, TickTyped
<1>7. CASE UNCHANGED vars
  BY <1>7 DEF TypeOK, vars, nodeRow, podRow, agentVars, handlerVars, serviceVars, faultVars
<1>. QED BY <1>1, <1>2, <1>3, <1>4, <1>5, <1>6, <1>7 DEF Next

(* Every variable keeps its type. *)
THEOREM Typing == Spec => []TypeOK
<1>. QED BY InitTyped, NextTyped, PTL DEF Spec

-----------------------------------------------------------------------------
(* The lease.  One lemma per part of LeaseInv: the actions that write the  *)
(* variables the part reads have a step each, the others share one.        *)

(* Only these actions write a row's status or ages. *)
RowFrame == UNCHANGED <<status, heartbeatAge, suspectAge>>
RowSteps ==
  \/ RowFrame
  \/ \E c \in Conns : CreateNode(c) \/ ReconnectNode(c) \/ UpdateHeartbeat(c) \/ DisconnectMarks(c)
  \/ \E n \in Nodes : HealthMarks(n)
  \/ ExpireNodeLease
  \/ Tick

LEMMA RowWriters == ASSUME [Next]_vars PROVE RowSteps
<1> USE DEF RowSteps, RowFrame, nodeRow
<1>1. ASSUME NEW n \in Nodes,
             \/ AgentStart(n) \/ AgentCrash(n) \/ AgentLosesConn(n) \/ Heartbeat(n)
             \/ \E c \in Conns : AgentConnect(n, c)
             \/ \E p \in Pods : PodExit(n, p)
      PROVE  RowSteps
  BY <1>1 DEF AgentStart, AgentCrash, AgentLosesConn, Heartbeat, AgentConnect, PodExit
<1>2. ASSUME NEW c \in Conns, HandlerStep(c) \/ CallFails(c) \/ ServerClose(c) PROVE RowSteps
  BY <1>2 DEF HandlerStep, AckRegister, ListOrphans, StopOrphans, FinishReconnect,
              ListNodesOfConn, DisconnectClears, CallFails, RequestFails, SweepFails,
              HeartbeatFails, DisconnectFails, ServerClose
<1>3. CASE HealthStep \/ HealthFails
  BY <1>3 DEF HealthStep, HealthFails, HealthListsOnline, HealthListsSuspects, HealthDone, HealthClears,
              RevokePodsOnNode
<1>4. CASE SchedulerStep \/ ServerRestart \/ \E p \in Pods : ReplacePod(p)
  BY <1>4 DEF SchedulerStep, SchedulerLists, DeployPodToNode, SchedulerDone, SchedulePod,
              ServerRestart, ReplacePod
<1>5. CASE UNCHANGED vars
  BY <1>5 DEF vars
<1>. QED BY <1>1, <1>2, <1>3, <1>4, <1>5 DEF Next

LEMMA SuspectSilentKept ==
  ASSUME TypeOK, SuspectSilent, [Next]_vars
  PROVE  SuspectSilent'
<1> USE AgeZero DEF TypeOK, SuspectSilent
<1>1. CASE RowFrame
  BY <1>1 DEF RowFrame
<1>2. ASSUME NEW c \in Conns, CreateNode(c) PROVE SuspectSilent'
  BY <1>2 DEF CreateNode
<1>3. ASSUME NEW c \in Conns, ReconnectNode(c) PROVE SuspectSilent'
  BY <1>3 DEF ReconnectNode
<1>4. ASSUME NEW c \in Conns, UpdateHeartbeat(c) PROVE SuspectSilent'
  BY <1>4 DEF UpdateHeartbeat
<1>5. ASSUME NEW c \in Conns, DisconnectMarks(c) PROVE SuspectSilent'
  BY <1>5, LeaseAssumption DEF DisconnectMarks, MarkNodeSuspect, Ages
<1>6. ASSUME NEW n \in Nodes, HealthMarks(n) PROVE SuspectSilent'
  BY <1>6, LeaseAssumption DEF HealthMarks, MarkNodeSuspect, Ages
<1>7. CASE ExpireNodeLease
  BY <1>7 DEF ExpireNodeLease
<1>8. CASE Tick
  <2> SUFFICES ASSUME NEW n \in Nodes, status'[n] = "suspect"
               PROVE  suspectAge'[n] # None /\ heartbeatAge'[n] >= suspectAge'[n]
    OBVIOUS
  <2>1. suspectAge[n] \in Ages /\ heartbeatAge[n] \in Ages /\ heartbeatAge[n] >= suspectAge[n]
    BY <1>8 DEF Tick
  <2>2. heartbeatAge'[n] = Older(heartbeatAge[n]) /\ suspectAge'[n] = Older(suspectAge[n])
    BY <1>8, <2>1, LeaseAssumption DEF Tick, Ages
  <2>3. Older(suspectAge[n]) \in Ages /\ Older(heartbeatAge[n]) >= Older(suspectAge[n])
    BY <2>1, OlderFacts
  <2>. QED BY <2>2, <2>3, LeaseAssumption DEF Ages
<1>. QED BY <1>1, <1>2, <1>3, <1>4, <1>5, <1>6, <1>7, <1>8, RowWriters DEF RowSteps

(* Only these actions write an agent's state or socket, or a join. *)
AgentFrame == UNCHANGED <<agentState, agentConn, joining>>
AgentSteps ==
  \/ AgentFrame
  \/ \E n \in Nodes : \/ AgentStart(n) \/ AgentCrash(n) \/ AgentLosesConn(n)
                      \/ \E c \in Conns : AgentConnect(n, c)
  \/ \E c \in Conns : \/ CreateNode(c) \/ AckRegister(c) \/ ReconnectNode(c) \/ ListOrphans(c)
                      \/ StopOrphans(c) \/ FinishReconnect(c) \/ RequestFails(c)
                      \/ SweepFails(c)
  \/ ServerRestart

LEMMA AgentWriters == ASSUME [Next]_vars PROVE AgentSteps
<1> USE DEF AgentSteps, AgentFrame, agentVars, handlerVars
<1>1. ASSUME NEW n \in Nodes,
             \/ AgentStart(n) \/ AgentCrash(n) \/ AgentLosesConn(n) \/ Heartbeat(n)
             \/ \E c \in Conns : AgentConnect(n, c)
             \/ \E p \in Pods : PodExit(n, p)
      PROVE  AgentSteps
  BY <1>1 DEF Heartbeat, PodExit
<1>2. ASSUME NEW c \in Conns, HandlerStep(c) \/ CallFails(c) \/ ServerClose(c)
      PROVE  AgentSteps
  BY <1>2 DEF HandlerStep, UpdateHeartbeat, ListNodesOfConn, DisconnectMarks, DisconnectClears,
              CallFails, HeartbeatFails, DisconnectFails, ServerClose
<1>3. CASE HealthStep \/ HealthFails
  BY <1>3 DEF HealthStep, HealthListsOnline, HealthListsSuspects, HealthDone, HealthClears,
              RevokePodsOnNode, HealthMarks, ExpireNodeLease, HealthFails
<1>4. CASE SchedulerStep \/ \E p \in Pods : ReplacePod(p)
  BY <1>4 DEF SchedulerStep, SchedulerLists, DeployPodToNode, SchedulerDone, SchedulePod,
              ReplacePod
<1>5. CASE Tick \/ UNCHANGED vars
  BY <1>5 DEF vars, Tick
<1>6. CASE ServerRestart
  BY <1>6
<1>. QED BY <1>1, <1>2, <1>3, <1>4, <1>5, <1>6 DEF Next

LEMMA AgentSocketKept ==
  ASSUME TypeOK, AgentSocket, [Next]_vars
  PROVE  AgentSocket'
<1> USE DEF TypeOK, AgentSocket, Delivered, agentVars
<1>1. CASE AgentFrame
  BY <1>1 DEF AgentFrame
<1>2. ASSUME NEW n \in Nodes, AgentStart(n) PROVE AgentSocket'
  BY <1>2 DEF AgentStart
<1>3. ASSUME NEW n \in Nodes, AgentCrash(n) PROVE AgentSocket'
  BY <1>3 DEF AgentCrash
<1>4. ASSUME NEW n \in Nodes, AgentLosesConn(n) PROVE AgentSocket'
  BY <1>4 DEF AgentLosesConn
<1>5. ASSUME NEW n \in Nodes, NEW c \in Conns, AgentConnect(n, c) PROVE AgentSocket'
  BY <1>5 DEF AgentConnect
<1>6. ASSUME NEW c \in Conns,
             \/ ReconnectNode(c) \/ ListOrphans(c) \/ StopOrphans(c) \/ ServerRestart
      PROVE  AgentSocket'
  BY <1>6 DEF ReconnectNode, ListOrphans, StopOrphans, ServerRestart
<1>7. ASSUME NEW c \in Conns,
             CreateNode(c) \/ AckRegister(c) \/ FinishReconnect(c) \/ RequestFails(c) \/ SweepFails(c)
      PROVE  AgentSocket'
  <2>1. /\ agentConn' = agentConn
        /\ \A n \in Nodes : agentState'[n] # agentState[n] => agentState'[n] \in {"registered", "stalled"}
    BY <1>7 DEF CreateNode, AckRegister, FinishReconnect, RequestFails, SweepFails, Acknowledge
  <2>. QED BY <2>1
<1>8. CASE ServerRestart
  BY <1>8 DEF ServerRestart
<1>. QED BY <1>1, <1>2, <1>3, <1>4, <1>5, <1>6, <1>7, <1>8, AgentWriters DEF AgentSteps

LEMMA JoinOnSocketKept ==
  ASSUME TypeOK, AgentSocket, JoinOnSocket, [Next]_vars
  PROVE  JoinOnSocket'
<1> USE DEF TypeOK, JoinOnSocket, Delivered, agentVars
<1>1. CASE AgentFrame
  BY <1>1 DEF AgentFrame
<1>2. ASSUME NEW n \in Nodes, AgentStart(n) PROVE JoinOnSocket'
  BY <1>2, LeaseAssumption DEF AgentStart, AgentSocket, handlerVars, Conns
<1>3. ASSUME NEW n \in Nodes, AgentCrash(n) \/ AgentLosesConn(n) PROVE JoinOnSocket'
  <2>1. /\ joining' = joining
        /\ agentConn' = [agentConn EXCEPT ![n] = None]
        /\ \A m \in Nodes \ {n} : agentState'[m] = agentState[m]
    BY <1>3 DEF AgentCrash, AgentLosesConn, handlerVars
  <2>2. None \notin Conns
    BY LeaseAssumption DEF Conns
  <2>. QED BY <2>1, <2>2, NodeOfType
<1>5. ASSUME NEW n \in Nodes, NEW c \in Conns, AgentConnect(n, c) PROVE JoinOnSocket'
  <2>1. \A d \in Conns : NodeOf(d) = n /\ agentConn'[n] = d => agentState'[n] = "joining"
    BY <1>5 DEF AgentConnect
  <2>2. \A d \in Conns : NodeOf(d) # n => /\ joining'[d] = joining[d]
                                          /\ agentConn'[NodeOf(d)] = agentConn[NodeOf(d)]
                                          /\ agentState'[NodeOf(d)] = agentState[NodeOf(d)]
    BY <1>5, NodeOfType DEF AgentConnect
  <2>3. agentConn'[n] = c /\ NodeOf(c) = n
    BY <1>5 DEF AgentConnect
  <2>. QED BY <2>1, <2>2, <2>3
<1>6. ASSUME NEW c \in Conns, ReconnectNode(c) \/ ListOrphans(c) \/ StopOrphans(c)
      PROVE  JoinOnSocket'
  <2>1. /\ agentConn' = agentConn /\ agentState' = agentState
        /\ joining[c].pc # "idle"
        /\ \A d \in Conns : d # c => joining'[d] = joining[d]
    BY <1>6 DEF ReconnectNode, ListOrphans, StopOrphans
  <2>. QED BY <2>1
<1>7. ASSUME NEW c \in Conns,
             CreateNode(c) \/ AckRegister(c) \/ FinishReconnect(c) \/ RequestFails(c) \/ SweepFails(c)
      PROVE  JoinOnSocket'
  <2>1. /\ agentConn' = agentConn
        /\ joining[c].pc # "idle"
        /\ \A d \in Conns : d # c => joining'[d] = joining[d]
    BY <1>7 DEF CreateNode, AckRegister, FinishReconnect, RequestFails, SweepFails, Acknowledge
  <2>2. \/ agentState' = agentState
        \/ /\ joining'[c].pc = "idle"
           /\ \A n \in Nodes : agentConn[n] # c \/ n # NodeOf(c) => agentState'[n] = agentState[n]
    BY <1>7 DEF CreateNode, AckRegister, FinishReconnect, RequestFails, SweepFails, Acknowledge, NoJoin
  <2>. QED BY <2>1, <2>2, NodeOfType
<1>8. CASE ServerRestart
  BY <1>8 DEF ServerRestart, NoJoin
<1>. QED BY <1>1, <1>2, <1>3, <1>5, <1>6, <1>7, <1>8, AgentWriters DEF AgentSteps

(* The agent's own steps, its heartbeat included. *)
LEMMA OwnerAgentSteps ==
  ASSUME TypeOK, AgentSocket, OwnerIsFresh, NEW n \in Nodes,
         \/ AgentStart(n) \/ AgentCrash(n) \/ AgentLosesConn(n) \/ Heartbeat(n)
         \/ \E c \in Conns : AgentConnect(n, c)
         \/ \E p \in Pods : PodExit(n, p)
  PROVE  OwnerIsFresh'
<1> USE DEF TypeOK, OwnerIsFresh, nodeRow, handlerVars, faultVars
<1>1. ASSUME AgentStart(n) \/ AgentCrash(n) \/ AgentLosesConn(n) \/ \E c \in Conns : AgentConnect(n, c)
      PROVE  OwnerIsFresh'
  <2>1. /\ UNCHANGED <<connectionId, heartbeatAge, beating, unheard>>
        /\ agentState'[n] # "registered"
        /\ \A m \in Nodes \ {n} : agentState'[m] = agentState[m] /\ agentConn'[m] = agentConn[m]
    BY <1>1 DEF AgentStart, AgentCrash, AgentLosesConn, AgentConnect
  <2>2. due \ {n} \subseteq due'
    BY <1>1 DEF AgentStart, AgentCrash, AgentLosesConn, AgentConnect
  <2>3. open' = open \/ \E c \in Conns : NodeOf(c) = n /\ open' = open \cup {c}
    BY <1>1 DEF AgentStart, AgentCrash, AgentLosesConn, AgentConnect
  <2>4. None \notin Conns
    BY LeaseAssumption DEF Conns
  <2>5. ASSUME NEW m \in Nodes \ {n}, agentState[m] = "registered", connectionId[m] = agentConn[m],
               agentConn[m] \in open'
        PROVE  agentConn[m] \in open
    <3>1. agentConn[m] # None
      BY <2>3, <2>4, <2>5
    <3>. QED BY <2>3, <2>5, <3>1 DEF AgentSocket
  <2>. QED BY <2>1, <2>2, <2>5
<1>2. CASE Heartbeat(n)
  <2>1. /\ UNCHANGED <<connectionId, heartbeatAge, agentState, agentConn, open, unheard>>
        /\ due' = due \ {n}
        /\ beating \subseteq beating'
        /\ agentConn[n] \in open /\ connectionId[n] = agentConn[n] => agentConn[n] \in beating'
    BY <1>2 DEF Heartbeat
  <2>. QED BY <2>1
<1>3. CASE \E p \in Pods : PodExit(n, p)
  BY <1>3 DEF PodExit
<1>. QED BY <1>1, <1>2, <1>3

(* The server's handlers. *)
LEMMA OwnerHandlerSteps ==
  ASSUME TypeOK, AgentSocket, JoinOnSocket, OwnerIsFresh, NEW c \in Conns,
         HandlerStep(c) \/ CallFails(c) \/ ServerClose(c)
  PROVE  OwnerIsFresh'
<1>0. NodeOf(c) \in Nodes /\ None \notin Conns
  BY NodeOfType, LeaseAssumption DEF Conns
<1> USE <1>0 DEF TypeOK, OwnerIsFresh, nodeRow, agentVars, handlerVars, faultVars
<1>1. CASE CreateNode(c)
  <2>1. /\ UNCHANGED <<agentConn, heartbeatAge, due, beating, open, unheard>>
        /\ \A m \in Nodes : agentState'[m] = "registered" => agentState[m] = "registered"
        /\ \A m \in Nodes \ {NodeOf(c)} : connectionId'[m] = connectionId[m]
        /\ connectionId'[NodeOf(c)] \in {c, connectionId[NodeOf(c)]}
        /\ joining[c].pc # "idle"
    BY <1>1 DEF CreateNode
  <2>2. agentConn[NodeOf(c)] = c => agentState[NodeOf(c)] # "registered"
    BY <2>1 DEF JoinOnSocket
  <2>. QED BY <2>1, <2>2
<1>2. CASE AckRegister(c) \/ FinishReconnect(c) \/ SweepFails(c)
  <2>1. /\ UNCHANGED <<connectionId, agentConn, heartbeatAge, beating, open, unheard>>
        /\ due \subseteq due'
        /\ \A m \in Nodes : agentState'[m] # agentState[m] => m \in due'
    BY <1>2 DEF AckRegister, FinishReconnect, SweepFails, Acknowledge
  <2>. QED BY <2>1
<1>3. CASE ReconnectNode(c)
  BY <1>3 DEF ReconnectNode
<1>4. CASE ListOrphans(c) \/ StopOrphans(c) \/ ListNodesOfConn(c) \/ DisconnectMarks(c)
  BY <1>4 DEF ListOrphans, StopOrphans, ListNodesOfConn, DisconnectMarks, MarkNodeSuspect
<1>5. CASE UpdateHeartbeat(c)
  <2>1. /\ UNCHANGED <<connectionId, agentConn, agentState, due, open>>
        /\ heartbeatAge' = [heartbeatAge EXCEPT ![NodeOf(c)] = 0]
        /\ beating' = beating \ {c}
        /\ unheard' = unheard \ {NodeOf(c)}
    BY <1>5 DEF UpdateHeartbeat
  <2>. QED BY <2>1 DEF AgentSocket
<1>6. CASE DisconnectClears(c)
  BY <1>6 DEF DisconnectClears
<1>7. CASE RequestFails(c)
  BY <1>7 DEF RequestFails
<1>8. CASE ServerClose(c)
  BY <1>8 DEF ServerClose
<1>9. CASE HeartbeatFails(c)
  <2>1. /\ UNCHANGED <<connectionId, agentConn, agentState, heartbeatAge, due, open>>
        /\ beating' = beating \ {c}
        /\ unheard' = unheard \cup {NodeOf(c)}
    BY <1>9 DEF HeartbeatFails
  <2>. QED BY <2>1 DEF AgentSocket
<1>10. CASE DisconnectFails(c)
  BY <1>10 DEF DisconnectFails
<1>. QED BY <1>1, <1>2, <1>3, <1>4, <1>5, <1>6, <1>7, <1>8, <1>9, <1>10 DEF HandlerStep, CallFails

LEMMA OwnerIsFreshKept ==
  ASSUME TypeOK, AgentSocket, JoinOnSocket, OwnerIsFresh, [Next]_vars
  PROVE  OwnerIsFresh'
<1>1. ASSUME NEW n \in Nodes,
             \/ AgentStart(n) \/ AgentCrash(n) \/ AgentLosesConn(n) \/ Heartbeat(n)
             \/ \E c \in Conns : AgentConnect(n, c)
             \/ \E p \in Pods : PodExit(n, p)
      PROVE  OwnerIsFresh'
  BY <1>1, OwnerAgentSteps
<1>2. ASSUME NEW c \in Conns, HandlerStep(c) \/ CallFails(c) \/ ServerClose(c)
      PROVE  OwnerIsFresh'
  BY <1>2, OwnerHandlerSteps
<1> USE DEF TypeOK, OwnerIsFresh, nodeRow, agentVars, handlerVars, faultVars
<1>3. CASE HealthClears
  <2>1. health.node \in Nodes /\ None \notin Conns
    BY <1>3, LeaseAssumption DEF HealthClears, Conns
  <2>2. /\ UNCHANGED <<agentState, agentConn, open, heartbeatAge, due, beating, unheard>>
        /\ connectionId' = [connectionId EXCEPT ![health.node] = None]
    BY <1>3 DEF HealthClears
  <2>. QED BY <2>1, <2>2
<1>4. CASE HealthFails \/ (HealthStep /\ ~ HealthClears)
  BY <1>4 DEF HealthStep, HealthListsOnline, HealthListsSuspects, HealthDone, RevokePodsOnNode,
              HealthMarks, ExpireNodeLease, MarkNodeSuspect, HealthFails
<1>5. CASE SchedulerStep \/ \E p \in Pods : ReplacePod(p)
  BY <1>5 DEF SchedulerStep, SchedulerLists, DeployPodToNode, SchedulerDone, SchedulePod,
              ReplacePod
<1>6. CASE ServerRestart
  BY <1>6 DEF ServerRestart
<1>7. CASE Tick
  BY <1>7 DEF Tick
<1>8. CASE UNCHANGED vars
  BY <1>8 DEF vars
<1>. QED BY <1>1, <1>2, <1>3, <1>4, <1>5, <1>6, <1>7, <1>8 DEF Next

(* Except in a Tick, an age is only ever reset. *)
LEMMA AgesReset ==
  ASSUME TypeOK, [Next]_vars, ~ Tick, NEW n \in Nodes
  PROVE  heartbeatAge'[n] \in {0, heartbeatAge[n]}
BY RowWriters
   DEF RowSteps, RowFrame, CreateNode, ReconnectNode, UpdateHeartbeat, DisconnectMarks,
       HealthMarks, ExpireNodeLease, TypeOK

LEMMA ExpiryTargetsSilentKept ==
  ASSUME TypeOK, SuspectSilent, ExpiryTargetsSilent, [Next]_vars
  PROVE  ExpiryTargetsSilent'
<1> USE DEF TypeOK, ExpiryTargetsSilent
<1>1. CASE Tick
  BY <1>1 DEF Tick, NoCycle
<1>2. CASE HealthListsSuspects
  <2>1. /\ health'.work = ExpiredNodes /\ heartbeatAge' = heartbeatAge
    BY <1>2 DEF HealthListsSuspects, nodeRow
  <2>2. \A n \in ExpiredNodes : heartbeatAge[n] >= suspectAge[n] /\ suspectAge[n] >= LeaseTimeout
                                /\ suspectAge[n] \in Ages /\ heartbeatAge[n] \in Ages
    BY DEF ExpiredNodes, SuspectSilent
  <2>3. \A n \in ExpiredNodes : heartbeatAge[n] >= LeaseTimeout
    BY <2>2, LeaseAssumption DEF Ages, MaxAge
  <2>. QED BY <2>1, <2>3
<1>3. CASE HealthFails \/ (HealthStep /\ ~ HealthListsSuspects)
  <2> DEFINE Shrinks ==
         \/ health'.pc \in {"stale", "done"}
         \/ health'.work = {}
         \/ health.pc \in {"revoke", "offline", "clear"} /\ health'.work \subseteq health.work
  <2>1. Shrinks
    <3>1. CASE HealthListsOnline \/ HealthDone
      BY <3>1 DEF HealthListsOnline, HealthDone
    <3>2. CASE ExpireNodeLease \/ HealthClears
      BY <3>2 DEF ExpireNodeLease, HealthClears
    <3>3. ASSUME NEW n \in Nodes, HealthMarks(n) \/ RevokePodsOnNode(n) PROVE Shrinks
      BY <3>3 DEF HealthMarks, RevokePodsOnNode
    <3>4. CASE HealthFails
      <4>1. CASE health.pc = "due" /\ health' = [health EXCEPT !.pc = "stale"]
        BY <4>1
      <4>2. CASE health.pc = "stale" /\ health.work = {} /\ health' = [health EXCEPT !.pc = "revoke"]
        BY <4>2
      <4>3. ASSUME NEW n \in health.work, health.pc = "stale", health' = [health EXCEPT !.work = @ \ {n}]
            PROVE  Shrinks
        BY <4>3
      <4>4. ASSUME NEW n \in health.work, health.pc = "revoke",
                   health' = [health EXCEPT !.pc = "offline", !.node = n]
            PROVE  Shrinks
        BY <4>4
      <4>5. CASE /\ health.pc \in {"offline", "clear"}
                 /\ health' = [pc |-> "revoke", work |-> health.work \ {health.node}, node |-> None]
        BY <4>5
      <4>. HIDE DEF Shrinks
      <4>. QED BY <3>4, <4>1, <4>2, <4>3, <4>4, <4>5 DEF HealthFails
    <3>. QED BY <1>3, <3>1, <3>2, <3>3, <3>4 DEF HealthStep
  <2>2. heartbeatAge' = heartbeatAge
    BY <1>3 DEF HealthStep, HealthListsOnline, HealthDone, HealthClears, ExpireNodeLease,
                HealthMarks, RevokePodsOnNode, HealthFails, nodeRow
  <2>. QED BY <2>1, <2>2
<1>4. CASE ServerRestart
  BY <1>4 DEF ServerRestart, NoCycle
<1>5. CASE ~ Tick /\ ~ HealthStep /\ ~ HealthFails /\ ~ ServerRestart
  <2>1. health' = health
    <3>1. ASSUME NEW n \in Nodes,
                 \/ AgentStart(n) \/ AgentCrash(n) \/ AgentLosesConn(n) \/ Heartbeat(n)
                 \/ \E c \in Conns : AgentConnect(n, c)
                 \/ \E p \in Pods : PodExit(n, p)
          PROVE  health' = health
      BY <3>1 DEF AgentStart, AgentCrash, AgentLosesConn, Heartbeat, AgentConnect, PodExit,
                  serviceVars
    <3>2. ASSUME NEW c \in Conns, HandlerStep(c) \/ CallFails(c) \/ ServerClose(c)
          PROVE  health' = health
      BY <3>2 DEF HandlerStep, CreateNode, AckRegister, ReconnectNode, ListOrphans, StopOrphans,
                  FinishReconnect, UpdateHeartbeat, ListNodesOfConn, DisconnectMarks,
                  DisconnectClears, CallFails, RequestFails, SweepFails, HeartbeatFails,
                  DisconnectFails, ServerClose, serviceVars
    <3>3. CASE SchedulerStep \/ (\E p \in Pods : ReplacePod(p)) \/ UNCHANGED vars
      BY <3>3 DEF SchedulerStep, SchedulerLists, DeployPodToNode, SchedulerDone, SchedulePod,
                  ReplacePod, vars, serviceVars
    <3>. QED BY <1>5, <3>1, <3>2, <3>3 DEF Next
  <2>. QED BY <1>5, <2>1, AgesReset
<1>. QED BY <1>1, <1>2, <1>3, <1>4, <1>5

LEMMA JoinIsFreshKept ==
  ASSUME TypeOK, JoinIsFresh, [Next]_vars
  PROVE  JoinIsFresh'
<1> USE NodeOfType DEF TypeOK, JoinIsFresh
<1>1. CASE Tick
  BY <1>1 DEF Tick, NothingInFlight, handlerVars
<1>2. CASE ~ Tick /\ AgentFrame
  BY <1>2, AgesReset DEF AgentFrame
<1>3. ASSUME NEW c \in Conns, ReconnectNode(c) PROVE JoinIsFresh'
  BY <1>3 DEF ReconnectNode
<1>4. ASSUME NEW c \in Conns,
             \/ CreateNode(c) \/ AckRegister(c) \/ ListOrphans(c) \/ StopOrphans(c)
             \/ FinishReconnect(c) \/ RequestFails(c) \/ SweepFails(c)
      PROVE  JoinIsFresh'
  <2>1. /\ heartbeatAge' = heartbeatAge
        /\ \A d \in Conns : d # c => joining'[d] = joining[d]
    BY <1>4 DEF CreateNode, AckRegister, ListOrphans, StopOrphans, FinishReconnect,
                RequestFails, SweepFails, Acknowledge, nodeRow
  <2>2. \/ joining[c].pc \in {"orphans", "mark", "stale"}
        \/ joining'[c].pc \notin {"orphans", "mark", "stale"}
    BY <1>4 DEF CreateNode, AckRegister, ListOrphans, StopOrphans, FinishReconnect,
                RequestFails, SweepFails, Acknowledge, NoJoin, JoinRecord, JoinPc
  <2>. QED BY <2>1, <2>2
<1>5. ASSUME NEW n \in Nodes,
             \/ AgentStart(n) \/ AgentCrash(n) \/ AgentLosesConn(n)
             \/ \E c \in Conns : AgentConnect(n, c)
      PROVE  JoinIsFresh'
  <2>1. /\ heartbeatAge' = heartbeatAge
        /\ \A d \in Conns : joining'[d] = joining[d] \/ joining'[d].pc \in {"create", "write"}
    BY <1>5 DEF AgentStart, AgentCrash, AgentLosesConn, AgentConnect, handlerVars, nodeRow
  <2>. QED BY <2>1
<1>6. CASE ServerRestart
  BY <1>6 DEF ServerRestart, NoJoin
<1>. QED BY <1>1, <1>2, <1>3, <1>4, <1>5, <1>6, AgentWriters DEF AgentSteps

(* The orphans of a join are found by ListOrphans and otherwise dropped. *)
LEMMA OrphansFound ==
  ASSUME TypeOK, [Next]_vars, NEW c \in Conns
  PROVE  \/ joining'[c].orphans \subseteq joining[c].orphans
         \/ ListOrphans(c) /\ joining'[c].orphans \subseteq ActiveOn(NodeOf(c))
<1> DEFINE Kept == \A d \in Conns : joining'[d].orphans \subseteq joining[d].orphans
<1> USE DEF TypeOK, JoinRecord
<1>1. CASE AgentFrame \/ ServerRestart
  BY <1>1 DEF AgentFrame, ServerRestart, NoJoin
<1>2. ASSUME NEW n \in Nodes,
             \/ AgentStart(n) \/ AgentCrash(n) \/ AgentLosesConn(n)
             \/ \E d \in Conns : AgentConnect(n, d)
      PROVE  Kept
  BY <1>2 DEF AgentStart, AgentCrash, AgentLosesConn, AgentConnect, handlerVars
<1>3. ASSUME NEW d \in Conns,
             \/ CreateNode(d) \/ AckRegister(d) \/ ReconnectNode(d)
             \/ StopOrphans(d) \/ FinishReconnect(d) \/ RequestFails(d) \/ SweepFails(d)
      PROVE  Kept
  <2>1. \A e \in Conns \ {d} : joining'[e] = joining[e]
    BY <1>3 DEF CreateNode, AckRegister, ReconnectNode, StopOrphans, FinishReconnect,
                RequestFails, SweepFails, Acknowledge
  <2>2. joining'[d].orphans \in {{}, joining[d].orphans}
    BY <1>3 DEF CreateNode, AckRegister, ReconnectNode, StopOrphans, FinishReconnect,
                RequestFails, SweepFails, Acknowledge, NoJoin
  <2>. QED BY <2>1, <2>2
<1>4. ASSUME NEW d \in Conns, ListOrphans(d), d # c PROVE joining'[c] = joining[c]
  BY <1>4 DEF ListOrphans
<1>5. ASSUME ListOrphans(c) PROVE joining'[c].orphans \subseteq ActiveOn(NodeOf(c))
  BY <1>5 DEF ListOrphans
<1>6. CASE \E d \in Conns : ListOrphans(d)
  BY <1>4, <1>5, <1>6
<1>7. Kept \/ (\E d \in Conns : ListOrphans(d)) \/ AgentFrame \/ ServerRestart
  BY <1>2, <1>3, AgentWriters DEF AgentSteps
<1>. QED BY <1>1, <1>6, <1>7

(* Only these actions write a pod row, a node's processes or the round. *)
PodFrame == UNCHANGED <<running, podStatus, podNode, sched>>
PodSteps ==
  \/ PodFrame
  \/ \E n \in Nodes : AgentCrash(n) \/ RevokePodsOnNode(n) \/ \E p \in Pods : PodExit(n, p)
  \/ \E c \in Conns : StopOrphans(c) \/ FinishReconnect(c)
  \/ SchedulerStep
  \/ \E p \in Pods : ReplacePod(p)
  \/ ServerRestart
  \/ Tick

LEMMA PodWriters == ASSUME [Next]_vars PROVE PodSteps
<1> USE DEF PodSteps, PodFrame, podRow, agentVars, serviceVars
<1>1. ASSUME NEW n \in Nodes,
             \/ AgentStart(n) \/ AgentCrash(n) \/ AgentLosesConn(n) \/ Heartbeat(n)
             \/ \E c \in Conns : AgentConnect(n, c)
             \/ \E p \in Pods : PodExit(n, p)
      PROVE  PodSteps
  BY <1>1 DEF AgentStart, AgentLosesConn, Heartbeat, AgentConnect
<1>2. ASSUME NEW c \in Conns, HandlerStep(c) \/ CallFails(c) \/ ServerClose(c)
      PROVE  PodSteps
  BY <1>2 DEF HandlerStep, CreateNode, AckRegister, ReconnectNode, ListOrphans, UpdateHeartbeat,
              ListNodesOfConn, DisconnectMarks, DisconnectClears, CallFails, RequestFails,
              SweepFails, HeartbeatFails, DisconnectFails, Acknowledge, ServerClose
<1>3. CASE HealthStep \/ HealthFails
  BY <1>3 DEF HealthStep, HealthFails, HealthListsOnline, HealthListsSuspects, HealthDone, HealthClears,
              HealthMarks, ExpireNodeLease
<1>4. CASE SchedulerStep \/ ServerRestart \/ Tick \/ \E p \in Pods : ReplacePod(p)
  BY <1>4
<1>5. CASE UNCHANGED vars
  BY <1>5 DEF vars
<1>. QED BY <1>1, <1>2, <1>3, <1>4, <1>5 DEF Next

(* The first three parts of PodPlacement. *)
PodsPlaced ==
  /\ \A n \in Nodes : \A p \in running[n] : podNode[p] = n
  /\ \A p \in Pods : podStatus[p] = "pending" => podNode[p] = None
  /\ sched.pc = "deploy" => podNode[sched.pod] = NodeOf(sched.conn)

LEMMA PodsPlacedKept ==
  ASSUME TypeOK, PodsPlaced, [Next]_vars
  PROVE  PodsPlaced'
<1> USE DEF TypeOK, PodsPlaced, podRow, agentVars, serviceVars
<1>1. CASE PodFrame
  BY <1>1 DEF PodFrame
<1>2. ASSUME NEW n \in Nodes,
             AgentCrash(n) \/ RevokePodsOnNode(n) \/ \E p \in Pods : PodExit(n, p)
      PROVE  PodsPlaced'
  <2>1. /\ podNode' = podNode /\ sched' = sched
        /\ \A m \in Nodes : running'[m] \subseteq running[m]
        /\ \A p \in Pods : podStatus'[p] \in {podStatus[p], "stopped"}
    BY <1>2 DEF AgentCrash, RevokePodsOnNode, PodExit
  <2>. QED BY <2>1
<1>3. ASSUME NEW c \in Conns, StopOrphans(c) \/ FinishReconnect(c) PROVE PodsPlaced'
  <2>1. /\ podNode' = podNode /\ sched' = sched
        /\ \A m \in Nodes : running'[m] \subseteq running[m]
        /\ \A p \in Pods : podStatus'[p] \in {podStatus[p], "stopped"}
    BY <1>3 DEF StopOrphans, FinishReconnect
  <2>. QED BY <2>1
<1>4. CASE SchedulerLists \/ SchedulerDone
  BY <1>4 DEF SchedulerLists, SchedulerDone, NoRound
<1>5. ASSUME NEW p \in Pods, NEW c \in Conns, SchedulePod(p, c) PROVE PodsPlaced'
  <2>1. /\ running' = running
        /\ podNode' = [podNode EXCEPT ![p] = NodeOf(c)]
        /\ podStatus' = [podStatus EXCEPT ![p] = "active"]
        /\ sched'.pod = p /\ sched'.conn = c
        /\ podStatus[p] = "pending"
    BY <1>5 DEF SchedulePod
  <2>2. \A n \in Nodes : p \notin running[n]
    BY <2>1, LeaseAssumption
  <2>. QED BY <2>1, <2>2
<1>6. CASE DeployPodToNode
  <2>1. NodeOf(sched.conn) \in Nodes /\ sched.pod \in Pods
        /\ podNode[sched.pod] = NodeOf(sched.conn)
    BY <1>6, NodeOfType DEF DeployPodToNode
  <2>2. /\ podNode' = podNode /\ sched'.pc = "assign"
        /\ \A m \in Nodes : \/ running'[m] = running[m]
                            \/ m = NodeOf(sched.conn) /\ running'[m] = running[m] \cup {sched.pod}
        /\ \A p \in Pods : podStatus'[p] \in {podStatus[p], "active"}
    BY <1>6, <2>1 DEF DeployPodToNode
  <2>. QED BY <2>1, <2>2
<1>7. ASSUME NEW p \in Pods, ReplacePod(p) PROVE PodsPlaced'
  BY <1>7 DEF ReplacePod
<1>8. CASE ServerRestart \/ Tick
  BY <1>8 DEF ServerRestart, Tick, NoRound
<1>. QED BY <1>1, <1>2, <1>3, <1>4, <1>5, <1>6, <1>7, <1>8, PodWriters DEF PodSteps, SchedulerStep

(* A row that names a node keeps it until ReplacePod. *)
LEMMA NodeKept ==
  ASSUME TypeOK, PodsPlaced, [Next]_vars, NEW p \in Pods, podNode[p] # None
  PROVE  podNode'[p] = podNode[p] \/ ReplacePod(p)
<1> USE DEF TypeOK, PodsPlaced, podRow
<1>1. CASE PodFrame \/ ServerRestart \/ Tick \/ SchedulerLists \/ SchedulerDone \/ DeployPodToNode
  BY <1>1 DEF PodFrame, ServerRestart, Tick, SchedulerLists, SchedulerDone, DeployPodToNode
<1>2. ASSUME NEW n \in Nodes,
             AgentCrash(n) \/ RevokePodsOnNode(n) \/ \E q \in Pods : PodExit(n, q)
      PROVE  podNode' = podNode
  BY <1>2 DEF AgentCrash, RevokePodsOnNode, PodExit
<1>3. ASSUME NEW c \in Conns, StopOrphans(c) \/ FinishReconnect(c) PROVE podNode' = podNode
  BY <1>3 DEF StopOrphans, FinishReconnect
<1>4. ASSUME NEW q \in Pods, NEW c \in Conns, SchedulePod(q, c) PROVE podNode'[p] = podNode[p]
  BY <1>4 DEF SchedulePod
<1>5. ASSUME NEW q \in Pods, ReplacePod(q), q # p PROVE podNode'[p] = podNode[p]
  BY <1>5 DEF ReplacePod
<1>. QED BY <1>1, <1>2, <1>3, <1>4, <1>5, PodWriters DEF PodSteps, SchedulerStep

LEMMA PodPlacementKept ==
  ASSUME TypeOK, PodPlacement, [Next]_vars
  PROVE  PodPlacement'
<1>1. PodsPlaced
  BY DEF PodPlacement, PodsPlaced
<1>2. PodsPlaced'
  BY <1>1, PodsPlacedKept
<1>3. ASSUME NEW c \in Conns, NEW p \in joining'[c].orphans PROVE podNode'[p] = NodeOf(c)
  <2>1. p \in Pods /\ NodeOf(c) \in Nodes /\ NodeOf(c) # None
    <3>1. joining'[c] \in JoinRecord
      BY NextTyped DEF TypeOK
    <3>. QED BY <1>3, <3>1, NodeOfType, LeaseAssumption DEF JoinRecord
  <2>2. CASE ListOrphans(c) /\ p \in ActiveOn(NodeOf(c))
    BY <2>2 DEF ListOrphans, ActiveOn, podRow
  <2>3. CASE p \in joining[c].orphans
    <3>1. podNode[p] = NodeOf(c)
      BY <2>3 DEF PodPlacement
    <3>2. ~ ReplacePod(p)
      BY <2>3 DEF ReplacePod
    <3>. QED BY <1>1, <2>1, <3>1, <3>2, NodeKept
  <2>. QED BY <1>3, <2>2, <2>3, OrphansFound
<1>. QED BY <1>2, <1>3 DEF PodPlacement, PodsPlaced

LEMMA InitLease == Init => LeaseInv
<1> SUFFICES ASSUME Init PROVE LeaseInv
  OBVIOUS
<1>1. TypeOK
  BY InitTyped
<1>2. SuspectSilent /\ AgentSocket /\ JoinOnSocket /\ JoinIsFresh
  BY DEF Init, SuspectSilent, AgentSocket, JoinOnSocket, JoinIsFresh, NoJoin
<1>3. OwnerIsFresh /\ ExpiryTargetsSilent /\ PodPlacement
  BY DEF Init, OwnerIsFresh, ExpiryTargetsSilent, PodPlacement, NoCycle, NoRound, NoJoin
<1>. QED BY <1>1, <1>2, <1>3 DEF LeaseInv

LEMMA LeaseKept == LeaseInv /\ [Next]_vars => LeaseInv'
BY NextTyped, SuspectSilentKept, AgentSocketKept, JoinOnSocketKept, JoinIsFreshKept,
   OwnerIsFreshKept, ExpiryTargetsSilentKept, PodPlacementKept
   DEF LeaseInv

(* The inductive invariant holds in every reachable state. *)
THEOREM Lease == Spec => []LeaseInv
<1>. QED BY InitLease, LeaseKept, PTL DEF Spec

(* A live owner of its row never looks silent to the health service: its   *)
(* heartbeat of this tick is written, on its way, or its writing failed.   *)
THEOREM OwnerFresh == Spec => []OwnerIsFresh
<1>1. LeaseInv => OwnerIsFresh
  BY DEF LeaseInv
<1>. QED BY Lease, <1>1, PTL

(* Only a node silent for a whole lease, or heard of during the very check, *)
(* is on the list of nodes whose pods are revoked.                          *)
THEOREM ExpirySilent == Spec => []ExpiryTargetsSilent
<1>1. LeaseInv => ExpiryTargetsSilent
  BY DEF LeaseInv
<1>. QED BY Lease, <1>1, PTL

(* Every step that stops the row of a pod its node runs. *)
LEMMA RowStopped ==
  ASSUME LeaseInv, [Next]_vars, NEW n \in Nodes, NEW p \in running[n] \cap running'[n],
         p \in ActiveOn(n), podStatus'[p] = "stopped"
  PROVE  heartbeatAge[n] = 0 \/ heartbeatAge[n] >= LeaseTimeout
<1> DEFINE Silent == heartbeatAge[n] = 0 \/ heartbeatAge[n] >= LeaseTimeout
<1> USE DEF LeaseInv, TypeOK
<1>1. p \in Pods /\ podStatus[p] = "active" /\ podNode[p] = n
  BY DEF ActiveOn
<1>2. CASE PodFrame \/ ServerRestart \/ Tick
  BY <1>1, <1>2 DEF PodFrame, ServerRestart, Tick, podRow
<1>3. ASSUME NEW m \in Nodes, AgentCrash(m) PROVE Silent
  BY <1>1, <1>3 DEF AgentCrash, podRow
<1>4. ASSUME NEW m \in Nodes, NEW q \in Pods, PodExit(m, q) PROVE Silent
  <2>1. q = p /\ q \in running[m] /\ running'[m] = running[m] \ {q}
    BY <1>1, <1>4 DEF PodExit
  <2>2. m = n
    BY <1>1, <2>1 DEF PodPlacement
  <2>. QED BY <2>1, <2>2
<1>5. ASSUME NEW m \in Nodes, RevokePodsOnNode(m) PROVE Silent
  <2>1. p \in ActiveOn(m) /\ m \in health.work /\ health.pc = "revoke"
    BY <1>1, <1>5 DEF RevokePodsOnNode
  <2>. QED BY <1>1, <2>1 DEF ActiveOn, ExpiryTargetsSilent
<1>6. ASSUME NEW c \in Conns, StopOrphans(c) PROVE Silent
  <2>1. p \in joining[c].orphans /\ joining[c].pc = "mark"
    BY <1>1, <1>6 DEF StopOrphans
  <2>2. heartbeatAge[NodeOf(c)] = 0 /\ podNode[p] = NodeOf(c)
    BY <2>1 DEF JoinIsFresh, PodPlacement
  <2>. QED BY <1>1, <2>2
<1>7. ASSUME NEW c \in Conns, FinishReconnect(c) PROVE Silent
  BY <1>1, <1>7 DEF FinishReconnect, podRow
<1>8. CASE SchedulerStep
  <2>1. ASSUME NEW q \in Pods, NEW c \in Conns, SchedulePod(q, c) PROVE podStatus'[p] # "stopped"
    BY <1>1, <2>1 DEF SchedulePod
  <2>2. CASE SchedulerLists \/ SchedulerDone \/ DeployPodToNode
    BY <1>1, <2>2 DEF SchedulerLists, SchedulerDone, DeployPodToNode, podRow
  <2>. QED BY <1>8, <2>1, <2>2 DEF SchedulerStep
<1>9. ASSUME NEW q \in Pods, ReplacePod(q) PROVE Silent
  BY <1>1, <1>9 DEF ReplacePod
<1>. QED BY <1>2, <1>3, <1>4, <1>5, <1>6, <1>7, <1>8, <1>9, PodWriters DEF PodSteps

(* No step takes the row from under a pod its node runs, unless the node    *)
(* was silent for a whole lease or was heard of in this tick.               *)
THEOREM RunningPodSafe == Spec => RunningPodKeepsRow
<1>1. LeaseInv /\ [Next]_vars =>
        [\A n \in Nodes : \A p \in running[n] \cap running'[n] :
           p \in ActiveOn(n) /\ podStatus'[p] = "stopped"
             => heartbeatAge[n] = 0 \/ heartbeatAge[n] >= LeaseTimeout]_vars
  BY RowStopped
<1>. QED BY Lease, <1>1, PTL DEF Spec, RunningPodKeepsRow

=============================================================================
