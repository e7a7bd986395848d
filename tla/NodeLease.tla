------------------------------- MODULE NodeLease -------------------------------
(***************************************************************************)
(* Node ownership by lease.  A node agent keeps one WebSocket to the       *)
(* orchestrator; the orchestrator keeps a row per node in the database and *)
(* never fails the node's pods on a disconnect: the row becomes 'suspect', *)
(* and only when the lease of a suspect row runs out does the health       *)
(* service revoke the node's pods and set the row 'offline'.               *)
(*                                                                         *)
(* Every database call of a server handler is an await, so a handler is    *)
(* one action per await: between two of them any other handler, the health *)
(* cycle, the scheduler cycle, a closing socket or the agent may act.      *)
(*                                                                         *)
(* Time.  One Tick is one heartbeat interval.  A row's timestamps are ages *)
(* in ticks that stop growing at MaxAge (no test in the code tells older   *)
(* ones apart).  Tick waits until no handler is in flight: database calls  *)
(* are assumed fast against the timeouts, but within a tick everything     *)
(* interleaves.                                                            *)
(***************************************************************************)
EXTENDS Integers, FiniteSets

CONSTANTS Nodes,             (* node agents, one registered name each        *)
          ConnIds,           (* socket numbers; reused once nothing holds one *)
          Pods,              (* pod rows that may exist at the same time      *)
          None,              (* SQL NULL                                      *)
          HeartbeatTimeout,  (* age in ticks beyond which a heartbeat is stale *)
          LeaseTimeout,      (* ticks a suspect row keeps its lease            *)
          MaxRestarts,       (* bound: server restarts                         *)
          MaxDbErrors        (* bound: database calls that fail                *)

ASSUME LeaseAssumption ==
  /\ HeartbeatTimeout \in Nat \ {0}
  /\ LeaseTimeout \in Nat \ {0}
  /\ MaxRestarts \in Nat
  /\ MaxDbErrors \in Nat
  /\ None \notin Nat
  /\ None \notin Nodes
  /\ None \notin Nodes \X ConnIds

VARIABLES
  (* table nodes *)
  status, connectionId, heartbeatAge, suspectAge,
  (* table pods *)
  podStatus, podNode,
  (* the agents: state, the socket each holds, the pod processes it runs,  *)
  (* and whether its heartbeat or reconnect timer has fired                *)
  agentState, agentConn, running, due,
  (* the server: sockets it holds open and its handlers in flight          *)
  open, joining, beating, closing,
  (* the two background services *)
  health, sched,
  (* faults so far, and (history) nodes whose last heartbeat was not written *)
  restarts, dbErrors, unheard

nodeRow      == <<status, connectionId, heartbeatAge, suspectAge>>
podRow       == <<podStatus, podNode>>
agentVars    == <<agentState, agentConn, running, due>>
handlerVars  == <<joining, beating, closing>>
serviceVars  == <<health, sched>>
faultVars    == <<restarts, dbErrors, unheard>>
vars == <<nodeRow, podRow, agentVars, open, handlerVars, serviceVars, faultVars>>

(* A socket belongs to the agent that opened it. *)
Conns == Nodes \X ConnIds
NodeOf(c) == c[1]

MaxAge == HeartbeatTimeout + LeaseTimeout
Ages == 0 .. MaxAge
Older(age) == IF age < MaxAge THEN age + 1 ELSE MaxAge

NodeStatus  == {"unregistered", "online", "suspect", "offline"}
(* 'active' stands for scheduled, starting, running and stopping.          *)
PodStatus   == {"pending", "active", "stopped"}
(* "joining": socket open, register or reconnect request outstanding;      *)
(* "stalled": that request failed, the socket is still open.               *)
AgentState  == {"down", "waiting", "joining", "registered", "stalled"}
JoinPc      == {"idle", "create", "ack", "write", "orphans", "mark", "stale"}
ClosePc     == {"none", "list", "mark", "clear"}
HealthPc    == {"due", "stale", "revoke", "offline", "clear", "done"}
SchedPc     == {"due", "assign", "deploy", "done"}

JoinRecord == [pc : JoinPc, reported : SUBSET Pods, orphans : SUBSET Pods]
NoJoin == [pc |-> "idle", reported |-> {}, orphans |-> {}]
NoCycle == [pc |-> "due", work |-> {}, node |-> None]
NoRound == [pc |-> "due", pods |-> {}, conns |-> {}, pod |-> None, conn |-> None]

ActiveOn(n) == {p \in Pods : podNode[p] = n /\ podStatus[p] = "active"}

DbError == dbErrors < MaxDbErrors /\ dbErrors' = dbErrors + 1

(* A message written to socket c reaches the agent that holds it. *)
Delivered(c) == c \in open /\ agentConn[NodeOf(c)] = c

(* Nothing refers to socket number c: a new connection may be given it.    *)
Fresh(c) ==
  /\ c \notin open \cup beating
  /\ agentConn[NodeOf(c)] # c
  /\ connectionId[NodeOf(c)] # c
  /\ joining[c].pc = "idle"
  /\ closing[c] = "none"
  /\ sched.conn # c /\ c \notin sched.conns

Init ==
  /\ status = [n \in Nodes |-> "unregistered"]
  /\ connectionId = [n \in Nodes |-> None]
  /\ heartbeatAge = [n \in Nodes |-> MaxAge]
  /\ suspectAge = [n \in Nodes |-> None]
  /\ podStatus = [p \in Pods |-> "pending"]
  /\ podNode = [p \in Pods |-> None]
  /\ agentState = [n \in Nodes |-> "down"]
  /\ agentConn = [n \in Nodes |-> None]
  /\ running = [n \in Nodes |-> {}]
  /\ due = {}
  /\ open = {}
  /\ joining = [c \in Conns |-> NoJoin]
  /\ beating = {}
  /\ closing = [c \in Conns |-> "none"]
  /\ health = NoCycle
  /\ sched = NoRound
  /\ restarts = 0
  /\ dbErrors = 0
  /\ unheard = {}

-----------------------------------------------------------------------------
(* The node agent *)

(* A process that starts, like one that lost its socket, connects in the   *)
(* next tick at the earliest: one connection attempt per agent and tick.   *)
AgentStart(n) ==
  /\ agentState[n] = "down"
  /\ agentState' = [agentState EXCEPT ![n] = "waiting"]
  /\ UNCHANGED <<nodeRow, podRow, agentConn, running, due, open, handlerVars, serviceVars,
                 faultVars>>

(* The process dies and its workers, the pods, with it. *)
AgentCrash(n) ==
  /\ agentState[n] # "down"
  /\ agentState' = [agentState EXCEPT ![n] = "down"]
  /\ agentConn' = [agentConn EXCEPT ![n] = None]
  /\ running' = [running EXCEPT ![n] = {}]
  /\ due' = due \ {n}
  /\ UNCHANGED <<nodeRow, podRow, open, handlerVars, serviceVars, faultVars>>

(* The agent opens socket c, authenticates, and asks to register or, when  *)
(* the node exists (it knows the id, or registering conflicts and it looks *)
(* the id up), to reconnect with the pods it runs at that moment.          *)
AgentConnect(n, c) ==
  /\ agentState[n] = "waiting" /\ n \in due
  /\ NodeOf(c) = n /\ Fresh(c)
  /\ agentState' = [agentState EXCEPT ![n] = "joining"]
  /\ agentConn' = [agentConn EXCEPT ![n] = c]
  /\ due' = due \ {n}
  /\ open' = open \cup {c}
  /\ joining' = [joining EXCEPT ![c] =
       [pc |-> IF status[n] = "unregistered" THEN "create" ELSE "write",
        reported |-> running[n], orphans |-> {}]]
  /\ UNCHANGED <<nodeRow, podRow, running, beating, closing, serviceVars, faultVars>>

(* The agent sees its socket close, whichever side or network closed it.   *)
AgentLosesConn(n) ==
  /\ agentConn[n] # None
  /\ agentState' = [agentState EXCEPT ![n] = "waiting"]
  /\ agentConn' = [agentConn EXCEPT ![n] = None]
  /\ due' = due \ {n}
  /\ UNCHANGED <<nodeRow, podRow, running, open, handlerVars, serviceVars, faultVars>>

(* A pod process ends; the status update is sent only while registered.    *)
PodExit(n, p) ==
  /\ p \in running[n]
  /\ running' = [running EXCEPT ![n] = @ \ {p}]
  /\ podStatus' = [podStatus EXCEPT ![p] =
       IF agentState[n] = "registered" /\ agentConn[n] \in open THEN "stopped" ELSE @]
  /\ UNCHANGED <<nodeRow, podNode, agentState, agentConn, due, open, handlerVars,
                 serviceVars, faultVars>>

-----------------------------------------------------------------------------
(* node:register and node:reconnect *)

(* The name was free when nodeExists read it, and no other handler of this *)
(* agent is in flight.  last_heartbeat stays NULL, which counts as stale.  *)
CreateNode(c) ==
  LET n == NodeOf(c) IN
  /\ joining[c].pc = "create"
  /\ status' = [status EXCEPT ![n] = "online"]
  /\ connectionId' = [connectionId EXCEPT ![n] = c]
  /\ joining' = [joining EXCEPT ![c].pc = "ack"]
  /\ UNCHANGED <<heartbeatAge, suspectAge, podRow, agentVars, open, beating, closing,
                 serviceVars, faultVars>>

(* The acknowledgement makes the agent 'registered', which at once sends a *)
(* heartbeat and starts the heartbeat timer.                               *)
Acknowledge(n, c) ==
  /\ agentState' = [agentState EXCEPT ![n] = IF Delivered(c) THEN "registered" ELSE @]
  /\ due' = IF Delivered(c) THEN due \cup {n} ELSE due
  /\ joining' = [joining EXCEPT ![c] = NoJoin]

AckRegister(c) ==
  /\ joining[c].pc = "ack"
  /\ Acknowledge(NodeOf(c), c)
  /\ UNCHANGED <<nodeRow, podRow, agentConn, running, open, beating, closing,
                 serviceVars, faultVars>>

(* Mutant: the reconnect leaves the timestamp to the next heartbeat. *)
ReconnectOnTrust(c) ==
  LET n == NodeOf(c) IN
  /\ joining[c].pc = "write"
  /\ status' = [status EXCEPT ![n] = "online"]
  /\ connectionId' = [connectionId EXCEPT ![n] = c]
  /\ suspectAge' = [suspectAge EXCEPT ![n] = None]
  /\ joining' = [joining EXCEPT ![c].pc = "orphans"]
  /\ UNCHANGED <<heartbeatAge, podRow, agentVars, open, beating, closing, serviceVars, faultVars>>

ReconnectNode(c) ==
  LET n == NodeOf(c) IN
  /\ joining[c].pc = "write"
  /\ status' = [status EXCEPT ![n] = "online"]
  /\ connectionId' = [connectionId EXCEPT ![n] = c]
  /\ heartbeatAge' = [heartbeatAge EXCEPT ![n] = 0]
  /\ suspectAge' = [suspectAge EXCEPT ![n] = None]
  /\ joining' = [joining EXCEPT ![c].pc = "orphans"]
  /\ unheard' = unheard \ {n}
  /\ UNCHANGED <<podRow, agentVars, open, beating, closing, serviceVars, restarts, dbErrors>>

(* Mutant: the error is logged and not answered. *)
RequestFailsSilently(c) ==
  /\ joining[c].pc \in {"create", "write"}
  /\ DbError
  /\ joining' = [joining EXCEPT ![c] = NoJoin]
  /\ UNCHANGED <<nodeRow, podRow, agentVars, open, beating, closing, serviceVars, restarts,
                 unheard>>

(* The write fails: the agent gets INTERNAL_ERROR, which it takes for      *)
(* transient, and keeps the socket, which nobody closes.                   *)
RequestFails(c) ==
  LET n == NodeOf(c) IN
  /\ joining[c].pc \in {"create", "write"}
  /\ DbError
  /\ joining' = [joining EXCEPT ![c] = NoJoin]
  /\ agentState' = [agentState EXCEPT ![n] = IF Delivered(c) THEN "stalled" ELSE @]
  /\ UNCHANGED <<nodeRow, podRow, agentConn, running, due, open, beating, closing,
                 serviceVars, restarts, unheard>>

(* Orphans: rows active on the node that the agent did not report. *)
ListOrphans(c) ==
  LET found == ActiveOn(NodeOf(c)) \ joining[c].reported IN
  /\ joining[c].pc = "orphans"
  /\ joining' = [joining EXCEPT ![c].pc = IF found = {} THEN "stale" ELSE "mark",
                                ![c].orphans = found]
  /\ UNCHANGED <<nodeRow, podRow, agentVars, open, beating, closing, serviceVars, faultVars>>

StopOrphans(c) ==
  /\ joining[c].pc = "mark"
  /\ podStatus' = [p \in Pods |-> IF p \in joining[c].orphans THEN "stopped" ELSE podStatus[p]]
  /\ joining' = [joining EXCEPT ![c].pc = "stale", ![c].orphans = {}]
  /\ UNCHANGED <<nodeRow, podNode, agentVars, open, beating, closing, serviceVars, faultVars>>

(* Stale pods: reported, but assigned elsewhere or stopped in the database. *)
StalePods(c) == {p \in joining[c].reported :
                   podNode[p] # NodeOf(c) \/ podStatus[p] = "stopped"}

FinishReconnect(c) ==
  LET n == NodeOf(c) IN
  /\ joining[c].pc = "stale"
  /\ running' = [running EXCEPT ![n] = IF Delivered(c) THEN @ \ StalePods(c) ELSE @]
  /\ Acknowledge(n, c)
  /\ UNCHANGED <<nodeRow, podRow, agentConn, open, beating, closing, serviceVars, faultVars>>

(* Listing or stopping the orphans, or the look for stale pods, fails: it  *)
(* is logged, and the reconnect goes on without it.                        *)
SweepFails(c) ==
  /\ DbError
  /\ \/ /\ joining[c].pc \in {"orphans", "mark"}
        /\ joining' = [joining EXCEPT ![c].pc = "stale", ![c].orphans = {}]
        /\ UNCHANGED <<agentState, due>>
     \/ joining[c].pc = "stale" /\ Acknowledge(NodeOf(c), c)
  /\ UNCHANGED <<nodeRow, podRow, agentConn, running, open, beating, closing, serviceVars,
                 restarts, unheard>>

-----------------------------------------------------------------------------
(* node:heartbeat: read the row and compare the socket, then write *)

Heartbeat(n) ==
  /\ agentState[n] = "registered" /\ n \in due
  /\ due' = due \ {n}
  /\ beating' = IF agentConn[n] \in open /\ connectionId[n] = agentConn[n]
                THEN beating \cup {agentConn[n]} ELSE beating
  /\ UNCHANGED <<nodeRow, podRow, agentState, agentConn, running, open, joining, closing,
                 serviceVars, faultVars>>

UpdateHeartbeat(c) ==
  /\ c \in beating
  /\ status' = [status EXCEPT ![NodeOf(c)] = "online"]
  /\ heartbeatAge' = [heartbeatAge EXCEPT ![NodeOf(c)] = 0]
  /\ beating' = beating \ {c}
  /\ unheard' = unheard \ {NodeOf(c)}
  /\ UNCHANGED <<connectionId, suspectAge, podRow, agentVars, open, joining, closing,
                 serviceVars, restarts, dbErrors>>

(* The agent is told, and waits for its next heartbeat. *)
HeartbeatFails(c) ==
  /\ c \in beating /\ DbError
  /\ beating' = beating \ {c}
  /\ unheard' = unheard \cup {NodeOf(c)}
  /\ UNCHANGED <<nodeRow, podRow, agentVars, open, joining, closing, serviceVars, restarts>>

-----------------------------------------------------------------------------
(* The server sees socket c close: handleNodeDisconnect *)

ServerClose(c) ==
  /\ c \in open
  /\ open' = open \ {c}
  /\ closing' = [closing EXCEPT ![c] = "list"]
  /\ UNCHANGED <<nodeRow, podRow, agentVars, joining, beating, serviceVars, faultVars>>

ListNodesOfConn(c) ==
  /\ closing[c] = "list"
  /\ closing' = [closing EXCEPT ![c] =
                   IF connectionId[NodeOf(c)] = c THEN "mark" ELSE "none"]
  /\ UNCHANGED <<nodeRow, podRow, agentVars, open, joining, beating, serviceVars, faultVars>>

(* Mutant: the lease keeps an older start. *)
MarkSuspectAgain(n) ==
  /\ status' = [status EXCEPT ![n] = "suspect"]
  /\ suspectAge' = [suspectAge EXCEPT ![n] = IF @ = None THEN 0 ELSE @]

MarkNodeSuspect(n) ==
  /\ status' = [status EXCEPT ![n] = "suspect"]
  /\ suspectAge' = [suspectAge EXCEPT ![n] = 0]

DisconnectMarks(c) ==
  /\ closing[c] = "mark"
  /\ MarkNodeSuspect(NodeOf(c))
  /\ closing' = [closing EXCEPT ![c] = "clear"]
  /\ UNCHANGED <<connectionId, heartbeatAge, podRow, agentVars, open, joining, beating,
                 serviceVars, faultVars>>

DisconnectClears(c) ==
  /\ closing[c] = "clear"
  /\ connectionId' = [connectionId EXCEPT ![NodeOf(c)] = None]
  /\ closing' = [closing EXCEPT ![c] = "none"]
  /\ UNCHANGED <<status, heartbeatAge, suspectAge, podRow, agentVars, open, joining, beating,
                 serviceVars, faultVars>>

(* Without the list nothing is done; a mark that fails does not keep the   *)
(* connection from being cleared.                                          *)
DisconnectFails(c) ==
  /\ closing[c] # "none" /\ DbError
  /\ closing' = [closing EXCEPT ![c] = IF @ = "mark" THEN "clear" ELSE "none"]
  /\ UNCHANGED <<nodeRow, podRow, agentVars, open, joining, beating, serviceVars, restarts,
                 unheard>>

-----------------------------------------------------------------------------
(* NodeHealthService: one cycle at most per tick *)

(* Mutants: rows without, or with, a socket escape the check; suspect_since *)
(* is trusted whatever the status.                                          *)
StaleConnected == {n \in Nodes : /\ status[n] = "online" /\ connectionId[n] # None
                                 /\ heartbeatAge[n] > HeartbeatTimeout}
StaleDisconnected == {n \in Nodes : /\ status[n] = "online" /\ connectionId[n] = None
                                    /\ heartbeatAge[n] > HeartbeatTimeout}
ExpiredSince == {n \in Nodes : suspectAge[n] # None /\ suspectAge[n] >= LeaseTimeout}

StaleNodes   == {n \in Nodes : status[n] = "online" /\ heartbeatAge[n] > HeartbeatTimeout}
ExpiredNodes == {n \in Nodes : status[n] = "suspect" /\ suspectAge[n] >= LeaseTimeout}

HealthListsOnline ==
  /\ health.pc = "due"
  /\ health' = [health EXCEPT !.pc = "stale", !.work = StaleNodes]
  /\ UNCHANGED <<nodeRow, podRow, agentVars, open, handlerVars, sched, faultVars>>

HealthMarks(n) ==
  /\ health.pc = "stale" /\ n \in health.work
  /\ MarkNodeSuspect(n)
  /\ health' = [health EXCEPT !.work = @ \ {n}]
  /\ UNCHANGED <<connectionId, heartbeatAge, podRow, agentVars, open, handlerVars, sched,
                 faultVars>>

HealthListsSuspects ==
  /\ health.pc = "stale" /\ health.work = {}
  /\ health' = [health EXCEPT !.pc = "revoke", !.work = ExpiredNodes]
  /\ UNCHANGED <<nodeRow, podRow, agentVars, open, handlerVars, sched, faultVars>>

RevokePodsOnNode(n) ==
  /\ health.pc = "revoke" /\ n \in health.work
  /\ podStatus' = [p \in Pods |-> IF p \in ActiveOn(n) THEN "stopped" ELSE podStatus[p]]
  /\ health' = [health EXCEPT !.pc = "offline", !.node = n]
  /\ UNCHANGED <<nodeRow, podNode, agentVars, open, handlerVars, sched, faultVars>>

ExpireNodeLease ==
  /\ health.pc = "offline"
  /\ status' = [status EXCEPT ![health.node] = IF @ = "suspect" THEN "offline" ELSE @]
  /\ health' = [health EXCEPT !.pc = "clear"]
  /\ UNCHANGED <<connectionId, heartbeatAge, suspectAge, podRow, agentVars, open, handlerVars,
                 sched, faultVars>>

HealthClears ==
  /\ health.pc = "clear"
  /\ connectionId' = [connectionId EXCEPT ![health.node] = None]
  /\ health' = [pc |-> "revoke", work |-> health.work \ {health.node}, node |-> None]
  /\ UNCHANGED <<status, heartbeatAge, suspectAge, podRow, agentVars, open, handlerVars, sched,
                 faultVars>>

(* A list that fails is as good as an empty one, a mark that fails is left *)
(* to the next cycle.  The status goes offline although the revocation     *)
(* failed, and then nobody revokes these pods any more; if the status      *)
(* fails, the connection is not cleared, and the next cycle tries again.   *)
HealthFails ==
  /\ DbError
  /\ \/ health.pc = "due" /\ health' = [health EXCEPT !.pc = "stale"]
     \/ health.pc = "stale" /\ health.work = {} /\ health' = [health EXCEPT !.pc = "revoke"]
     \/ \E n \in health.work :
          \/ health.pc = "stale" /\ health' = [health EXCEPT !.work = @ \ {n}]
          \/ health.pc = "revoke" /\ health' = [health EXCEPT !.pc = "offline", !.node = n]
     \/ /\ health.pc \in {"offline", "clear"}
        /\ health' = [pc |-> "revoke", work |-> health.work \ {health.node}, node |-> None]
  /\ UNCHANGED <<nodeRow, podRow, agentVars, open, handlerVars, sched, restarts, unheard>>

HealthDone ==
  /\ health.pc = "revoke" /\ health.work = {}
  /\ health' = [health EXCEPT !.pc = "done"]
  /\ UNCHANGED <<nodeRow, podRow, agentVars, open, handlerVars, sched, faultVars>>

-----------------------------------------------------------------------------
(* SchedulerService: one round at most per tick *)

Pending == {p \in Pods : podStatus[p] = "pending"}

(* The snapshot of online nodes; a node is represented by the socket its   *)
(* row named then (a node without one is never used).                      *)
OnlineConns == {c \in Conns : connectionId[NodeOf(c)] = c /\ status[NodeOf(c)] = "online"}

SchedulerLists ==
  /\ sched.pc = "due" /\ Pending # {} /\ OnlineConns # {}
  /\ sched' = [sched EXCEPT !.pc = "assign", !.pods = Pending, !.conns = OnlineConns]
  /\ UNCHANGED <<nodeRow, podRow, agentVars, open, handlerVars, health, faultVars>>

(* schedulePod only takes a row that is still pending. *)
SchedulePod(p, c) ==
  /\ sched.pc = "assign" /\ p \in sched.pods /\ c \in sched.conns
  /\ podStatus[p] = "pending"
  /\ podStatus' = [podStatus EXCEPT ![p] = "active"]
  /\ podNode' = [podNode EXCEPT ![p] = NodeOf(c)]
  /\ sched' = [sched EXCEPT !.pc = "deploy", !.pods = @ \ {p}, !.pod = p, !.conn = c]
  /\ UNCHANGED <<nodeRow, agentVars, open, handlerVars, health, faultVars>>

(* pod:deploy goes to the socket of the snapshot.  The agent runs the pod  *)
(* and, while registered, reports 'running', which the server writes.      *)
DeployPodToNode ==
  LET n == NodeOf(sched.conn)  p == sched.pod IN
  /\ sched.pc = "deploy"
  /\ \/ /\ Delivered(sched.conn)
        /\ running' = [running EXCEPT ![n] = @ \cup {p}]
        /\ podStatus' = [podStatus EXCEPT ![p] =
                           IF agentState[n] = "registered" THEN "active" ELSE @]
     \/ /\ ~ Delivered(sched.conn)
        /\ UNCHANGED <<running, podStatus>>
  /\ sched' = [sched EXCEPT !.pc = "assign", !.pod = None, !.conn = None]
  /\ UNCHANGED <<nodeRow, podNode, agentState, agentConn, due, open, handlerVars, health,
                 faultVars>>

SchedulerDone ==
  /\ sched.pc = "assign"
  /\ sched' = [NoRound EXCEPT !.pc = "done"]
  /\ UNCHANGED <<nodeRow, podRow, agentVars, open, handlerVars, health, faultVars>>

(* The service controller creates a pod for one that stopped; the row's    *)
(* name is reused once no process and no handler refers to the old pod.    *)
ReplacePod(p) ==
  /\ podStatus[p] = "stopped"
  /\ \A n \in Nodes : p \notin running[n]
  /\ \A c \in Conns : p \notin joining[c].reported \cup joining[c].orphans
  /\ sched.pod # p
  /\ podStatus' = [podStatus EXCEPT ![p] = "pending"]
  /\ podNode' = [podNode EXCEPT ![p] = None]
  /\ UNCHANGED <<nodeRow, agentVars, open, handlerVars, serviceVars, faultVars>>

-----------------------------------------------------------------------------
(* The server process restarts: sockets and handlers are gone, the         *)
(* database rows are as the last write left them, nothing repairs them.    *)
ServerRestart ==
  /\ restarts < MaxRestarts
  /\ restarts' = restarts + 1
  /\ open' = {}
  /\ joining' = [c \in Conns |-> NoJoin]
  /\ beating' = {}
  /\ closing' = [c \in Conns |-> "none"]
  /\ health' = NoCycle
  /\ sched' = NoRound
  /\ UNCHANGED <<nodeRow, podRow, agentVars, dbErrors, unheard>>

NothingInFlight ==
  /\ \A c \in Conns : joining[c].pc = "idle" /\ closing[c] = "none"
  /\ beating = {}
  /\ health.pc \in {"due", "done"}
  /\ sched.pc \in {"due", "done"}

(* Heartbeat timers fire on time: every registered agent has sent the      *)
(* heartbeat of this tick before the next.                                 *)
Tick ==
  /\ NothingInFlight
  /\ \A n \in due : agentState[n] # "registered"
  /\ heartbeatAge' = [n \in Nodes |-> Older(heartbeatAge[n])]
  /\ suspectAge' = [n \in Nodes |->
       IF suspectAge[n] = None THEN None ELSE Older(suspectAge[n])]
  /\ due' = {n \in Nodes : agentState[n] \in {"waiting", "registered"}}
  /\ health' = NoCycle
  /\ sched' = NoRound
  /\ UNCHANGED <<status, connectionId, podRow, agentState, agentConn, running, open,
                 handlerVars, faultVars>>

-----------------------------------------------------------------------------
HandlerStep(c) ==
  \/ CreateNode(c) \/ AckRegister(c)
  \/ ReconnectNode(c) \/ ListOrphans(c) \/ StopOrphans(c) \/ FinishReconnect(c)
  \/ UpdateHeartbeat(c)
  \/ ListNodesOfConn(c) \/ DisconnectMarks(c) \/ DisconnectClears(c)

CallFails(c) == RequestFails(c) \/ SweepFails(c) \/ HeartbeatFails(c) \/ DisconnectFails(c)

HealthStep ==
  \/ HealthListsOnline \/ HealthListsSuspects \/ HealthDone
  \/ ExpireNodeLease \/ HealthClears
  \/ \E n \in Nodes : HealthMarks(n) \/ RevokePodsOnNode(n)

SchedulerStep ==
  \/ SchedulerLists \/ DeployPodToNode \/ SchedulerDone
  \/ \E p \in Pods, c \in Conns : SchedulePod(p, c)

Next ==
  \/ \E n \in Nodes : \/ AgentStart(n) \/ AgentCrash(n) \/ AgentLosesConn(n) \/ Heartbeat(n)
                      \/ \E c \in Conns : AgentConnect(n, c)
                      \/ \E p \in Pods : PodExit(n, p)
  \/ \E c \in Conns : HandlerStep(c) \/ CallFails(c) \/ ServerClose(c)
  \/ HealthStep
  \/ HealthFails
  \/ SchedulerStep
  \/ \E p \in Pods : ReplacePod(p)
  \/ ServerRestart
  \/ Tick

Spec == Init /\ [][Next]_vars

(* Handlers that started end, timers fire, a socket that one side closed   *)
(* is noticed by the other (the server's ping timeout, TCP), an agent that *)
(* waits reconnects.  Crashes, faults and process exits are never forced.  *)
Fairness ==
  /\ \A c \in Conns : /\ WF_vars(HandlerStep(c))
                      /\ WF_vars(ServerClose(c) /\ agentConn[NodeOf(c)] # c)
  /\ \A n \in Nodes : /\ WF_vars(Heartbeat(n))
                      /\ WF_vars(\E c \in Conns : AgentConnect(n, c))
                      /\ WF_vars(AgentLosesConn(n) /\ agentConn[n] \notin open)
  /\ WF_vars(HealthStep)
  /\ WF_vars(SchedulerStep)
  /\ WF_vars(Tick)

FairSpec == Spec /\ Fairness

-----------------------------------------------------------------------------
TypeOK ==
  /\ status \in [Nodes -> NodeStatus]
  /\ connectionId \in [Nodes -> Conns \cup {None}]
  /\ heartbeatAge \in [Nodes -> Ages]
  /\ suspectAge \in [Nodes -> Ages \cup {None}]
  /\ podStatus \in [Pods -> PodStatus]
  /\ podNode \in [Pods -> Nodes \cup {None}]
  /\ agentState \in [Nodes -> AgentState]
  /\ agentConn \in [Nodes -> Conns \cup {None}]
  /\ running \in [Nodes -> SUBSET Pods]
  /\ due \in SUBSET Nodes
  /\ open \in SUBSET Conns
  /\ joining \in [Conns -> JoinRecord]
  /\ beating \in SUBSET Conns
  /\ closing \in [Conns -> ClosePc]
  /\ health \in [pc : HealthPc, work : SUBSET Nodes, node : Nodes \cup {None}]
  /\ (health.pc \in {"offline", "clear"} => health.node \in Nodes)
  /\ sched \in [pc : SchedPc, pods : SUBSET Pods, conns : SUBSET Conns,
                pod : Pods \cup {None}, conn : Conns \cup {None}]
  /\ (sched.pc = "deploy" => sched.pod \in Pods /\ sched.conn \in Conns)
  /\ restarts \in 0 .. MaxRestarts
  /\ dbErrors \in 0 .. MaxDbErrors
  /\ unheard \in SUBSET Nodes

(* Safety.                                                                 *)

(* An agent that is registered over an open socket which its row names has *)
(* a heartbeat of this tick written or on its way, unless writing its last *)
(* one failed: the heartbeat timeout never runs out on a live owner the    *)
(* database takes heartbeats from.  Relates startHeartbeat, the owner   *)
(* check of handleNodeHeartbeat and the timestamp of reconnectNode.        *)
OwnerIsFresh ==
  \A n \in Nodes :
    agentState[n] = "registered" /\ agentConn[n] \in open /\ connectionId[n] = agentConn[n]
      => heartbeatAge[n] = 0 \/ n \in due \/ agentConn[n] \in beating \/ n \in unheard

(* A node the health service is about to strip of its pods either has been *)
(* silent for a whole lease or was heard of while the check was running:   *)
(* expireNodeLeases works through a snapshot, with awaits in between.      *)
ExpiryTargetsSilent ==
  health.pc \in {"revoke", "offline", "clear"} =>
    \A n \in health.work : heartbeatAge[n] = 0 \/ heartbeatAge[n] >= LeaseTimeout

(* What makes the two inductive. *)

(* A suspect row was silent for at least as long as it is suspect. *)
SuspectSilent ==
  \A n \in Nodes : status[n] = "suspect" =>
    suspectAge[n] # None /\ heartbeatAge[n] >= suspectAge[n]

(* An agent holds a socket of its own, and only while connected. *)
AgentSocket ==
  \A n \in Nodes :
    /\ agentConn[n] # None => NodeOf(agentConn[n]) = n
    /\ agentState[n] \in {"down", "waiting"} => agentConn[n] = None

(* While a join of the socket it holds is in flight the agent waits. *)
JoinOnSocket ==
  \A c \in Conns : joining[c].pc # "idle" /\ agentConn[NodeOf(c)] = c
    => agentState[NodeOf(c)] = "joining"

(* A reconnect past its write has just refreshed the heartbeat. *)
JoinIsFresh ==
  \A c \in Conns : joining[c].pc \in {"orphans", "mark", "stale"} => heartbeatAge[NodeOf(c)] = 0

(* A pod runs, if anywhere, on the node its row names; a pending row names *)
(* none; a round deploys to the node it just wrote; the orphans a          *)
(* reconnect found are its own node's.                                     *)
PodPlacement ==
  /\ \A n \in Nodes : \A p \in running[n] : podNode[p] = n
  /\ \A p \in Pods : podStatus[p] = "pending" => podNode[p] = None
  /\ sched.pc = "deploy" => podNode[sched.pod] = NodeOf(sched.conn)
  /\ \A c \in Conns : \A p \in joining[c].orphans : podNode[p] = NodeOf(c)

(* The inductive invariant: with the parts above, why a node is stripped   *)
(* of its pods by silence only, and no pod row is ever taken away from the *)
(* node that runs it by another node's messages.                           *)
LeaseInv ==
  /\ TypeOK /\ SuspectSilent /\ AgentSocket /\ JoinOnSocket /\ JoinIsFresh
  /\ OwnerIsFresh /\ ExpiryTargetsSilent /\ PodPlacement

(* A pod that its node runs is never stopped in the database behind the    *)
(* node's back (by a revocation or by the orphan sweep of a reconnect)     *)
(* unless the node was silent for a whole lease or was heard of this tick. *)
RunningPodKeepsRow ==
  [][\A n \in Nodes : \A p \in running[n] \cap running'[n] :
       p \in ActiveOn(n) /\ podStatus'[p] = "stopped"
         => heartbeatAge[n] = 0 \/ heartbeatAge[n] >= LeaseTimeout]_vars

(* Liveness. *)

(* An agent that is gone for good does not stay 'online': the scheduler    *)
(* stops choosing its node, whatever handler of it was still in flight.    *)
DeadNodeLeavesService ==
  \A n \in Nodes : <>[](agentState[n] = "down") => <>[](status[n] # "online")

(* A request to register or reconnect is resolved: acknowledged, refused,  *)
(* or the agent sees the socket close, also across a server restart.       *)
JoinResolves ==
  \A n \in Nodes : agentState[n] = "joining" ~> agentState[n] # "joining"

(* A row does not stay online naming a socket the server no longer has     *)
(* (written by a reconnect that finished after its own disconnect, or left *)
(* by a restart of the server): deploys to it would be lost for ever.      *)
DeadSocketIsNoticed ==
  \A n \in Nodes : \A c \in Conns :
    LET dead == status[n] = "online" /\ connectionId[n] = c /\ c \notin open
    IN  dead ~> ~ dead

-----------------------------------------------------------------------------
(* What the source says of itself and the code does not keep. *)

(* node-health-service.ts:11 "If reconnects before lease expires: restore  *)
(* to online, nothing else changes": an agent that reconnected and stays   *)
(* registered has its row online again and again.                          *)
RegisteredNodeStaysOnline ==
  \A n \in Nodes : <>[](agentState[n] = "registered") => []<>(status[n] = "online")

(* node-agent.ts:918 "Transient failure (connection dropped, timeout,      *)
(* etc.) - will retry via handleClose".                                    *)
StalledAgentRetries ==
  \A n \in Nodes : agentState[n] = "stalled" ~> agentState[n] # "stalled"

(* node-health-service.ts:12 "If lease expires: node becomes 'offline',    *)
(* pods are REVOKED".                                                      *)
OfflineNodeHasNoPods ==
  \A n \in Nodes : status[n] = "offline" => ActiveOn(n) = {}

(* Line 11 again: a node that is back is not stripped of its pods, by an   *)
(* expiry that read its row before.                                        *)
ReturnedNodeKeepsPods ==
  [][\A n \in Nodes :
       RevokePodsOnNode(n) /\ status[n] = "online" => running[n] \cap ActiveOn(n) = {}]_vars

=============================================================================
