------------------------------ MODULE PodRouting ------------------------------
(***************************************************************************)
(* The direct connection of one pod to the orchestrator: the pod's network *)
(* stack, which opens sockets, registers, reconnects on timers of which it *)
(* remembers one, and the server's maps: the route to the pod              *)
(* (podToConnection), the pods of a connection (connectionToPods), the     *)
(* service registry other pods are routed from, and the queue of signals   *)
(* for pods that have no route yet.                                        *)
(*                                                                         *)
(* The resolve and reject functions of the newest connection attempt are   *)
(* kept in the stack itself; every socket's events use them.  Of a socket  *)
(* the two ends are told apart, as either may go first.                    *)
(*                                                                         *)
(* The registry also takes 'network:registry:heartbeat', with which an     *)
(* agent may enter any pod, route or none; nothing in the repository sends *)
(* it, and it is left out.                                                 *)
(***************************************************************************)
EXTENDS Integers, FiniteSets

CONSTANTS MaxSockets,    (* bound: sockets that matter at the same time     *)
          MaxAttempts,   (* maxReconnectAttempts                            *)
          MaxFaults      (* bound: refusals, time-outs, breaks, restarts ...*)

ASSUME RoutingAssumption ==
  MaxSockets \in Nat /\ MaxAttempts \in Nat /\ MaxFaults \in Nat

VARIABLES
  client,          (* the pod's end of every socket                         *)
  ws,              (* the stack's own socket, or 0                          *)
  state,           (* NetworkStackState                                     *)
  connected,
  initOf,          (* whose promise initPromiseResolve settles, or 0        *)
  waits,           (* sockets whose promise is not settled                  *)
  boot,            (* the socket init() waits for                           *)
  ready,           (* init(): "no", "yes" or "failed"                       *)
  timers,          (* reconnect timers that will fire                       *)
  attempts,        (* reconnectAttempts                                     *)
  (* the server *)
  server,          (* sockets that are open at the server's end             *)
  sent,            (* sockets with a register message under way             *)
  route,           (* podToConnection of the pod, or 0                      *)
  podsOf,          (* connections that list the pod in connectionToPods     *)
  registered,      (* the pod is in the service registry                    *)
  queue,           (* signals wait for the pod                              *)
  expired,         (* the pod's token                                       *)
  faults           (* bound                                                 *)

stackVars  == <<client, ws, state, connected, initOf, waits, boot, ready, timers, attempts>>
serverVars == <<server, sent, route, podsOf, registered, queue, expired>>
vars == <<stackVars, serverVars, faults>>

Sockets == 1 .. MaxSockets

Init ==
  /\ client = [s \in Sockets |-> "closed"]
  /\ ws = 0 /\ state = "disconnected" /\ connected = FALSE
  /\ initOf = 0 /\ waits = {} /\ boot = 0 /\ ready = "no"
  /\ timers = 0 /\ attempts = 0
  /\ server = {} /\ sent = {} /\ route = 0 /\ podsOf = {}
  /\ registered = FALSE /\ queue = FALSE /\ expired = FALSE
  /\ faults = 0

Fault == faults < MaxFaults /\ faults' = faults + 1

Ended == ready = "ended"

(* The promise the stack's functions settle, as a set. *)
Current == {initOf} \cap waits

-----------------------------------------------------------------------------
(* The pod's network stack *)

(* connectToOrchestrator *)
Open(s) ==
  /\ client[s] = "closed" /\ s \notin server /\ s \notin waits
  /\ \A r \in Sockets : r < s => client[r] # "closed" \/ r \in server \/ r \in waits
  /\ client' = [client EXCEPT ![s] = "connecting"]
  /\ ws' = s /\ initOf' = s /\ waits' = waits \cup {s}
  /\ state' = "connecting"
  /\ UNCHANGED <<connected, attempts>>

(* init() *)
Boot(s) ==
  /\ ready = "no" /\ boot = 0
  /\ Open(s) /\ boot' = s
  /\ UNCHANGED <<ready, timers, serverVars, faults>>

(* A reconnect timer. *)
Reconnect(s) ==
  /\ timers > 0 /\ timers' = timers - 1
  /\ Open(s)
  /\ UNCHANGED <<boot, ready, serverVars, faults>>

(* Mutant: the attempts of a connection are never given another try. *)
ScheduleNot(n, other) == state' = other /\ UNCHANGED <<attempts, timers>>

(* scheduleReconnect, n times: it gives up when the attempts are used up.  *)
ScheduleReconnect(n, other) ==
  /\ attempts' = IF attempts + n <= MaxAttempts THEN attempts + n ELSE MaxAttempts
  /\ timers' = timers + (attempts' - attempts)
  /\ state' = IF attempts' > attempts THEN "reconnecting" ELSE other

(* init() rejects for good: the pack runs on without networking. *)
Reject(R) ==
  /\ waits' = waits \ R
  /\ ready' = IF boot \in R THEN "failed" ELSE ready

(* 'open': the newest promise is resolved, whoever's event it is.  Its     *)
(* continuation registers over the stack's own socket, if that is open.    *)
SocketOpens(s) ==
  /\ client[s] = "connecting"
  /\ client' = [client EXCEPT ![s] = "open"]
  /\ server' = server \cup {s}
  /\ connected' = TRUE
  /\ waits' = waits \ Current
  /\ sent' = IF Current # {} /\ client'[ws] = "open" THEN sent \cup {ws} ELSE sent
  /\ state' = IF Current # {} THEN "registered" ELSE "connected"
  /\ attempts' = IF Current \ {boot} # {} THEN 0 ELSE attempts
  /\ ready' = IF boot \in Current THEN "yes" ELSE ready
  /\ UNCHANGED <<ws, initOf, boot, timers, route, podsOf, registered, queue, expired, faults>>

(* The attempt's timer: the promise is rejected, the socket stays. *)
ConnectTimesOut(s) ==
  /\ s \in waits
  /\ IF client[s] = "connecting" THEN Fault ELSE UNCHANGED faults
  /\ Reject({s})
  /\ ScheduleReconnect(IF s = boot THEN 0 ELSE 1, state)
  /\ UNCHANGED <<client, ws, connected, initOf, boot, serverVars>>

(* handleClose of socket s, where 'error' has rejected the promises in E:  *)
(* one timer for the close, one for every reconnect() that throws.         *)
HandleClose(s, E) ==
  LET R == E \cup IF state # "registered" THEN Current ELSE {} IN
  /\ client' = [client EXCEPT ![s] = "closed"]
  /\ connected' = FALSE
  /\ initOf' = IF state # "registered" THEN 0 ELSE initOf
  /\ Reject(R)
  /\ ScheduleReconnect(1 + Cardinality(R \ {boot}), "disconnected")
  /\ UNCHANGED <<ws, boot>>

(* 'error' and 'close' of a socket that does not open; an error is taken   *)
(* for one of the attempt unless another socket is open.                   *)
SocketRefused(s) ==
  /\ client[s] = "connecting" /\ Fault
  /\ HandleClose(s, IF connected THEN {} ELSE {s} \cap waits)
  /\ UNCHANGED serverVars

(* The pod's end closes, after the server's or because the network broke.  *)
SocketCloses(s) ==
  /\ client[s] = "open"
  /\ IF s \in server THEN Fault ELSE UNCHANGED faults
  /\ HandleClose(s, {})
  /\ UNCHANGED serverVars

(* The pod's process ends. *)
End ==
  /\ boot # 0 /\ ~ Ended
  /\ client' = [s \in Sockets |-> "closed"]
  /\ ws' = 0 /\ connected' = FALSE /\ state' = "disconnected" /\ initOf' = 0
  /\ waits' = {} /\ ready' = "ended" /\ timers' = 0
  /\ UNCHANGED <<boot, attempts, serverVars, faults>>

-----------------------------------------------------------------------------
(* The server *)

(* Mutant: the connection does not list the pod. *)
RegisterUnlisted(s) == route' = s /\ UNCHANGED podsOf

(* registerPodConnection *)
RegisterPodConnection(s) == route' = s /\ podsOf' = podsOf \cup {s}

(* network:pod:register with a valid token: route, registry entry, and the *)
(* queued signals are sent; otherwise the pod is told and nothing else.    *)
HandlePodRegister(s) ==
  /\ s \in sent /\ s \in server
  /\ sent' = sent \ {s}
  /\ \/ /\ ~ expired
        /\ RegisterPodConnection(s)
        /\ registered' = TRUE /\ queue' = FALSE
     \/ /\ expired
        /\ UNCHANGED <<route, podsOf, registered, queue>>
  /\ UNCHANGED <<stackVars, server, expired, faults>>

(* What a closed connection that lists the pod takes with it, even if the  *)
(* pod has registered over another one since.                              *)
ForgetPod == route' = 0 /\ queue' = FALSE /\ registered' = FALSE

(* handleClose of the server: the pod's end is closed, or the ping found   *)
(* nobody.                                                                 *)
ConnectionCloses(s) ==
  /\ s \in server
  /\ IF client[s] = "open" THEN Fault ELSE UNCHANGED faults
  /\ server' = server \ {s}
  /\ sent' = sent \ {s}
  /\ podsOf' = podsOf \ {s}
  /\ IF s \in podsOf THEN ForgetPod ELSE UNCHANGED <<route, queue, registered>>
  /\ UNCHANGED <<stackVars, expired>>

ServerRestarts ==
  /\ Fault
  /\ server' = {} /\ sent' = {} /\ route' = 0 /\ podsOf' = {}
  /\ registered' = FALSE /\ queue' = FALSE
  /\ UNCHANGED <<stackVars, expired>>

(* sendToPod finds no connection: the signal is queued.  (Without a route  *)
(* the pod is in no registry, so that there is no node agent to ask.)      *)
QueueSignal == queue' = (queue \/ route = 0)

RelaySignal ==
  /\ QueueSignal
  /\ UNCHANGED <<stackVars, server, sent, route, podsOf, registered, expired, faults>>

(* The pod's node reconnects, or loses its lease. *)
UnregisterPodsOnNode ==
  /\ registered /\ Fault /\ registered' = FALSE
  /\ UNCHANGED <<stackVars, server, sent, route, podsOf, queue, expired>>

TokenExpires ==
  /\ ~ expired /\ Fault /\ expired' = TRUE
  /\ UNCHANGED <<stackVars, server, sent, route, podsOf, registered, queue>>

-----------------------------------------------------------------------------
Next ==
  \/ \E s \in Sockets :
       \/ Boot(s) \/ Reconnect(s) \/ SocketOpens(s) \/ ConnectTimesOut(s)
       \/ SocketRefused(s) \/ SocketCloses(s)
       \/ HandlePodRegister(s) \/ ConnectionCloses(s)
  \/ End \/ ServerRestarts \/ RelaySignal \/ UnregisterPodsOnNode \/ TokenExpires

Spec == Init /\ [][Next]_vars

-----------------------------------------------------------------------------
TypeOK ==
  /\ client \in [Sockets -> {"closed", "connecting", "open"}]
  /\ ws \in 0 .. MaxSockets /\ initOf \in 0 .. MaxSockets /\ boot \in 0 .. MaxSockets
  /\ state \in {"disconnected", "connecting", "connected", "registered", "reconnecting"}
  /\ connected \in BOOLEAN
  /\ waits \in SUBSET Sockets
  /\ ready \in {"no", "yes", "failed", "ended"}
  /\ timers \in Nat
  /\ attempts \in 0 .. MaxAttempts
  /\ server \in SUBSET Sockets /\ sent \in SUBSET Sockets /\ podsOf \in SUBSET Sockets
  /\ route \in 0 .. MaxSockets
  /\ registered \in BOOLEAN /\ queue \in BOOLEAN /\ expired \in BOOLEAN
  /\ faults \in 0 .. MaxFaults

(* The maps agree: a route is an open connection that will take it along   *)
(* when it closes, and whoever is in the registry, where other pods are    *)
(* sent, has a route.                                                      *)
RoutesAreOpen ==
  /\ podsOf \subseteq server
  /\ route # 0 => route \in podsOf
  /\ registered => route # 0

(* Signals wait for pods without a route only: the register that makes the *)
(* route sends them, and no later signal overtakes them.                   *)
QueueWaitsForRoute == queue => route = 0

RoutesSafe == TypeOK /\ RoutesAreOpen /\ QueueWaitsForRoute

(* The pod never forgets to come back: with attempts left there is a timer *)
(* or a socket whose events will cause one, whatever refusals, time-outs   *)
(* and sockets of earlier attempts do to the shared promise.               *)
NeverForgets ==
  boot # 0 /\ ~ Ended /\ attempts < MaxAttempts =>
    timers > 0 \/ \E s \in Sockets : client[s] # "closed"

(* An ended pod leaves routes and registry. *)
EndedPodLeaves == Ended ~> route = 0 /\ ~ registered

GaveUp == attempts = MaxAttempts /\ timers = 0

(* An attempt timed out, its socket opened afterwards: nobody waits for it. *)
Unclaimed == state = "connected" /\ waits = {}

(* A pod that lost its connection takes itself for registered again, unless *)
(* the attempts are used up or an attempt opened too late.                 *)
RegistersAgain ==
  boot # 0 /\ state # "registered" ~>
    Ended \/ state = "registered" \/ GaveUp \/ Unclaimed

(* What the code's comments say and the code does not keep (README); TLC    *)
(* refutes each, and no run is kept of them.                               *)

(* reconnect(), as its doc has it: who takes himself for registered has    *)
(* sent a register message.                                                *)
ReconnectRegisters ==
  [][state' = "registered" /\ state # "registered" => sent' # sent]_vars

(* The cleanup of a closed connection, as its comment has it: only pods    *)
(* that are registered on this connection are forgotten.                   *)
CleanupIsLocal ==
  [][\A s \in Sockets : ConnectionCloses(s) /\ route # s => route' = route]_vars

(* The clearing of a reconnected node's pods, as its comment has it: until *)
(* they register again.                                                    *)
ClearedPodsReturn ==
  route # 0 /\ ~ registered ~> registered \/ route = 0

(* The failure of init(), as its comment has it: the pack runs without     *)
(* inter-service communication, that is, no caller is sent to it.          *)
FailedInitStaysOut == ready = "failed" => ~ registered

=============================================================================
