--------------------------- MODULE AgentConnection ---------------------------
(***************************************************************************)
(* How an agent gets and keeps its registration: sockets, requests that    *)
(* wait for an answer, the timers that reconnect.  The agent keeps one     *)
(* field for its socket (ws), one for its state and one for its timer,     *)
(* and every event of every socket it ever opened works on these fields.   *)
(*                                                                         *)
(* The agents of node-runtime and browser-runtime differ: the browser's    *)
(* schedules one reconnect at a time and drops the old socket before it    *)
(* opens a new one; a refused connection of the node's schedules two.      *)
(* Heartbeats change nothing here (their failures are ignored), nor does   *)
(* the refresh of tokens; the browser's agent without a token waits for    *)
(* one, over HTTP, before it authenticates.                                *)
(***************************************************************************)
EXTENDS Integers, FiniteSets

CONSTANTS Sockets,       (* sockets that exist at the same time             *)
          None,          (* null                                            *)
          Runtimes,      (* the agents: "node", "browser"                   *)
          MaxAttempts,   (* config.maxReconnectAttempts                     *)
          MaxRefusals,   (* bound: connections refused                      *)
          MaxFaults      (* bound: sockets lost, errors, late answers       *)

ASSUME ConnectionAssumption ==
  /\ None \notin Sockets /\ Sockets # {}
  /\ Runtimes \subseteq {"node", "browser"}
  /\ MaxAttempts \in Nat /\ MaxRefusals \in Nat /\ MaxFaults \in Nat

VARIABLES
  runtime,           (* which agent this is                                 *)
  state, ws,         (* this.state, this.ws                                 *)
  socket,            (* every socket of the agent                           *)
  authed,            (* sockets the server has authenticated                *)
  requests,          (* pendingRequests, with the answers under way         *)
  nodeKnown,         (* this.nodeId is set                                  *)
  token,             (* this.authToken is set, or stored                    *)
  retried,           (* this.authRetryCount (browser)                       *)
  timers, held,      (* reconnect timeouts; this.reconnectTimer is set      *)
  attempts,          (* this.reconnectAttempts                              *)
  isShuttingDown,
  nodeRow,           (* the server has a row for the node                   *)
  refusals, faults   (* bounds                                              *)

timerVars == <<timers, held, attempts>>
agent == <<runtime, isShuttingDown>>
session == <<agent, nodeKnown, token, retried, nodeRow>>
bounds == <<refusals, faults>>
connVars == <<session, state, ws, socket, authed, requests, timerVars, bounds>>

States == {"disconnected", "connecting", "connected", "authenticating", "registering",
           "registered"}

(* open: the server's greeting is under way; greeted: it has arrived;      *)
(* lost: gone, but the close event has not been raised yet.                *)
SocketStates == {"free", "connecting", "open", "greeted", "lost"}

(* of is the socket whose greeting led to the request, via the one it was  *)
(* sent on; a lookup and the wait for a token are HTTP requests.           *)
Http == {"lookup", "token"}
Outcomes == {"none", "ok", "error", "denied", "conflict", "gone"}

Request ==
  [kind : {"auth", "register", "reconnect"}, of : Sockets, via : Sockets, answer : Outcomes]
    \cup [kind : Http, of : Sockets, via : {None}, answer : Outcomes]

(* start() has opened the first socket (if it is refused the CLI exits),   *)
(* which may be gone again already; the node may have been registered in   *)
(* an earlier session; without one the browser may lack credentials.       *)
ConnInit ==
  /\ runtime \in Runtimes
  /\ state = "connected"
  /\ ws = CHOOSE s \in Sockets : TRUE
  /\ \E first \in {"open", "lost"} :
       socket = [s \in Sockets |-> IF s = ws THEN first ELSE "free"]
  /\ authed = {}
  /\ requests = {}
  /\ nodeKnown \in BOOLEAN /\ nodeRow = nodeKnown
  /\ token \in BOOLEAN /\ (runtime = "node" \/ nodeKnown => token)
  /\ retried = FALSE
  /\ timers = 0 /\ held = FALSE
  /\ attempts = 0
  /\ isShuttingDown = FALSE
  /\ refusals = 0 /\ faults = 0

Up == {"open", "greeted"}

Fault == faults < MaxFaults /\ faults' = faults + 1

-----------------------------------------------------------------------------
(* Timers *)

More(n) ==
  /\ timers' = timers + n
  /\ attempts' = attempts + n
  /\ held' = TRUE

(* scheduleReconnect, unless the attempts are used up. *)
ScheduleOnce ==
  \/ attempts < MaxAttempts /\ More(1)
  \/ attempts = MaxAttempts /\ UNCHANGED timerVars

(* Called twice, as far as the attempts reach. *)
ScheduleBoth ==
  \/ attempts + 2 <= MaxAttempts /\ More(2)
  \/ attempts + 1 = MaxAttempts /\ More(1)
  \/ attempts = MaxAttempts /\ UNCHANGED timerVars

(* The browser's returns if a timer is set. *)
ScheduleBrowser ==
  \/ held /\ UNCHANGED timerVars
  \/ ~ held /\ ScheduleOnce

Schedule ==
  IF isShuttingDown THEN UNCHANGED timerVars
  ELSE IF runtime = "browser" THEN ScheduleBrowser ELSE ScheduleOnce

(* Mutant: the browser's agent does not look at its timer either. *)
RefusedTwice == IF isShuttingDown THEN UNCHANGED timerVars ELSE ScheduleBoth

(* A refused connection raises an error, which rejects connect, and a      *)
(* close: in node-runtime both schedule a reconnect.                       *)
ScheduleRefused ==
  IF isShuttingDown THEN UNCHANGED timerVars
  ELSE IF runtime = "browser" THEN ScheduleBrowser ELSE ScheduleBoth

-----------------------------------------------------------------------------
(* Sockets *)

(* Nothing refers to the socket that had this name; which name a new       *)
(* socket gets does not matter.                                            *)
Unreferred(s) == socket[s] = "free" /\ \A r \in requests : r.of # s /\ r.via # s
Unused(s) == Unreferred(s) /\ s = CHOOSE t \in Sockets : Unreferred(t)

(* connect, with a new socket in this.ws.  (The browser's agent takes the  *)
(* handlers off the old one first.)                                        *)
connect(s) ==
  LET dropped == IF runtime = "browser" THEN {ws} ELSE {}
  IN  /\ timers > 0 /\ Unused(s)
      /\ timers' = timers - 1
      /\ held' = FALSE
      /\ socket' = [t \in Sockets |-> IF t = s THEN "connecting"
                                     ELSE IF t \in dropped THEN "free" ELSE socket[t]]
      /\ authed' = authed \ dropped
      /\ ws' = s
      /\ state' = "connecting"
      /\ UNCHANGED <<session, requests, attempts, bounds>>

(* Mutant: the timeout does not ask whether the agent was stopped. *)
FireAnyway(s) == connect(s)

(* The timeout. *)
Reconnect(s) == ~ isShuttingDown /\ connect(s)

(* A timeout that stop() could not cancel. *)
TimerAfterStop ==
  /\ timers > 0 /\ isShuttingDown
  /\ timers' = timers - 1
  /\ held' = FALSE
  /\ UNCHANGED <<session, state, ws, socket, authed, requests, attempts, bounds>>

SocketOpens(s) ==
  /\ socket[s] = "connecting"
  /\ socket' = [socket EXCEPT ![s] = "open"]
  /\ state' = "connected"
  /\ UNCHANGED <<session, ws, authed, requests, timerVars, bounds>>

(* handleClose, whichever socket it is: every request that waits for an    *)
(* answer on a socket is rejected, and this.ws is forgotten.               *)
handleClose(s) ==
  /\ socket' = [socket EXCEPT ![s] = "free"]
  /\ authed' = authed \ {s}
  /\ requests' = {r \in requests : r.kind \in Http}
  /\ state' = "disconnected"
  /\ ws' = None
  /\ UNCHANGED <<session>>

(* Mutant: a refused connection is not tried again. *)
RefusedOnly(s) ==
  /\ socket[s] = "connecting" /\ refusals < MaxRefusals
  /\ refusals' = refusals + 1
  /\ handleClose(s)
  /\ UNCHANGED <<timerVars, faults>>

SocketRefused(s) ==
  /\ socket[s] = "connecting" /\ refusals < MaxRefusals
  /\ refusals' = refusals + 1
  /\ handleClose(s)
  /\ ScheduleRefused
  /\ UNCHANGED faults

SocketCloses(s) ==
  /\ socket[s] = "lost"
  /\ handleClose(s)
  /\ Schedule
  /\ UNCHANGED bounds

(* The network or the server drops it; the agent is told later. *)
LoseSocket(s) ==
  /\ socket[s] \in Up /\ Fault
  /\ socket' = [socket EXCEPT ![s] = "lost"]
  /\ UNCHANGED <<session, state, ws, authed, requests, timerVars, refusals>>

-----------------------------------------------------------------------------
(* Requests *)

(* sendRequest fails at once unless this.ws is open; nobody tries again.   *)
Send(others, kind, of) ==
  requests' = IF ws # None /\ socket[ws] \in Up \cup {"lost"}
              THEN others \cup {[kind |-> kind, of |-> of, via |-> ws, answer |-> "none"]}
              ELSE others

(* ensureAuthToken: checkRegistrationStatus and autoRegisterUser.          *)
Await(others, of) ==
  requests' = others \cup {[kind |-> "token", of |-> of, via |-> None, answer |-> "none"]}

(* 'connected': authenticate, once there is a token. *)
Greet(s) ==
  /\ socket[s] = "open"
  /\ socket' = [socket EXCEPT ![s] = "greeted"]
  /\ state' = "authenticating"
  /\ IF token THEN Send(requests, "auth", s) ELSE Await(requests, s)
  /\ UNCHANGED <<session, ws, authed, timerVars, bounds>>

(* The token is there: authenticate, over whatever socket there is by then.*)
TokenArrives(r) ==
  /\ r \in requests /\ r.kind = "token"
  /\ token' = TRUE
  /\ Send(requests \ {r}, "auth", r.of)
  /\ UNCHANGED <<agent, nodeKnown, retried, nodeRow, state, ws, socket, authed, timerVars, bounds>>

Answer(r, answer) ==
  requests' = (requests \ {r}) \cup {[r EXCEPT !.answer = answer]}

(* The server takes auth:authenticate ... *)
ServerAuthenticates(r) ==
  /\ r \in requests /\ r.kind = "auth" /\ r.answer = "none" /\ socket[r.via] \in Up
  /\ \/ Answer(r, "ok") /\ authed' = authed \cup {r.via} /\ UNCHANGED faults
     \/ \E a \in {"denied", "error"} : Answer(r, a) /\ Fault /\ UNCHANGED authed
  /\ UNCHANGED <<session, state, ws, socket, timerVars, refusals>>

(* ... node:register ... *)
ServerRegisters(r) ==
  /\ r \in requests /\ r.kind = "register" /\ r.answer = "none" /\ socket[r.via] \in Up
  /\ \/ r.via \in authed /\ ~ nodeRow /\ Answer(r, "ok") /\ nodeRow' = TRUE /\ UNCHANGED faults
     \/ r.via \in authed /\ nodeRow /\ Answer(r, "conflict") /\ UNCHANGED <<nodeRow, faults>>
     \/ r.via \notin authed /\ Answer(r, "error") /\ UNCHANGED <<nodeRow, faults>>
     \/ Answer(r, "error") /\ Fault /\ UNCHANGED nodeRow
  /\ UNCHANGED <<agent, state, ws, socket, authed, nodeKnown, token, retried, timerVars, refusals>>

(* ... and node:reconnect. *)
ServerReconnects(r) ==
  /\ r \in requests /\ r.kind = "reconnect" /\ r.answer = "none" /\ socket[r.via] \in Up
  /\ \/ r.via \in authed /\ nodeRow /\ Answer(r, "ok") /\ UNCHANGED faults
     \/ r.via \in authed /\ ~ nodeRow /\ Answer(r, "gone") /\ UNCHANGED faults
     \/ r.via \notin authed /\ Answer(r, "error") /\ UNCHANGED faults
     \/ Answer(r, "error") /\ Fault
  /\ UNCHANGED <<session, state, ws, socket, authed, timerVars, refusals>>

(* GET /api/nodes/name/:name. *)
Lookup(r) ==
  /\ r \in requests /\ r.kind = "lookup" /\ r.answer = "none"
  /\ \/ nodeRow /\ Answer(r, "ok") /\ UNCHANGED faults
     \/ ~ nodeRow /\ Answer(r, "error") /\ UNCHANGED faults
     \/ nodeRow /\ Answer(r, "error") /\ Fault
  /\ UNCHANGED <<session, state, ws, socket, authed, timerVars, refusals>>

(* authenticate goes on: with the node it knows, or as a new one. *)
Authenticated(r) ==
  /\ r \in requests /\ r.kind = "auth" /\ r.answer = "ok"
  /\ state' = "registering"
  /\ retried' = FALSE
  /\ Send(requests \ {r}, IF nodeKnown THEN "reconnect" ELSE "register", r.of)
  /\ UNCHANGED <<agent, ws, socket, authed, nodeKnown, token, timerVars, nodeRow, bounds>>

Registered(r) ==
  /\ r \in requests /\ r.kind \in {"register", "reconnect"} /\ r.answer = "ok"
  /\ state' = "registered"
  /\ nodeKnown' = TRUE
  /\ attempts' = 0
  /\ requests' = requests \ {r}
  /\ UNCHANGED <<agent, ws, socket, authed, token, retried, timers, held, nodeRow, bounds>>

(* CONFLICT: the node exists, look its id up ... *)
LookUp(r) ==
  /\ r \in requests /\ r.answer = "conflict"
  /\ requests' = (requests \ {r}) \cup
       {[kind |-> "lookup", of |-> r.of, via |-> None, answer |-> "none"]}
  /\ UNCHANGED <<session, state, ws, socket, authed, timerVars, bounds>>

(* ... and reconnect, over whatever socket there is by then. *)
LookedUp(r) ==
  /\ r \in requests /\ r.kind = "lookup" /\ r.answer = "ok"
  /\ state' = "registering"
  /\ nodeKnown' = TRUE
  /\ Send(requests \ {r}, "reconnect", r.of)
  /\ UNCHANGED <<agent, ws, socket, authed, token, retried, timerVars, nodeRow, bounds>>

(* NOT_FOUND: register as a new node. *)
NodeGone(r) ==
  /\ r \in requests /\ r.answer = "gone"
  /\ state' = "registering"
  /\ nodeKnown' = FALSE
  /\ Send(requests \ {r}, "register", r.of)
  /\ UNCHANGED <<agent, ws, socket, authed, token, retried, timerVars, nodeRow, bounds>>

(* Any other error, no answer within 30 seconds, or no token: the promise  *)
(* is rejected, the socket stays open, and a late answer finds nobody.     *)
RequestFails(r) ==
  /\ r \in requests
  /\ \/ r.answer = "error" /\ UNCHANGED faults
     \/ r.answer = "none" /\ r.via # None /\ socket[r.via] \notin Up /\ UNCHANGED faults
     \/ r.kind # "lookup" /\ Fault
  /\ requests' = requests \ {r}
  /\ UNCHANGED <<session, state, ws, socket, authed, timerVars, refusals>>

(* AUTH_FAILED: the browser's agent tries once more with new credentials,  *)
(* for which it has to wait.                                               *)
RetryAuth(r) ==
  /\ r \in requests /\ r.answer = "denied" /\ runtime = "browser"
  /\ nodeKnown' = (nodeKnown /\ retried)
  /\ \/ /\ ~ retried
        /\ retried' = TRUE
        /\ token' = FALSE
        /\ state' = "authenticating"
        /\ Await(requests \ {r}, r.of)
     \/ /\ retried
        /\ requests' = requests \ {r}
        /\ UNCHANGED <<retried, token, state>>
  /\ UNCHANGED <<agent, ws, socket, authed, timerVars, nodeRow, bounds>>

(* The node's agent stops (the CLI starts a new one): it closes this.ws    *)
(* and cancels the timer it knows of.                                      *)
StopOnDenial(r) ==
  /\ r \in requests /\ r.answer = "denied" /\ runtime = "node"
  /\ isShuttingDown' = TRUE
  /\ timers' = IF held THEN timers - 1 ELSE timers
  /\ held' = FALSE
  /\ requests' = {q \in requests : q.kind \in Http}
  /\ socket' = IF ws = None THEN socket
               ELSE [socket EXCEPT ![ws] = IF @ = "free" THEN @ ELSE "lost"]
  /\ ws' = None
  /\ state' = "disconnected"
  /\ nodeKnown' = FALSE
  /\ UNCHANGED <<runtime, authed, token, retried, attempts, nodeRow, bounds>>

(* DELETE /api/nodes/:id *)
DeleteNode ==
  /\ nodeRow /\ Fault
  /\ nodeRow' = FALSE
  /\ UNCHANGED <<agent, nodeKnown, token, retried, state, ws, socket, authed, requests, timerVars,
                 refusals>>

-----------------------------------------------------------------------------
AgentStep(r) ==
  \/ Authenticated(r) \/ Registered(r) \/ LookUp(r) \/ LookedUp(r) \/ NodeGone(r)
  \/ TokenArrives(r) \/ RequestFails(r) \/ RetryAuth(r) \/ StopOnDenial(r)

ServerStep(r) == ServerAuthenticates(r) \/ ServerRegisters(r) \/ ServerReconnects(r) \/ Lookup(r)

SocketStep(s) ==
  \/ SocketOpens(s) \/ SocketRefused(s) \/ SocketCloses(s) \/ Greet(s) \/ Reconnect(s)

ConnStep ==
  \/ \E r \in requests : AgentStep(r) \/ ServerStep(r)
  \/ \E s \in Sockets : SocketStep(s) \/ LoseSocket(s)
  \/ TimerAfterStop \/ DeleteNode

ConnSpec == ConnInit /\ [][ConnStep]_connVars

(* Timers fire, connections are accepted or refused, close events are      *)
(* raised, and requests are answered or time out.                          *)
ConnFairness ==
  /\ WF_connVars(\E r \in requests : AgentStep(r) \/ ServerStep(r))
  /\ WF_connVars(\E s \in Sockets : SocketStep(s))

-----------------------------------------------------------------------------
ConnTypeOK ==
  /\ runtime \in {"node", "browser"}
  /\ state \in States
  /\ ws \in Sockets \cup {None}
  /\ socket \in [Sockets -> SocketStates]
  /\ authed \in SUBSET Sockets
  /\ requests \in SUBSET Request
  /\ timers \in Nat /\ attempts \in 0 .. MaxAttempts
  /\ held \in BOOLEAN /\ nodeKnown \in BOOLEAN /\ token \in BOOLEAN /\ retried \in BOOLEAN
  /\ isShuttingDown \in BOOLEAN /\ nodeRow \in BOOLEAN
  /\ refusals \in 0 .. MaxRefusals /\ faults \in 0 .. MaxFaults

Live(s) == socket[s] # "free"

(* An agent that is not registered and was not stopped always has          *)
(* something to wait for: a timer, a socket that opens, greets or closes,  *)
(* or one that is open; or it has used up its attempts.  It never just     *)
(* forgets to come back, whatever requests fail and sockets close.         *)
NeverForgets ==
  isShuttingDown \/ attempts = MaxAttempts \/ timers > 0 \/ \E s \in Sockets : Live(s)

(* The browser's agent has one timer or one socket, never two of them; its *)
(* two guards are what the node's agent lacks.                             *)
OneReconnect ==
  runtime = "browser" => timers + Cardinality({s \in Sockets : Live(s)}) <= 1

(* A stopped agent opens no socket, though timers it lost may still fire.  *)
StopIsFinal ==
  [][isShuttingDown =>
       \A s \in Sockets : socket'[s] = "connecting" => socket[s] = "connecting"]_connVars

(* A request failed on a socket that stays open: nothing is under way that *)
(* would register the agent.                                               *)
Stuck ==
  /\ state # "registered" /\ timers = 0 /\ requests = {}
  /\ \E s \in Sockets : socket[s] = "greeted"
  /\ \A s \in Sockets : socket[s] \in {"free", "greeted"}

GaveUp == attempts = MaxAttempts /\ timers = 0

(* An agent that lost its registration gets it back, unless a failed       *)
(* request leaves it on an open socket, it used up its attempts or was     *)
(* stopped.                                                                *)
RegistersAgain ==
  state # "registered" ~> state = "registered" \/ Stuck \/ GaveUp \/ isShuttingDown

=============================================================================
