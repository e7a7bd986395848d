---------------------------- MODULE NodeAgentProofs ----------------------------
(***************************************************************************)
(* Proofs about AgentConnection, PodRuntime and NodeAgent, for any         *)
(* sockets, pods and limits: an agent never forgets to reconnect, the      *)
(* browser's has one reconnect at a time, a stopped one opens no socket;   *)
(* the agent never claims more pods than it holds, what it calls ended     *)
(* does not work, and in the composition connection and runtime keep their *)
(* invariants.                                                             *)
(***************************************************************************)
EXTENDS NodeAgent, FiniteSetTheorems, TLAPS

-----------------------------------------------------------------------------
(* AgentConnection *)

(* What a timer field that is set and a request that waits stand for. *)
Backed ==
  /\ held => timers > 0
  /\ (\E r \in requests : r.kind \notin Http) => \E s \in Sockets : Live(s)

(* OneReconnect without counting. *)
OneWay ==
  runtime = "browser" =>
    \/ timers = 0 /\ \A s, t \in Sockets : Live(s) /\ Live(t) => s = t
    \/ timers = 1 /\ \A s \in Sockets : ~ Live(s)

ConnInv == ConnTypeOK /\ Backed /\ NeverForgets /\ OneWay

LEMMA OneWayIsOne == ConnTypeOK /\ OneWay => OneReconnect
<1> SUFFICES ASSUME ConnTypeOK, OneWay, runtime = "browser"
             PROVE  timers + Cardinality({s \in Sockets : Live(s)}) <= 1
  BY DEF OneReconnect
<1> DEFINE L == {s \in Sockets : Live(s)}
<1>1. CASE L = {}
  <2>1. Cardinality(L) = 0
    BY <1>1, FS_EmptySet
  <2>. QED BY <2>1 DEF OneWay
<1>2. CASE L # {}
  <2>1. PICK x \in L : TRUE
    BY <1>2
  <2>2. timers = 0 /\ L = {x}
    BY <2>1 DEF OneWay
  <2>3. Cardinality(L) = 1
    BY <2>2, FS_Singleton
  <2>. QED BY <2>2, <2>3
<1>. QED BY <1>1, <1>2

LEMMA ConnInvInit == ConnInit => ConnInv
<1> SUFFICES ASSUME ConnInit PROVE ConnInv
  OBVIOUS
<1>1. ws \in Sockets
  BY ConnectionAssumption DEF ConnInit
<1>2. socket \in [Sockets -> SocketStates] /\ Live(ws) /\ \A s \in Sockets : Live(s) => s = ws
  BY <1>1 DEF ConnInit, SocketStates, Live
<1>3. timers = 0 /\ attempts = 0 /\ refusals = 0 /\ faults = 0 /\ requests = {} /\ authed = {}
  BY DEF ConnInit
<1>4. /\ attempts \in 0 .. MaxAttempts /\ refusals \in 0 .. MaxRefusals
      /\ faults \in 0 .. MaxFaults /\ timers \in Nat
  BY <1>3, ConnectionAssumption
<1>5. ConnTypeOK
  BY <1>1, <1>2, <1>3, <1>4, ConnectionAssumption DEF ConnInit, ConnTypeOK, States
<1>6. Backed /\ NeverForgets /\ OneWay
  BY <1>1, <1>2, <1>3 DEF ConnInit, Backed, NeverForgets, OneWay
<1>. QED BY <1>5, <1>6 DEF ConnInv

(* Scheduling keeps the timer field honest, and leaves a timer unless the  *)
(* attempts are used up.                                                   *)
LEMMA Schedules ==
  ASSUME ConnTypeOK, Backed, Schedule \/ ScheduleRefused
  PROVE  /\ timers' \in Nat /\ attempts' \in 0 .. MaxAttempts /\ held' \in BOOLEAN
         /\ held' => timers' > 0
         /\ isShuttingDown \/ attempts' = MaxAttempts \/ timers' > 0
         /\ runtime = "browser" /\ timers = 0 => timers' \in {0, 1}
<1>1. timers \in Nat /\ attempts \in 0 .. MaxAttempts /\ MaxAttempts \in Nat
  BY ConnectionAssumption DEF ConnTypeOK
<1>2. held \in BOOLEAN /\ (held => timers > 0)
  BY DEF Backed, ConnTypeOK
<1>3. \/ UNCHANGED timerVars /\ (isShuttingDown \/ held \/ attempts = MaxAttempts)
      \/ More(1) /\ attempts + 1 <= MaxAttempts
      \/ More(2) /\ attempts + 2 <= MaxAttempts /\ runtime # "browser"
  <2>1. ScheduleOnce => \/ More(1) /\ attempts + 1 <= MaxAttempts
                        \/ attempts = MaxAttempts /\ UNCHANGED timerVars
    <3>1. attempts < MaxAttempts => attempts + 1 <= MaxAttempts
      BY <1>1
    <3>. QED BY <3>1 DEF ScheduleOnce
  <2>2. ScheduleBoth => \/ More(1) /\ attempts + 1 <= MaxAttempts
                        \/ More(2) /\ attempts + 2 <= MaxAttempts
                        \/ attempts = MaxAttempts /\ UNCHANGED timerVars
    <3>1. attempts + 1 = MaxAttempts => attempts + 1 <= MaxAttempts
      BY <1>1
    <3>. QED BY <3>1 DEF ScheduleBoth
  <2>. QED BY <2>1, <2>2 DEF Schedule, ScheduleRefused, ScheduleBrowser
<1>4. CASE UNCHANGED timerVars /\ (isShuttingDown \/ held \/ attempts = MaxAttempts)
  <2>1. timers' = timers /\ attempts' = attempts /\ held' = held
    BY <1>4 DEF timerVars
  <2>. QED BY <1>1, <1>2, <1>4, <2>1
<1>5. ASSUME NEW n \in {1, 2}, More(n), attempts + n <= MaxAttempts, n = 1 \/ runtime # "browser"
      PROVE  /\ timers' \in Nat /\ attempts' \in 0 .. MaxAttempts /\ held' \in BOOLEAN
             /\ timers' > 0
             /\ runtime = "browser" /\ timers = 0 => timers' \in {0, 1}
  <2>1. timers + n \in Nat /\ timers + n > 0 /\ attempts + n \in 0 .. MaxAttempts
    BY <1>1, <1>5
  <2>2. n = 1 /\ timers = 0 => timers + n = 1
    OBVIOUS
  <2>3. timers' = timers + n /\ attempts' = attempts + n /\ held' = TRUE
    BY <1>5 DEF More
  <2>. QED BY <1>5, <2>1, <2>2, <2>3
<1>. QED BY <1>3, <1>4, <1>5

-----------------------------------------------------------------------------
(* Types *)

(* The bounds of the model. *)
LEMMA BoundTypes ==
  ASSUME ConnTypeOK, ConnStep
  PROVE  refusals' \in 0 .. MaxRefusals /\ faults' \in 0 .. MaxFaults
<1>1. /\ refusals \in 0 .. MaxRefusals /\ faults \in 0 .. MaxFaults
      /\ MaxRefusals \in Nat /\ MaxFaults \in Nat
  BY ConnectionAssumption DEF ConnTypeOK
<1>2. /\ faults' = faults \/ Fault
      /\ refusals' = refusals \/ (refusals < MaxRefusals /\ refusals' = refusals + 1)
  BY DEF ConnStep, AgentStep, ServerStep, SocketStep, Authenticated, Registered, LookUp, LookedUp,
         NodeGone, RequestFails, TokenArrives, RetryAuth, StopOnDenial, ServerAuthenticates, ServerRegisters,
         ServerReconnects, Lookup, SocketOpens, SocketRefused, SocketCloses, Greet, Reconnect,
         connect, LoseSocket, TimerAfterStop, DeleteNode, bounds
<1>3. Fault => faults < MaxFaults /\ faults' = faults + 1
  BY DEF Fault
<1>. QED BY <1>1, <1>2, <1>3

(* What the agent sends is a request, and goes out on a live socket.       *)
LEMMA Sends ==
  ASSUME ConnTypeOK, NEW others \in SUBSET requests, NEW of \in Sockets,
         NEW k \in {"auth", "register", "reconnect"}, Send(others, k, of)
  PROVE  /\ requests' \in SUBSET Request
         /\ requests' \subseteq requests \/ \E s \in Sockets : Live(s)
<1>1. CASE ws # None /\ socket[ws] \in Up \cup {"lost"}
  <2>1. ws \in Sockets /\ Live(ws)
    BY <1>1 DEF ConnTypeOK, Live, Up
  <2>2. [kind |-> k, of |-> of, via |-> ws, answer |-> "none"] \in Request
    BY <2>1 DEF Request, Outcomes
  <2>. QED BY <1>1, <2>1, <2>2 DEF Send, ConnTypeOK
<1>2. CASE ~ (ws # None /\ socket[ws] \in Up \cup {"lost"})
  BY <1>2 DEF Send, ConnTypeOK
<1>. QED BY <1>1, <1>2

(* To wait for a token is a request, too. *)
LEMMA Awaits ==
  ASSUME ConnTypeOK, NEW others \in SUBSET requests, NEW of \in Sockets, Await(others, of)
  PROVE  /\ requests' \in SUBSET Request
         /\ \A q \in requests' : q \in requests \/ q.kind \in Http
<1>1. [kind |-> "token", of |-> of, via |-> None, answer |-> "none"] \in Request
  BY DEF Request, Outcomes, Http
<1>. QED BY <1>1 DEF Await, ConnTypeOK, Http

(* An answer changes neither kind nor origin of a request. *)
LEMMA Answers ==
  ASSUME ConnTypeOK, NEW r \in requests,
         NEW a \in {"ok", "error", "denied", "conflict", "gone"}, Answer(r, a)
  PROVE  /\ requests' \in SUBSET Request
         /\ \A q \in requests' : \E o \in requests : o.kind = q.kind
<1>1. r \in Request
  BY DEF ConnTypeOK
<1>2. /\ [r EXCEPT !.answer = a] \in Request
      /\ [r EXCEPT !.answer = a].kind = r.kind
  BY <1>1 DEF Request, Outcomes
<1>. QED BY <1>2 DEF Answer, ConnTypeOK

-----------------------------------------------------------------------------
(* Steps *)

(* A step that opens and closes nothing and keeps the timers.              *)
LEMMA SteadyStep ==
  ASSUME ConnInv, ConnTypeOK', UNCHANGED <<agent, timers, held>>,
         \A s \in Sockets : Live(s)' <=> Live(s),
         \/ \A q \in requests' : q.kind \notin Http => \E o \in requests : o.kind \notin Http
         \/ \E s \in Sockets : Live(s),
         attempts' = attempts \/ \E s \in Sockets : Live(s)
  PROVE  ConnInv'
<1> USE DEF ConnInv, agent
<1>1. Backed'
  BY DEF Backed
<1>2. NeverForgets'
  BY DEF NeverForgets
<1>3. OneWay'
  BY DEF OneWay
<1>. QED BY <1>1, <1>2, <1>3

(* A socket closes, and a reconnect is scheduled. *)
LEMMA CloseStep ==
  ASSUME ConnInv, ConnStep, NEW s \in Sockets, Live(s), handleClose(s),
         Schedule \/ ScheduleRefused
  PROVE  ConnInv'
<1>1. ConnTypeOK /\ Backed /\ NeverForgets /\ OneWay
  BY DEF ConnInv
<1>2. /\ timers' \in Nat /\ attempts' \in 0 .. MaxAttempts /\ held' \in BOOLEAN
      /\ held' => timers' > 0
      /\ isShuttingDown \/ attempts' = MaxAttempts \/ timers' > 0
      /\ runtime = "browser" /\ timers = 0 => timers' \in {0, 1}
  BY <1>1, Schedules
<1>3. /\ socket' = [socket EXCEPT ![s] = "free"] /\ authed' = authed \ {s}
      /\ requests' = {r \in requests : r.kind \in Http}
      /\ state' = "disconnected" /\ ws' = None
      /\ runtime' = runtime /\ isShuttingDown' = isShuttingDown
      /\ nodeKnown' = nodeKnown /\ token' = token /\ retried' = retried /\ nodeRow' = nodeRow
  BY DEF handleClose, agent, session
<1>4. ConnTypeOK'
  BY <1>1, <1>2, <1>3, BoundTypes DEF ConnTypeOK, States, SocketStates
<1>5. \A t \in Sockets : Live(t)' => Live(t) /\ t # s
  BY <1>1, <1>3 DEF ConnTypeOK, Live
<1>6. Backed' /\ NeverForgets'
  BY <1>2, <1>3 DEF Backed, NeverForgets
<1>7. OneWay'
  <2>1. CASE runtime = "browser"
    <3>1. timers = 0 /\ \A t \in Sockets : Live(t) => t = s
      BY <1>1, <2>1 DEF OneWay
    <3>. QED BY <1>2, <1>3, <1>5, <2>1, <3>1 DEF OneWay
  <2>. QED BY <1>3, <2>1 DEF OneWay
<1>. QED BY <1>4, <1>6, <1>7 DEF ConnInv

(* A timeout opens a socket. *)
LEMMA ConnectStep ==
  ASSUME ConnInv, ConnStep, NEW s \in Sockets, Reconnect(s)
  PROVE  ConnInv'
<1>1. ConnTypeOK /\ Backed /\ NeverForgets /\ OneWay
  BY DEF ConnInv
<1> DEFINE dropped == IF runtime = "browser" THEN {ws} ELSE {}
<1>2. /\ timers > 0 /\ timers' = timers - 1 /\ held' = FALSE /\ attempts' = attempts
      /\ socket' = [t \in Sockets |-> IF t = s THEN "connecting"
                                     ELSE IF t \in dropped THEN "free" ELSE socket[t]]
      /\ authed' = authed \ dropped /\ ws' = s /\ state' = "connecting"
      /\ UNCHANGED <<session, requests, bounds>>
  BY DEF Reconnect, connect, session, agent
<1>3. timers' \in Nat /\ attempts' \in 0 .. MaxAttempts
  BY <1>1, <1>2 DEF ConnTypeOK
<1> HIDE DEF dropped
<1>4. /\ socket' \in [Sockets -> SocketStates] /\ Live(s)'
      /\ \A t \in Sockets : Live(t)' => t = s \/ Live(t)
  BY <1>1, <1>2 DEF ConnTypeOK, SocketStates, Live
<1>5. ConnTypeOK'
  BY <1>1, <1>2, <1>3, <1>4, BoundTypes DEF ConnTypeOK, States, session, agent
<1>6. Backed' /\ NeverForgets'
  BY <1>2, <1>4 DEF Backed, NeverForgets
<1>7. OneWay'
  <2>1. CASE runtime = "browser"
    <3>1. timers = 1 /\ \A t \in Sockets : ~ Live(t)
      BY <1>1, <1>2, <2>1 DEF OneWay
    <3>. QED BY <1>2, <1>4, <3>1 DEF OneWay
  <2>. QED BY <1>2, <2>1 DEF OneWay, session, agent
<1>. QED BY <1>5, <1>6, <1>7 DEF ConnInv

(* The agent is stopped, or a timer it lost fires then.                    *)
LEMMA StopStep ==
  ASSUME ConnInv, ConnStep, TimerAfterStop \/ \E r \in requests : StopOnDenial(r)
  PROVE  ConnInv'
<1>1. ConnTypeOK /\ Backed /\ OneWay
  BY DEF ConnInv
<1>2. CASE TimerAfterStop
  <2>1. timers' \in Nat /\ timers' <= timers
    BY <1>1, <1>2 DEF TimerAfterStop, ConnTypeOK
  <2>2. ConnTypeOK'
    BY <1>1, <1>2, <2>1, BoundTypes DEF TimerAfterStop, ConnTypeOK, session, agent
  <2>3. Backed' /\ NeverForgets'
    BY <1>1, <1>2 DEF TimerAfterStop, Backed, NeverForgets, Live, session, agent
  <2>4. OneWay'
    <3>1. timers' = timers - 1 /\ timers > 0 /\ runtime' = runtime /\ socket' = socket
      BY <1>2 DEF TimerAfterStop, session, agent
    <3>. QED BY <1>1, <3>1 DEF OneWay, Live
  <2>. QED BY <2>2, <2>3, <2>4 DEF ConnInv
<1>3. ASSUME NEW r \in requests, StopOnDenial(r) PROVE ConnInv'
  <2>1. timers' \in Nat
    <3>1. held => timers > 0 /\ timers - 1 \in Nat
      BY <1>1 DEF Backed, ConnTypeOK
    <3>. QED BY <1>1, <1>3, <3>1 DEF StopOnDenial, ConnTypeOK
  <2>2. ConnTypeOK'
    BY <1>1, <1>3, <2>1, BoundTypes DEF StopOnDenial, ConnTypeOK, States, SocketStates
  <2>3. Backed' /\ NeverForgets' /\ OneWay'
    BY <1>3 DEF StopOnDenial, Backed, NeverForgets, OneWay
  <2>. QED BY <2>2, <2>3 DEF ConnInv
<1>. QED BY <1>2, <1>3

(* Sockets open, greet and are lost. *)
LEMMA SocketStepInv ==
  ASSUME ConnInv, ConnStep, NEW s \in Sockets, SocketStep(s) \/ LoseSocket(s)
  PROVE  ConnInv'
<1>1. ConnTypeOK
  BY DEF ConnInv
<1>2. CASE SocketOpens(s)
  <2>1. ConnTypeOK' /\ \A t \in Sockets : Live(t)' <=> Live(t)
    BY <1>1, <1>2 DEF SocketOpens, ConnTypeOK, States, SocketStates, Live, session, agent, timerVars, bounds
  <2>. QED BY <1>2, <2>1, SteadyStep DEF SocketOpens, session, timerVars
<1>3. CASE Greet(s)
  <2>1. /\ requests' \in SUBSET Request
        /\ \/ \A q \in requests' : q.kind \notin Http => q \in requests
           \/ \E t \in Sockets : Live(t)
    <3>1. CASE token
      BY <1>1, <1>3, <3>1, Sends DEF Greet
    <3>2. CASE ~ token
      BY <1>1, <1>3, <3>2, Awaits DEF Greet
    <3>. QED BY <3>1, <3>2
  <2>2. ConnTypeOK' /\ \A t \in Sockets : Live(t)' <=> Live(t)
    BY <1>1, <1>3, <2>1 DEF Greet, ConnTypeOK, States, SocketStates, Live, session, agent, timerVars, bounds
  <2>. QED BY <1>3, <2>1, <2>2, SteadyStep DEF Greet, session, timerVars
<1>4. CASE LoseSocket(s)
  <2>1. ConnTypeOK' /\ \A t \in Sockets : Live(t)' <=> Live(t)
    BY <1>1, <1>4, BoundTypes DEF LoseSocket, ConnTypeOK, SocketStates, Live, session, agent, timerVars, Up
  <2>. QED BY <1>4, <2>1, SteadyStep DEF LoseSocket, session, timerVars
<1>5. CASE SocketRefused(s) \/ SocketCloses(s)
  BY <1>5, CloseStep DEF SocketRefused, SocketCloses, Live
<1>6. CASE Reconnect(s)
  BY <1>6, ConnectStep
<1>. QED BY <1>2, <1>3, <1>4, <1>5, <1>6 DEF SocketStep

(* Requests are sent, answered and given up. *)
LEMMA RequestStepInv ==
  ASSUME ConnInv, ConnStep, NEW r \in requests, AgentStep(r) \/ ServerStep(r)
  PROVE  ConnInv'
<1>1. ConnTypeOK /\ r \in Request /\ r.of \in Sockets
  BY DEF ConnInv, ConnTypeOK, Request
<1>2. CASE StopOnDenial(r)
  BY <1>2, StopStep
<1>3. CASE ~ StopOnDenial(r)
  <2>1. UNCHANGED <<agent, timers, held, socket>>
    BY <1>3 DEF AgentStep, ServerStep, Authenticated, Registered, LookUp, LookedUp, NodeGone,
       RequestFails, TokenArrives, RetryAuth, ServerAuthenticates, ServerRegisters, ServerReconnects, Lookup,
       session, agent, timerVars
  <2>2. /\ requests' \in SUBSET Request
        /\ \/ \A q \in requests' : q.kind \notin Http => \E o \in requests : o.kind \notin Http
           \/ \E s \in Sockets : Live(s)
    <3>1. ASSUME NEW k \in {"auth", "register", "reconnect"}, Send(requests \ {r}, k, r.of)
          PROVE  /\ requests' \in SUBSET Request
                 /\ requests' \subseteq requests \/ \E s \in Sockets : Live(s)
      BY <1>1, <3>1, Sends
    <3>2. CASE Authenticated(r) \/ TokenArrives(r)
      BY <3>1, <3>2 DEF Authenticated, TokenArrives
    <3>3. CASE NodeGone(r) \/ LookedUp(r)
      BY <3>1, <3>3 DEF NodeGone, LookedUp
    <3>4. CASE Registered(r) \/ RequestFails(r)
      BY <1>1, <3>4 DEF Registered, RequestFails, ConnTypeOK
    <3>5. CASE RetryAuth(r)
      <4>1. Await(requests \ {r}, r.of) \/ requests' = requests \ {r}
        BY <3>5 DEF RetryAuth
      <4>. QED BY <1>1, <4>1, Awaits DEF ConnTypeOK
    <3>6. CASE LookUp(r)
      <4>1. [kind |-> "lookup", of |-> r.of, via |-> None, answer |-> "none"] \in Request
        BY <1>1 DEF Request, Outcomes, Http
      <4>. QED BY <1>1, <3>6, <4>1 DEF LookUp, ConnTypeOK, Http
    <3>7. CASE ServerStep(r)
      <4>1. \E a \in {"ok", "error", "denied", "conflict", "gone"} : Answer(r, a)
        BY <3>7 DEF ServerStep, ServerAuthenticates, ServerRegisters, ServerReconnects, Lookup
      <4>. QED BY <1>1, <4>1, Answers
    <3>. QED BY <1>3, <3>2, <3>3, <3>4, <3>5, <3>6, <3>7 DEF AgentStep
  <2>3. attempts' = attempts \/ (attempts' = 0 /\ \E s \in Sockets : Live(s))
    <3>1. CASE Registered(r)
      BY <3>1 DEF Registered, ConnInv, Backed, Http
    <3>2. CASE ~ Registered(r)
      BY <1>3, <3>2 DEF AgentStep, ServerStep, Authenticated, LookUp, LookedUp, NodeGone,
         RequestFails, TokenArrives, RetryAuth, ServerAuthenticates, ServerRegisters, ServerReconnects, Lookup,
         timerVars
    <3>. QED BY <3>1, <3>2
  <2>4. ConnTypeOK'
    <3>1. attempts' \in 0 .. MaxAttempts
      BY <1>1, <2>3, ConnectionAssumption DEF ConnTypeOK
    <3>2. /\ state' \in States /\ authed' \in SUBSET Sockets
          /\ ws' = ws
      <4>1. CASE ServerAuthenticates(r)
        <5>1. r.via \in Sockets
          BY <1>1, <4>1 DEF ServerAuthenticates, Request, Http
        <5>. QED BY <1>1, <4>1, <5>1 DEF ServerAuthenticates, ConnTypeOK
      <4>2. CASE ~ ServerAuthenticates(r)
        BY <1>1, <1>3, <4>2 DEF AgentStep, ServerStep, Authenticated, Registered, LookUp,
           LookedUp, NodeGone, RequestFails, TokenArrives, RetryAuth, ServerRegisters, ServerReconnects,
           Lookup, ConnTypeOK, States, session
      <4>. QED BY <4>1, <4>2
    <3>3. nodeKnown' \in BOOLEAN /\ token' \in BOOLEAN /\ retried' \in BOOLEAN /\ nodeRow' \in BOOLEAN
      BY <1>1, <1>3 DEF AgentStep, ServerStep, Authenticated, Registered, LookUp, LookedUp,
         NodeGone, RequestFails, TokenArrives, RetryAuth, ServerAuthenticates, ServerRegisters,
         ServerReconnects, Lookup, ConnTypeOK, session
    <3>. QED BY <1>1, <2>1, <2>2, <3>1, <3>2, <3>3, BoundTypes DEF ConnTypeOK, agent
  <2>. QED BY <2>1, <2>2, <2>3, <2>4, SteadyStep DEF Live
<1>. QED BY <1>2, <1>3

LEMMA ConnInvStep == ConnInv /\ ConnStep => ConnInv'
<1> SUFFICES ASSUME ConnInv, ConnStep PROVE ConnInv'
  OBVIOUS
<1>1. CASE \E r \in requests : AgentStep(r) \/ ServerStep(r)
  BY <1>1, RequestStepInv
<1>2. CASE \E s \in Sockets : SocketStep(s) \/ LoseSocket(s)
  BY <1>2, SocketStepInv
<1>3. CASE TimerAfterStop
  BY <1>3, StopStep
<1>4. CASE DeleteNode
  <2>1. ConnTypeOK'
    BY <1>4, BoundTypes DEF ConnInv, DeleteNode, ConnTypeOK, agent, timerVars
  <2>. QED BY <1>4, <2>1, SteadyStep DEF DeleteNode, timerVars, Live
<1>. QED BY <1>1, <1>2, <1>3, <1>4 DEF ConnStep

(* A fault that happens elsewhere uses the budget up, nothing else. *)
LEMMA FaultElsewhere ==
  ASSUME ConnInv, faults' \in 0 .. MaxFaults,
         UNCHANGED <<session, state, ws, socket, authed, requests, timerVars, refusals>>
  PROVE  ConnInv'
<1> USE DEF ConnInv, session, agent, timerVars
<1>1. ConnTypeOK'
  BY DEF ConnTypeOK
<1>2. Backed' /\ NeverForgets' /\ OneWay'
  BY DEF Backed, NeverForgets, OneWay, Live
<1>. QED BY <1>1, <1>2

(* Whatever requests fail and sockets close: the connection's invariant.   *)
THEOREM ConnectionInvariant == ConnSpec => []ConnInv
<1>1. ConnInv /\ UNCHANGED connVars => ConnInv'
  <2> SUFFICES ASSUME ConnInv, UNCHANGED connVars PROVE ConnInv'
    OBVIOUS
  <2>1. faults' \in 0 .. MaxFaults
    BY DEF ConnInv, ConnTypeOK, connVars, bounds
  <2>. QED BY <2>1, FaultElsewhere DEF connVars, bounds
<1>. QED BY <1>1, ConnInvInit, ConnInvStep, PTL DEF ConnSpec

(* Only a timeout opens a socket, and not after the stop. *)
LEMMA OnlyTimersConnect ==
  ASSUME ConnTypeOK, ConnStep, isShuttingDown, NEW s \in Sockets, socket'[s] = "connecting"
  PROVE  socket[s] = "connecting"
<1>1. CASE \E r \in requests : AgentStep(r) \/ ServerStep(r)
  BY <1>1 DEF AgentStep, ServerStep, Authenticated, Registered, LookUp, LookedUp, NodeGone,
     RequestFails, TokenArrives, RetryAuth, StopOnDenial, ServerAuthenticates, ServerRegisters,
     ServerReconnects, Lookup, ConnTypeOK
<1>2. CASE \E t \in Sockets : SocketStep(t) \/ LoseSocket(t)
  BY <1>2 DEF SocketStep, SocketOpens, SocketRefused, SocketCloses, Greet, Reconnect, LoseSocket,
     handleClose, ConnTypeOK
<1>3. CASE TimerAfterStop \/ DeleteNode
  BY <1>3 DEF TimerAfterStop, DeleteNode
<1>. QED BY <1>1, <1>2, <1>3 DEF ConnStep

-----------------------------------------------------------------------------
(* PodRuntime *)

(* Where the entries of handler, executor and adapter agree on a pod.      *)
Consistent(p) ==
  /\ status[p] = "none" => /\ execution[p] = "none" /\ task[p] = "none"
                           /\ worker[p] = "none" /\ inbox[p] = {} /\ p \notin stops
  /\ execution[p] = "pending" =>
       /\ worker[p] = "none" /\ task[p] = "none" /\ inbox[p] = {} /\ p \notin stops
       /\ status[p] = "running" \/ p \in missed
  /\ inbox[p] # {} => worker[p] # "busy"
  /\ p \in stops => kind[p] = "root"

(* What a step of one pod has to show. *)
Holds(p) ==
  /\ PodTypeOK /\ AllocatedNeverOver
  /\ Consistent(p)
  /\ status[p] \in Terminal /\ kind[p] # "root" /\ p \notin missed => worker[p] # "busy"

PodInv ==
  /\ PodTypeOK
  /\ \A p \in Pods : Consistent(p)
  /\ EndedPodsAreDead
  /\ AllocatedNeverOver

LEMMA PodInvInit == PodInit => PodInv
<1> SUFFICES ASSUME PodInit PROVE PodInv
  OBVIOUS
<1>1. PodTypeOK
  BY DEF PodInit, PodTypeOK, Events
<1>2. \A p \in Pods : Consistent(p)
  BY DEF PodInit, Consistent
<1>3. EndedPodsAreDead
  BY DEF PodInit, EndedPodsAreDead, Terminal
<1>4. AllocatedNeverOver
  <2>1. {p \in Pods : status[p] \in Held} = {}
    BY DEF PodInit, Held
  <2>. QED BY <2>1, FS_EmptySet DEF PodInit, AllocatedNeverOver
<1>. QED BY <1>1, <1>2, <1>3, <1>4 DEF PodInv

(* One status changes, and the count with it. *)
LEMMA CountFollows ==
  ASSUME PodTypeOK, AllocatedNeverOver, NEW p \in Pods, NEW s \in Held \cup Terminal,
         updateStatus(p, s),
         s = "running" => status[p] = "none",
         s = "stopping" => status[p] = "running"
  PROVE  AllocatedNeverOver' /\ allocated' \in Nat
         /\ status' \in [Pods -> {"none"} \cup Held \cup Terminal]
<1> DEFINE H == {q \in Pods : status[q] \in Held}
<1>1. IsFiniteSet(H) /\ Cardinality(H) \in Nat /\ allocated \in Nat /\ allocated <= Cardinality(H)
  BY RuntimeAssumption, FS_Subset, FS_CardinalityType DEF PodTypeOK, AllocatedNeverOver
<1>2. /\ status' = [status EXCEPT ![p] = s] /\ allocated' = CountPods(allocated, s)
      /\ status' \in [Pods -> {"none"} \cup Held \cup Terminal]
  BY DEF updateStatus, PodTypeOK
<1>3. CASE s = "running"
  <2>1. H' = H \cup {p} /\ p \notin H
    BY <1>2, <1>3 DEF PodTypeOK, Held
  <2>2. Cardinality(H') = Cardinality(H) + 1
    BY <1>1, <2>1, FS_AddElement
  <2>3. allocated' = allocated + 1
    BY <1>2, <1>3 DEF CountPods
  <2>. QED BY <1>1, <1>2, <2>2, <2>3 DEF AllocatedNeverOver
<1>4. CASE s = "stopping"
  <2>1. H' = H
    BY <1>2, <1>4 DEF PodTypeOK, Held
  <2>2. allocated' = allocated
    BY <1>2, <1>4 DEF CountPods, Terminal
  <2>. QED BY <1>1, <1>2, <2>1, <2>2 DEF AllocatedNeverOver
<1>5. CASE s \in Terminal
  <2>1. H' = H \ {p}
    BY <1>2, <1>5 DEF PodTypeOK, Held, Terminal
  <2>2. Cardinality(H') \in Nat /\ Cardinality(H') >= Cardinality(H) - 1
    <3>1. IsFiniteSet(H \ {p})
      BY <1>1, FS_RemoveElement
    <3>2. Cardinality(H \ {p}) = IF p \in H THEN Cardinality(H) - 1 ELSE Cardinality(H)
      BY <1>1, FS_RemoveElement
    <3>3. Cardinality(H \ {p}) \in Nat
      BY <3>1, FS_CardinalityType
    <3>. QED BY <1>1, <2>1, <3>2, <3>3
  <2>3. allocated' = IF allocated > 0 THEN allocated - 1 ELSE allocated
    BY <1>2, <1>5 DEF CountPods, Terminal
  <2>. QED BY <1>1, <1>2, <2>2, <2>3 DEF AllocatedNeverOver
<1>. QED BY <1>3, <1>4, <1>5 DEF Held

(* A step of one pod. *)
LEMMA PodInvStep ==
  ASSUME PodInv, NEW p \in Pods, PodStep(p)
  PROVE  PodInv'
<1> USE DEF PodInv
<1>1. /\ kind' = kind
      /\ \A q \in Pods \ {p} :
           /\ status'[q] = status[q] /\ execution'[q] = execution[q] /\ task'[q] = task[q]
           /\ worker'[q] = worker[q] /\ inbox'[q] = inbox[q]
           /\ (q \in stops' <=> q \in stops) /\ (q \in missed' <=> q \in missed)
  BY DEF PodTypeOK, PodStep, Commanded, Handled, Happens, Fails, HandleDeploy, DeployFails,
         DownloadEnds, DownloadFails, WorkerAnswers, WorkerExits, NoticeMessage, NoticeExit,
         MainThreadEnds, Timeout, StopDownload, StopWorker, StopRoot, StopEnds, Settle,
         updateStatus, Forget
<1>2. SUFFICES Holds(p)'
  BY <1>1 DEF Holds, Consistent, EndedPodsAreDead
<1>3. ASSUME NEW s \in Held \cup Terminal, updateStatus(p, s),
             s = "running" => status[p] = "none",
             s = "stopping" => status[p] = "running"
      PROVE  AllocatedNeverOver' /\ allocated' \in Nat
             /\ status' \in [Pods -> {"none"} \cup Held \cup Terminal]
  BY <1>3, CountFollows
<1>4. ASSUME UNCHANGED <<status, allocated>>
      PROVE  AllocatedNeverOver' /\ allocated' \in Nat
             /\ status' \in [Pods -> {"none"} \cup Held \cup Terminal]
  BY <1>4 DEF AllocatedNeverOver, PodTypeOK
<1>5. ASSUME NEW s \in Terminal, updateStatus(p, s)
      PROVE  /\ AllocatedNeverOver' /\ allocated' \in Nat
             /\ status' \in [Pods -> {"none"} \cup Held \cup Terminal]
             /\ status'[p] \in Terminal
  <2>1. s \in Held \cup Terminal /\ s \notin {"running", "stopping"}
    BY DEF Terminal
  <2>2. status'[p] = s
    BY <1>5 DEF updateStatus, PodTypeOK
  <2>. QED BY <1>3, <1>5, <2>1, <2>2
<1> USE DEF Holds, Consistent, EndedPodsAreDead, Held, Terminal, Events
<1>6. CASE HandleDeploy(p)
  BY <1>3, <1>6 DEF HandleDeploy, PodTypeOK, updateStatus
<1>7. CASE DeployFails(p)
  BY <1>3, <1>7 DEF DeployFails, PodTypeOK, updateStatus
<1>8. CASE DownloadEnds(p)
  BY <1>4, <1>8 DEF DownloadEnds, PodTypeOK
<1>9. CASE DownloadFails(p)
  <2>1. PICK s \in Terminal : updateStatus(p, s)
    BY <1>9 DEF DownloadFails, Settle
  <2>. QED BY <1>5, <1>9, <2>1 DEF DownloadFails, Settle, PodTypeOK
<1>10. ASSUME NEW e \in {"result", "error"}, WorkerAnswers(p, e)
       PROVE  Holds(p)'
  BY <1>4, <1>10 DEF WorkerAnswers, PodTypeOK
<1>11. ASSUME NEW e \in {"exit0", "exit1"}, WorkerExits(p, e)
       PROVE  Holds(p)'
  BY <1>4, <1>11 DEF WorkerExits, PodTypeOK
<1>12. ASSUME NEW e \in Events, NoticeMessage(p, e)
       PROVE  Holds(p)'
  <2>1. CASE execution[p] = "settled"
    BY <1>4, <1>12, <2>1 DEF NoticeMessage, PodTypeOK, Forget
  <2>2. CASE execution[p] # "settled"
    <3>1. PICK s \in Terminal : updateStatus(p, s)
      BY <1>12, <2>2 DEF NoticeMessage, Settle
    <3>2. /\ execution' = [execution EXCEPT ![p] = "settled"] /\ Forget(p)
          /\ inbox' = [inbox EXCEPT ![p] = @ \ {e}] /\ e \in inbox[p]
          /\ UNCHANGED <<kind, worker, stops, missed>>
      BY <1>12, <2>2 DEF NoticeMessage, Settle
    <3>3. AllocatedNeverOver' /\ PodTypeOK'
      BY <1>5, <3>1, <3>2 DEF PodTypeOK, Forget
    <3>. QED BY <1>5, <3>1, <3>2, <3>3 DEF PodTypeOK, Forget
  <2>. QED BY <2>1, <2>2
<1>13. ASSUME NEW e \in Events, NoticeExit(p, e)
       PROVE  Holds(p)'
  <2>1. CASE task[p] = "running" /\ e = "exit1"
    <3>1. PICK s \in Terminal : updateStatus(p, s)
      BY <1>13, <2>1 DEF NoticeExit, Settle
    <3>2. /\ execution' = [execution EXCEPT ![p] = "settled"] /\ Forget(p)
          /\ inbox' = [inbox EXCEPT ![p] = @ \ {e}] /\ e \in inbox[p]
          /\ UNCHANGED <<kind, worker, stops, missed>>
      BY <1>13, <2>1 DEF NoticeExit, Settle
    <3>3. AllocatedNeverOver' /\ PodTypeOK'
      BY <1>5, <3>1, <3>2 DEF PodTypeOK, Forget
    <3>. QED BY <1>5, <3>1, <3>2, <3>3 DEF PodTypeOK, Forget
  <2>2. CASE ~ (task[p] = "running" /\ e = "exit1")
    BY <1>4, <1>13, <2>2 DEF NoticeExit, PodTypeOK, Forget
  <2>. QED BY <2>1, <2>2
<1>14. ASSUME NEW success \in BOOLEAN, MainThreadEnds(p, success)
       PROVE  Holds(p)'
  <2>1. PICK s \in Terminal : updateStatus(p, s)
    BY <1>14 DEF MainThreadEnds, Settle
  <2>2. /\ execution' = [execution EXCEPT ![p] = "settled"] /\ worker[p] = "busy"
        /\ worker' = [worker EXCEPT ![p] = "dead"]
        /\ UNCHANGED <<kind, task, inbox, stops, missed>>
    BY <1>14 DEF MainThreadEnds, Settle
  <2>3. AllocatedNeverOver' /\ PodTypeOK'
    BY <1>5, <2>1, <2>2 DEF PodTypeOK
  <2>. QED BY <1>5, <2>1, <2>2, <2>3 DEF PodTypeOK
<1>15. CASE Timeout(p)
  <2>1. PICK s \in Terminal : updateStatus(p, s)
    BY <1>15 DEF Timeout, Settle
  <2>. QED BY <1>5, <1>15, <2>1 DEF Timeout, Settle, PodTypeOK
<1>16. CASE StopDownload(p)
  BY <1>3, <1>16 DEF StopDownload, PodTypeOK, updateStatus
<1>17. CASE StopWorker(p)
  BY <1>3, <1>17 DEF StopWorker, PodTypeOK, updateStatus
<1>18. CASE StopRoot(p)
  BY <1>3, <1>18 DEF StopRoot, PodTypeOK, updateStatus
<1>19. CASE StopEnds(p)
  BY <1>3, <1>19 DEF StopEnds, PodTypeOK, updateStatus
<1>. QED BY <1>6, <1>7, <1>8, <1>9, <1>10, <1>11, <1>12, <1>13, <1>14, <1>15, <1>16, <1>17, <1>18,
            <1>19 DEF PodStep, Commanded, Handled, Happens, Fails

LEMMA PodInvStutter == PodInv /\ UNCHANGED podVars => PodInv'
BY DEF PodInv, podVars, PodTypeOK, Consistent, EndedPodsAreDead, AllocatedNeverOver

(* In whatever order deploys, stops, timeouts, messages and exits come,    *)
(* handler, executor and adapter agree, ended pods are dead and the count  *)
(* is never too high.                                                      *)
THEOREM RuntimeInvariant == PodSpec => []PodInv
<1>1. PodInv /\ [\E p \in Pods : PodStep(p)]_podVars => PodInv'
  BY PodInvStep, PodInvStutter
<1>. QED BY <1>1, PodInvInit, PTL DEF PodSpec

-----------------------------------------------------------------------------
(* NodeAgent *)

ServerTypeOK ==
  /\ row \in [Pods -> {"none", "active", "ended", "deleted"}]
  /\ listed \in [Sockets -> SUBSET Pods]
  /\ unlisted \in SUBSET Pods

AgentInv == ConnInv /\ PodInv /\ ServerTypeOK

LEMMA AgentInvInit == Init => AgentInv
<1>1. Init => ServerTypeOK
  BY DEF Init, ServerTypeOK
<1>. QED BY <1>1, ConnInvInit, PodInvInit DEF Init, AgentInv

(* What a step of the agent is to its two components.                      *)
LEMMA StepIsBoth ==
  ASSUME [Next]_vars, AgentInv
  PROVE  /\ ConnStep \/ UNCHANGED connVars
            \/ (Fault /\ UNCHANGED idleVars)
         /\ (\E p \in Pods : PodStep(p)) \/ UNCHANGED podVars
<1>1. CASE ConnEvent
  BY <1>1 DEF ConnEvent
<1>2. ASSUME NEW p \in Pods, PodEvent(p)
      PROVE  PodStep(p) /\ (UNCHANGED connVars \/ (Fault /\ UNCHANGED idleVars))
  BY <1>2 DEF PodEvent, PodStep
<1>3. ASSUME NEW p \in Pods, Revoke(p) PROVE UNCHANGED <<connVars, podVars>>
  BY <1>3 DEF Revoke
<1>. QED BY <1>1, <1>2, <1>3 DEF Next, vars

LEMMA ServerTypes == AgentInv /\ [Next]_vars => ServerTypeOK'
<1> SUFFICES ASSUME AgentInv, [Next]_vars PROVE ServerTypeOK'
  OBVIOUS
<1> USE DEF AgentInv, ServerTypeOK
<1>1. CASE ConnEvent
  BY <1>1 DEF ConnEvent, RunningPods
<1>2. ASSUME NEW p \in Pods, PodEvent(p) PROVE ServerTypeOK'
  BY <1>2 DEF PodEvent, Row
<1>3. ASSUME NEW p \in Pods, Revoke(p) PROVE ServerTypeOK'
  BY <1>3 DEF Revoke
<1>4. CASE UNCHANGED vars
  BY <1>4 DEF vars, serverVars
<1>. QED BY <1>1, <1>2, <1>3, <1>4 DEF Next

LEMMA AgentInvStep == AgentInv /\ [Next]_vars => AgentInv'
<1> SUFFICES ASSUME AgentInv, [Next]_vars PROVE AgentInv'
  OBVIOUS
<1>1. ConnInv'
  <2>1. CASE ConnStep
    BY <2>1, ConnInvStep DEF AgentInv
  <2>2. CASE UNCHANGED connVars \/ (Fault /\ UNCHANGED idleVars)
    <3>1. faults \in 0 .. MaxFaults /\ MaxFaults \in Nat
      BY ConnectionAssumption DEF AgentInv, ConnInv, ConnTypeOK
    <3>2. faults' = faults \/ (faults < MaxFaults /\ faults' = faults + 1)
      BY <2>2 DEF connVars, bounds, Fault
    <3>3. faults' \in 0 .. MaxFaults
      BY <3>1, <3>2
    <3>. QED BY <2>2, <3>3, FaultElsewhere DEF AgentInv, connVars, idleVars, bounds
  <2>. QED BY <2>1, <2>2, StepIsBoth
<1>2. PodInv'
  BY StepIsBoth, PodInvStep, PodInvStutter DEF AgentInv
<1>. QED BY <1>1, <1>2, ServerTypes DEF AgentInv

LEMMA AgentInvAlways == Spec => []AgentInv
BY AgentInvInit, AgentInvStep, PTL DEF Spec

(* Every field of the agent, its executor and the tables keeps its type;   *)
(* attempts never exceed the configured maximum.                           *)
THEOREM TypeCorrect == Spec => []TypeOK
<1>1. AgentInv => TypeOK
  BY DEF AgentInv, ConnInv, PodInv, ServerTypeOK, TypeOK
<1>. QED BY <1>1, AgentInvAlways, PTL

(* The agent claims no more pods than it holds, though ends are counted    *)
(* twice and in any order.                                                 *)
THEOREM CountNeverOver == Spec => []AllocatedNeverOver
<1>1. AgentInv => AllocatedNeverOver
  BY DEF AgentInv, PodInv
<1>. QED BY <1>1, AgentInvAlways, PTL

(* A pod the agent calls stopped or failed has no worker that works.       *)
THEOREM EndedAreDead == Spec => []EndedPodsAreDead
<1>1. AgentInv => EndedPodsAreDead
  BY DEF AgentInv, PodInv
<1>. QED BY <1>1, AgentInvAlways, PTL

(* An agent that is not stopped and has attempts left has a timer or a     *)
(* socket to wait for.                                                     *)
THEOREM ReconnectIsNeverForgotten == Spec => []NeverForgets
<1>1. AgentInv => NeverForgets
  BY DEF AgentInv, ConnInv
<1>. QED BY <1>1, AgentInvAlways, PTL

(* The two guards of the browser's agent are enough: one timer or one      *)
(* socket, never both or two, however often connections are refused.       *)
THEOREM BrowserReconnectsOnce == Spec => []OneReconnect
<1>1. AgentInv => OneReconnect
  BY OneWayIsOne DEF AgentInv, ConnInv
<1>. QED BY <1>1, AgentInvAlways, PTL

(* A stopped agent opens no socket, whatever timers it lost. *)
THEOREM StoppedStaysStopped == Spec => StopIsFinal
<1>1. AgentInv /\ [Next]_vars =>
        [isShuttingDown =>
           \A s \in Sockets : socket'[s] = "connecting" => socket[s] = "connecting"]_connVars
  <2> SUFFICES ASSUME AgentInv, [Next]_vars, isShuttingDown, NEW s \in Sockets,
                      socket'[s] = "connecting"
               PROVE  socket[s] = "connecting"
    OBVIOUS
  <2>1. CASE ConnStep
    BY <2>1, OnlyTimersConnect DEF AgentInv, ConnInv
  <2>2. CASE UNCHANGED connVars \/ (Fault /\ UNCHANGED idleVars)
    BY <2>2 DEF connVars, idleVars
  <2>. QED BY <2>1, <2>2, StepIsBoth
<1>. QED BY <1>1, AgentInvAlways, PTL DEF Spec, StopIsFinal

(* The agent's account of its pods and its way back are as good as that of *)
(* its two parts.                                                          *)
THEOREM AgentIsSafe == Spec => []AgentSafe
BY TypeCorrect, CountNeverOver, EndedAreDead, PTL DEF AgentSafe

(* However often connections are refused, the agent has a way back, and    *)
(* the browser's agent only one.                                           *)
THEOREM ReconnectIsSafe == Spec => []ReconnectSafe
BY ReconnectIsNeverForgotten, BrowserReconnectsOnce, PTL DEF ReconnectSafe

-----------------------------------------------------------------------------
(* The composition keeps to its parts *)

(* Whatever the connection goes through, pods run as in PodRuntime: what   *)
(* holds of it holds in a whole agent.                                     *)
THEOREM PodsKeepRuntime == Spec => PodSpec
<1>1. Init => PodInit
  BY DEF Init
<1>2. AgentInv /\ [Next]_vars => [\E p \in Pods : PodStep(p)]_podVars
  BY StepIsBoth
<1>. QED BY <1>1, <1>2, AgentInvAlways, PTL DEF Spec, PodSpec

(* Whatever the pods do, the agent connects as in AgentConnection: a pod's *)
(* failure leaves everything of the connection but the count of faults.    *)
THEOREM PodsLeaveConnection == Spec => ConnInit /\ [][ConnStep]_idleVars
<1>1. Init => ConnInit
  BY DEF Init
<1>2. AgentInv /\ [Next]_vars => [ConnStep]_idleVars
  BY StepIsBoth DEF connVars, idleVars, bounds
<1>. QED BY <1>1, <1>2, AgentInvAlways, PTL DEF Spec

=============================================================================
