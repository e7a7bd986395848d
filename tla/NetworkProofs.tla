----------------------------- MODULE NetworkProofs -----------------------------
(***************************************************************************)
(* Proofs about the server's network services, for any number of sockets,  *)
(* attempts, faults, services, ports and requests: in PodRouting the maps  *)
(* agree and the pod never forgets to come back, in PodGroups nobody is in *)
(* a group without a connection, in Ingress a request stays with the       *)
(* service whose listener took it.                                         *)
(***************************************************************************)
EXTENDS PodGroups, Ingress, FiniteSetTheorems, TLAPS

(* The shared promise, if any, is that of the stack's own socket. *)
OwnPromise == initOf \in {0, ws}

(* An ended process has nothing that could still happen. *)
EndedIsQuiet ==
  Ended => timers = 0 /\ waits = {} /\ \A s \in Sockets : client[s] = "closed"

StackTypeOK ==
  /\ client \in [Sockets -> {"closed", "connecting", "open"}]
  /\ ws \in 0 .. MaxSockets /\ initOf \in 0 .. MaxSockets /\ boot \in 0 .. MaxSockets
  /\ state \in {"disconnected", "connecting", "connected", "registered", "reconnecting"}
  /\ connected \in BOOLEAN
  /\ waits \in SUBSET Sockets
  /\ ready \in {"no", "yes", "failed", "ended"}
  /\ timers \in Nat
  /\ attempts \in 0 .. MaxAttempts

ServerTypeOK ==
  /\ server \in SUBSET Sockets /\ sent \in SUBSET Sockets /\ podsOf \in SUBSET Sockets
  /\ route \in 0 .. MaxSockets
  /\ registered \in BOOLEAN /\ queue \in BOOLEAN /\ expired \in BOOLEAN

StackInv == StackTypeOK /\ OwnPromise /\ EndedIsQuiet /\ NeverForgets
MapsInv == ServerTypeOK /\ RoutesAreOpen /\ QueueWaitsForRoute

RoutingInv == StackInv /\ MapsInv /\ faults \in 0 .. MaxFaults

LEMMA Ranges ==
  /\ 0 \in 0 .. MaxSockets /\ 0 \in 0 .. MaxAttempts /\ 0 \in 0 .. MaxFaults
  /\ \A s \in Sockets : s \in 0 .. MaxSockets
  /\ IsFiniteSet(Sockets)
<1>1. /\ 0 \in 0 .. MaxSockets /\ 0 \in 0 .. MaxAttempts /\ 0 \in 0 .. MaxFaults
      /\ \A s \in Sockets : s \in 0 .. MaxSockets
  BY RoutingAssumption DEF Sockets
<1>2. IsFiniteSet(Sockets)
  BY RoutingAssumption, FS_Interval DEF Sockets
<1>. QED BY <1>1, <1>2

LEMMA RoutingInit == Init => RoutingInv
<1> SUFFICES ASSUME Init PROVE RoutingInv
  OBVIOUS
<1> USE DEF Init
<1>1. StackTypeOK
  BY Ranges DEF StackTypeOK
<1>2. OwnPromise /\ EndedIsQuiet /\ NeverForgets
  BY DEF OwnPromise, EndedIsQuiet, Ended, NeverForgets
<1>3. MapsInv
  BY Ranges DEF MapsInv, ServerTypeOK, RoutesAreOpen, QueueWaitsForRoute
<1>. QED BY <1>1, <1>2, <1>3, Ranges DEF RoutingInv, StackInv

(* What scheduleReconnect leaves, asked for at least once. *)
LEMMA Schedules ==
  ASSUME StackTypeOK, NEW n \in Nat, NEW other, ScheduleReconnect(n, other)
  PROVE  /\ attempts' \in 0 .. MaxAttempts /\ timers' \in Nat
         /\ n > 0 /\ attempts' < MaxAttempts => timers' > 0
         /\ n = 0 => attempts' = attempts /\ timers' = timers
         /\ state' \in {"reconnecting", other}
BY RoutingAssumption DEF StackTypeOK, ScheduleReconnect

(* A new socket. *)
LEMMA OpenStep ==
  ASSUME StackInv, NEW s \in Sockets, Open(s), timers' \in Nat,
         boot' \in 0 .. MaxSockets, ready' = ready, ~ Ended
  PROVE  StackInv'
<1>1. StackTypeOK'
  BY DEF StackInv, StackTypeOK, Open, Sockets
<1>2. client'[s] = "connecting"
  BY DEF StackInv, StackTypeOK, Open
<1>. QED BY <1>1, <1>2 DEF StackInv, Open, OwnPromise, EndedIsQuiet, Ended, NeverForgets

(* A socket closes, for whatever reason. *)
LEMMA CloseStep ==
  ASSUME StackInv, NEW s \in Sockets, client[s] # "closed", NEW E \in SUBSET waits, HandleClose(s, E)
  PROVE  StackInv'
<1> DEFINE R == E \cup IF state # "registered" THEN Current ELSE {}
           n == 1 + Cardinality(R \ {boot})
<1>1. R \in SUBSET waits /\ waits \in SUBSET Sockets
  BY DEF StackInv, StackTypeOK, Current
<1>2. n \in Nat /\ n > 0
  <2>1. IsFiniteSet(R \ {boot})
    BY <1>1, Ranges, FS_Subset
  <2>. QED BY <2>1, FS_CardinalityType
<1>3. ScheduleReconnect(n, "disconnected") /\ Reject(R)
  BY DEF HandleClose
<1>4. StackTypeOK'
  <2>1. /\ client' = [client EXCEPT ![s] = "closed"] /\ connected' = FALSE
        /\ initOf' \in {0, initOf} /\ waits' = waits \ R /\ ready' \in {"failed", ready}
        /\ UNCHANGED <<ws, boot>>
    BY <1>3 DEF HandleClose, Reject
  <2>2. attempts' \in 0 .. MaxAttempts /\ timers' \in Nat /\ state' \in {"reconnecting", "disconnected"}
    BY <1>2, <1>3, Schedules DEF StackInv
  <2>. QED BY <2>1, <2>2, Ranges DEF StackInv, StackTypeOK
<1>5. ~ Ended
  BY DEF StackInv, EndedIsQuiet
<1>6. ~ Ended'
  BY <1>3, <1>5 DEF Reject, Ended
<1>7. attempts' < MaxAttempts => timers' > 0
  BY <1>2, <1>3, Schedules DEF StackInv
<1>. QED BY <1>4, <1>6, <1>7 DEF StackInv, HandleClose, OwnPromise, EndedIsQuiet, NeverForgets

-----------------------------------------------------------------------------
(* The pod's steps *)

StackStep ==
  \/ \E s \in Sockets :
       \/ Boot(s) \/ Reconnect(s) \/ SocketOpens(s) \/ ConnectTimesOut(s)
       \/ SocketRefused(s) \/ SocketCloses(s)
  \/ End

LEMMA StackSteps == StackInv /\ StackStep => StackInv'
<1> SUFFICES ASSUME StackInv, StackStep PROVE StackInv'
  OBVIOUS
<1>1. ASSUME NEW s \in Sockets, Boot(s)
      PROVE  StackInv'
  BY <1>1, OpenStep DEF StackInv, StackTypeOK, Boot, Ended, Sockets
<1>2. ASSUME NEW s \in Sockets, Reconnect(s)
      PROVE  StackInv'
  <2>1. ~ Ended
    BY <1>2 DEF StackInv, EndedIsQuiet, Reconnect
  <2>. QED BY <1>2, <2>1, OpenStep DEF StackInv, StackTypeOK, Reconnect
<1>3. ASSUME NEW s \in Sockets, SocketOpens(s)
      PROVE  StackInv'
  <2>1. client'[s] = "open"
    BY <1>3 DEF StackInv, StackTypeOK, SocketOpens
  <2>2. ~ Ended /\ ~ Ended'
    BY <1>3 DEF StackInv, EndedIsQuiet, SocketOpens, Ended
  <2>3. StackTypeOK'
    BY <1>3, RoutingAssumption DEF StackInv, StackTypeOK, SocketOpens
  <2>. QED BY <1>3, <2>1, <2>2, <2>3 DEF StackInv, OwnPromise, EndedIsQuiet, NeverForgets, SocketOpens
<1>4. ASSUME NEW s \in Sockets, ConnectTimesOut(s)
      PROVE  StackInv'
  <2> DEFINE n == IF s = boot THEN 0 ELSE 1
  <2>1. ScheduleReconnect(n, state) /\ n \in Nat
    BY <1>4 DEF ConnectTimesOut
  <2>2. StackTypeOK'
    BY <1>4, <2>1, Schedules DEF StackInv, StackTypeOK, ConnectTimesOut, Reject
  <2>3. ~ Ended /\ ~ Ended'
    BY <1>4 DEF StackInv, EndedIsQuiet, ConnectTimesOut, Reject, Ended
  <2>4. attempts' < MaxAttempts =>
          timers' > 0 \/ (attempts' = attempts /\ timers' = timers)
    BY <2>1, Schedules DEF StackInv
  <2>. QED BY <1>4, <2>2, <2>3, <2>4
           DEF StackInv, OwnPromise, EndedIsQuiet, NeverForgets, ConnectTimesOut
<1>5. ASSUME NEW s \in Sockets, SocketRefused(s)
      PROVE  StackInv'
  BY <1>5, CloseStep DEF SocketRefused
<1>6. ASSUME NEW s \in Sockets, SocketCloses(s)
      PROVE  StackInv'
  BY <1>6, CloseStep DEF SocketCloses
<1>7. CASE End
  <2>1. StackTypeOK'
    BY <1>7, Ranges DEF StackInv, StackTypeOK, End
  <2>. QED BY <1>7, <2>1 DEF StackInv, OwnPromise, EndedIsQuiet, Ended, NeverForgets, End
<1>. QED BY <1>1, <1>2, <1>3, <1>4, <1>5, <1>6, <1>7 DEF StackStep

(* To the server they are sockets that open and messages that are sent. *)
LEMMA StackLeavesMaps ==
  StackInv /\ MapsInv /\ StackStep =>
    MapsInv' /\ (faults' = faults \/ Fault)
<1> SUFFICES ASSUME StackInv, MapsInv, StackStep
             PROVE  MapsInv' /\ (faults' = faults \/ Fault)
  OBVIOUS
<1>1. ASSUME NEW s \in Sockets, SocketOpens(s)
      PROVE  MapsInv' /\ faults' = faults
  <2>1. Current # {} => ws \in Sockets
    BY DEF StackInv, StackTypeOK, OwnPromise, Current, Sockets
  <2>. QED BY <1>1, <2>1
           DEF MapsInv, ServerTypeOK, RoutesAreOpen, QueueWaitsForRoute, SocketOpens
<1>2. ASSUME UNCHANGED serverVars
      PROVE  MapsInv'
  BY <1>2 DEF MapsInv, ServerTypeOK, RoutesAreOpen, QueueWaitsForRoute, serverVars
<1>3. ASSUME NEW s \in Sockets,
             Boot(s) \/ Reconnect(s) \/ ConnectTimesOut(s) \/ SocketRefused(s) \/ SocketCloses(s)
      PROVE  UNCHANGED serverVars /\ (faults' = faults \/ Fault)
  BY <1>3 DEF Boot, Reconnect, ConnectTimesOut, SocketRefused, SocketCloses
<1>4. End => UNCHANGED serverVars /\ faults' = faults
  BY DEF End
<1>. QED BY <1>1, <1>2, <1>3, <1>4 DEF StackStep

-----------------------------------------------------------------------------
(* The server's steps *)

ServerStep ==
  \/ \E s \in Sockets : HandlePodRegister(s) \/ ConnectionCloses(s)
  \/ ServerRestarts \/ RelaySignal \/ UnregisterPodsOnNode \/ TokenExpires

LEMMA ServerSteps ==
  MapsInv /\ ServerStep =>
    MapsInv' /\ UNCHANGED stackVars /\ (faults' = faults \/ Fault)
<1> SUFFICES ASSUME MapsInv, ServerStep
             PROVE  MapsInv' /\ UNCHANGED stackVars /\ (faults' = faults \/ Fault)
  OBVIOUS
<1> USE DEF MapsInv, ServerTypeOK, RoutesAreOpen, QueueWaitsForRoute
<1>1. ASSUME NEW s \in Sockets, HandlePodRegister(s)
      PROVE  MapsInv' /\ UNCHANGED stackVars /\ faults' = faults
  <2>1. CASE expired
    BY <1>1, <2>1 DEF HandlePodRegister
  <2>2. CASE ~ expired
    <3>1. /\ route' = s /\ podsOf' = podsOf \cup {s} /\ s # 0 /\ s \in server
          /\ registered' = TRUE /\ queue' = FALSE /\ sent' = sent \ {s}
          /\ UNCHANGED <<stackVars, server, expired, faults>>
      BY <1>1, <2>2 DEF HandlePodRegister, RegisterPodConnection, Sockets
    <3>. QED BY <3>1, Ranges
  <2>. QED BY <2>1, <2>2
<1>2. ASSUME NEW s \in Sockets, ConnectionCloses(s)
      PROVE  MapsInv' /\ UNCHANGED stackVars /\ (faults' = faults \/ Fault)
  <2>1. CASE s \in podsOf
    BY <1>2, <2>1, Ranges DEF ConnectionCloses, ForgetPod
  <2>2. CASE s \notin podsOf
    BY <1>2, <2>2 DEF ConnectionCloses
  <2>. QED BY <2>1, <2>2
<1>3. CASE ServerRestarts
  BY <1>3, Ranges DEF ServerRestarts
<1>4. CASE RelaySignal
  BY <1>4 DEF RelaySignal, QueueSignal
<1>5. CASE UnregisterPodsOnNode
  BY <1>5 DEF UnregisterPodsOnNode
<1>6. CASE TokenExpires
  BY <1>6 DEF TokenExpires
<1>. QED BY <1>1, <1>2, <1>3, <1>4, <1>5, <1>6 DEF ServerStep

LEMMA StackStutter == StackInv /\ UNCHANGED stackVars => StackInv'
BY DEF StackInv, StackTypeOK, OwnPromise, EndedIsQuiet, Ended, NeverForgets, stackVars

LEMMA RoutingNext == RoutingInv /\ [Next]_vars => RoutingInv'
<1> SUFFICES ASSUME RoutingInv, [Next]_vars PROVE RoutingInv'
  OBVIOUS
<1>1. ASSUME faults' = faults \/ Fault
      PROVE  faults' \in 0 .. MaxFaults
  BY <1>1, RoutingAssumption DEF RoutingInv, Fault
<1>2. CASE StackStep
  BY <1>1, <1>2, StackSteps, StackLeavesMaps DEF RoutingInv
<1>3. CASE ServerStep
  BY <1>1, <1>3, ServerSteps, StackStutter DEF RoutingInv
<1>4. CASE UNCHANGED vars
  BY <1>4, StackStutter
  DEF RoutingInv, MapsInv, ServerTypeOK, RoutesAreOpen, QueueWaitsForRoute, vars, serverVars
<1>. QED BY <1>2, <1>3, <1>4 DEF Next, StackStep, ServerStep

LEMMA RoutingAlways == Spec => []RoutingInv
<1>. QED BY RoutingInit, RoutingNext, PTL DEF Spec

-----------------------------------------------------------------------------
(* The types of stack and server. *)
THEOREM TypeCorrect == Spec => []TypeOK
<1>1. RoutingInv => TypeOK
  BY DEF RoutingInv, StackInv, StackTypeOK, MapsInv, ServerTypeOK, TypeOK
<1>. QED BY <1>1, RoutingAlways, PTL

(* However registers, closes of older and newer sockets, restarts and      *)
(* clearings interleave, a route is an open connection that lists the pod, *)
(* and nobody in the registry is without one.                              *)
THEOREM MapsAgree == Spec => []RoutesAreOpen
<1>1. RoutingInv => RoutesAreOpen
  BY DEF RoutingInv, MapsInv
<1>. QED BY <1>1, RoutingAlways, PTL

(* Signals are queued for pods without a route only. *)
THEOREM NoSignalIsOvertaken == Spec => []QueueWaitsForRoute
<1>1. RoutingInv => QueueWaitsForRoute
  BY DEF RoutingInv, MapsInv
<1>. QED BY <1>1, RoutingAlways, PTL

(* Whatever sockets open late, are refused or close, a pod with attempts   *)
(* left has a timer or a socket.                                           *)
THEOREM PodComesBack == Spec => []NeverForgets
<1>1. RoutingInv => NeverForgets
  BY DEF RoutingInv, StackInv
<1>. QED BY <1>1, RoutingAlways, PTL

(* The maps keep their types, agree, and let no signal overtake another. *)
THEOREM RoutesAreSafe == Spec => []RoutesSafe
BY TypeCorrect, MapsAgree, NoSignalIsOvertaken, PTL DEF RoutesSafe

-----------------------------------------------------------------------------
(* PodGroups *)

(* What a step of PodGroups does to stack and server is a step of          *)
(* PodRouting, or nothing.                                                 *)
LEMMA GroupStepRoutes == [GroupNext]_allVars => [Next]_vars
<1> SUFFICES ASSUME [GroupNext]_allVars PROVE [Next]_vars
  OBVIOUS
<1>1. CASE OtherSteps
  BY <1>1 DEF OtherSteps, Next
<1>2. ASSUME NEW s \in Sockets, HandleJoin(s) \/ HandleLeave(s) \/ RefuseRequest(s)
      PROVE  UNCHANGED vars
  BY <1>2 DEF HandleJoin, HandleLeave, RefuseRequest, HandleRequest
<1>3. ASSUME NEW s \in Sockets, GroupConnectionCloses(s)
      PROVE  Next
  BY <1>3 DEF GroupConnectionCloses, Next
<1>4. CASE GroupRequest \/ NodeConnectionCloses
  BY <1>4 DEF GroupRequest, NodeConnectionCloses
<1>5. CASE GroupServerRestarts \/ GroupUnregister
  BY <1>5 DEF GroupServerRestarts, GroupUnregister, Next
<1>6. CASE UNCHANGED allVars
  BY <1>6 DEF allVars
<1>. QED BY <1>1, <1>2, <1>3, <1>4, <1>5, <1>6 DEF GroupNext

(* Groups change nothing of the routing: whatever holds of PodRouting      *)
(* holds under group requests too.                                         *)
THEOREM GroupsKeepRouting == GroupSpec => Spec
<1>1. GroupInit => Init
  BY DEF GroupInit
<1>. QED BY <1>1, GroupStepRoutes, PTL DEF GroupSpec, Spec

LEMMA StepsKeepConnections ==
  OtherSteps => podsOf \subseteq podsOf' /\ server \subseteq server'
<1> SUFFICES ASSUME OtherSteps PROVE podsOf \subseteq podsOf' /\ server \subseteq server'
  OBVIOUS
<1>1. ASSUME NEW s \in Sockets,
             Boot(s) \/ Reconnect(s) \/ ConnectTimesOut(s) \/ SocketRefused(s) \/ SocketCloses(s)
      PROVE  UNCHANGED <<podsOf, server>>
  BY <1>1 DEF Boot, Reconnect, Open, ConnectTimesOut, SocketRefused, SocketCloses, HandleClose,
              serverVars
<1>2. ASSUME NEW s \in Sockets, SocketOpens(s)
      PROVE  podsOf' = podsOf /\ server \subseteq server'
  BY <1>2 DEF SocketOpens
<1>3. ASSUME NEW s \in Sockets, HandlePodRegister(s)
      PROVE  podsOf \subseteq podsOf' /\ server' = server
  BY <1>3 DEF HandlePodRegister, RegisterPodConnection
<1>4. CASE End \/ RelaySignal \/ TokenExpires
  BY <1>4 DEF End, RelaySignal, TokenExpires, serverVars
<1>. QED BY <1>1, <1>2, <1>3, <1>4 DEF OtherSteps

LEMMA GroupStepConnected == MembersAreConnected /\ [GroupNext]_allVars => MembersAreConnected'
<1> SUFFICES ASSUME MembersAreConnected, [GroupNext]_allVars PROVE MembersAreConnected'
  OBVIOUS
<1> USE DEF MembersAreConnected
<1>1. CASE OtherSteps /\ UNCHANGED groupVars
  BY <1>1, StepsKeepConnections DEF groupVars
<1>2. ASSUME NEW s \in Sockets, HandleJoin(s) \/ HandleLeave(s) \/ RefuseRequest(s)
      PROVE  MembersAreConnected'
  BY <1>2 DEF HandleJoin, HandleLeave, RefuseRequest, HandleRequest, Authenticated, vars, serverVars
<1>3. ASSUME NEW s \in Sockets, GroupConnectionCloses(s)
      PROVE  MembersAreConnected'
  BY <1>3 DEF GroupConnectionCloses, ConnectionCloses, LeaveWithConnection
<1>4. CASE GroupRequest \/ UNCHANGED allVars
  BY <1>4 DEF GroupRequest, allVars, groupVars, vars, serverVars
<1>5. CASE GroupServerRestarts \/ NodeConnectionCloses
  BY <1>5 DEF GroupServerRestarts, NodeConnectionCloses
<1>6. CASE GroupUnregister
  BY <1>6 DEF GroupUnregister, UnregisterPodsOnNode
<1>. QED BY <1>1, <1>2, <1>3, <1>4, <1>5, <1>6 DEF GroupNext

(* However joins cross the closing of connections, revocations, restarts   *)
(* and reconnects, nobody is a member without an open connection whose     *)
(* closing takes him out.                                                  *)
THEOREM MembersStayConnected == GroupSpec => []MembersAreConnected
<1>1. GroupInit => MembersAreConnected
  BY DEF GroupInit, MembersAreConnected
<1>. QED BY <1>1, GroupStepConnected, PTL DEF GroupSpec

LEMMA GroupStepTypes == TypeOK /\ AsksTypeOK /\ [GroupNext]_allVars => AsksTypeOK'
<1> SUFFICES ASSUME TypeOK, AsksTypeOK, [GroupNext]_allVars PROVE AsksTypeOK'
  OBVIOUS
<1> USE DEF AsksTypeOK
<1>1. CASE UNCHANGED groupVars
  BY <1>1 DEF groupVars
<1>2. ASSUME NEW s \in Sockets, HandleJoin(s) \/ HandleLeave(s) \/ RefuseRequest(s)
      PROVE  AsksTypeOK'
  BY <1>2 DEF HandleJoin, HandleLeave, RefuseRequest, HandleRequest
<1>3. ASSUME NEW s \in Sockets, GroupConnectionCloses(s)
      PROVE  AsksTypeOK'
  BY <1>3 DEF GroupConnectionCloses, LeaveWithConnection
<1>4. CASE GroupRequest
  BY <1>4, RoutingAssumption DEF GroupRequest, TypeOK, Sockets
<1>5. CASE GroupServerRestarts \/ NodeConnectionCloses \/ GroupUnregister
  BY <1>5 DEF GroupServerRestarts, NodeConnectionCloses, GroupUnregister
<1>. QED BY <1>1, <1>2, <1>3, <1>4, <1>5 DEF GroupNext, allVars

(* The same with the types, of the routing and of the requests under way. *)
THEOREM GroupsAreSafe == GroupSpec => []GroupsSafe
<1>1. GroupInit => AsksTypeOK
  BY DEF GroupInit, AsksTypeOK
<1>2. TypeOK /\ AsksTypeOK /\ [GroupNext]_allVars => AsksTypeOK'
  BY GroupStepTypes
<1>3. GroupSpec => [](TypeOK /\ AsksTypeOK)
  BY <1>1, <1>2, GroupsKeepRouting, TypeCorrect, PTL DEF GroupSpec
<1>. QED BY <1>3, MembersStayConnected, PTL DEF GroupsSafe, GroupTypeOK

-----------------------------------------------------------------------------
(* Ingress *)

(* The operating system's part: a port has one listener. *)
OneListener == \A s, t \in listening : PortOf[s] = PortOf[t] => s = t

(* The binding of a listener's port is its own, or none: a binding is made *)
(* with the listener, but dropped by the port when an earlier listener has *)
(* drained, whoever has it by then.                                        *)
OwnBinding == \A s \in listening : bindings[PortOf[s]] \in {s, None}

(* A service whose listener is yet to open has no connections of an older  *)
(* one: it opens once in a run of the server.                              *)
Opens(s) == row[s] = "none" \/ s \in opening \cup restore
OpensOnce ==
  /\ \A s \in opening \cup restore : row[s] # "none"
  /\ \A s \in Services : Opens(s) => s \notin listening /\ \A c \in Clients : conn[c].at # s

Connection == {k \in [stage : {"closed", "idle", "sending", "reading", "pending"},
                       at : Services \cup {None}, of : Services \cup {None}] :
                 k.at = None => k.stage = "closed"}

DeleteSlot == {e \in [stage : {"no", "close", "drain", "row"}, of : Services \cup {None}] :
                 e.of = None => e.stage = "no"}
Rows == [Services -> {"none", "active", "deleting", "gone"}]

(* The inductive invariant; a connection that is open is some listener's,  *)
(* a DELETE under way some service's.                                      *)
IngressInv ==
  /\ IngressSafe /\ OneListener /\ OwnBinding /\ OpensOnce
  /\ conn \in [Clients -> Connection] /\ deletes \in [Deletes -> DeleteSlot]

LEMMA IngressTypes ==
  ASSUME IngressInv
  PROVE  /\ row \in Rows
         /\ opening \in SUBSET Services /\ listening \in SUBSET Services
         /\ restore \in SUBSET Services
         /\ bindings \in [Ports -> Services \cup {None}]
         /\ deletes \in [Deletes -> DeleteSlot]
         /\ conn \in [Clients -> Connection]
         /\ restarts \in 0 .. MaxRestarts
         /\ PortOf \in [Services -> Ports]
         /\ None \notin Services
BY IngressAssumption
DEF IngressInv, IngressSafe, IngressTypeOK, Rows

(* What a connection may become without a lookup: it stays where it was    *)
(* accepted, or is closed, and stays with its service or forgets it.       *)
Successor(k, l) ==
  /\ l \in Connection
  /\ l.at \in {k.at, None} /\ l.of \in {k.of, None}

LEMMA Successors ==
  ASSUME NEW k \in Connection, None \notin Services
  PROVE  /\ Successor(k, k) /\ Successor(k, Closed)
         /\ k.at # None => Successor(k, Answered(k))
         /\ k.at # None => \A stage \in {"sending", "pending"} :
                             Successor(k, [k EXCEPT !.stage = stage])
         /\ \A s \in Services : Successor(k, Dropped(s, Aborted(s, k)))
<1>1. Closed \in Connection /\ Closed.at = None /\ Closed.of = None
  BY DEF Closed, Connection
<1>2. Successor(k, k) /\ Successor(k, Closed)
  BY <1>1 DEF Successor
<1>3. k.at # None =>
        Answered(k) \in Connection /\ Answered(k).at = k.at /\ Answered(k).of = None
  BY DEF Answered, Connection
<1>4. k.at # None =>
        \A stage \in {"sending", "pending"} : Successor(k, [k EXCEPT !.stage = stage])
  BY DEF Successor, Connection
<1>5. ASSUME NEW s \in Services PROVE Successor(k, Dropped(s, Aborted(s, k)))
  <2>1. Aborted(s, k) = k \/ (k.at # None /\ Aborted(s, k) = Answered(k))
    BY DEF Aborted, Connection
  <2>2. \/ Dropped(s, Aborted(s, k)) \in {k, Closed}
        \/ k.at # None /\ Dropped(s, Aborted(s, k)) = Answered(k)
    BY <2>1 DEF Dropped
  <2>. QED BY <2>2, <1>2, <1>3 DEF Successor
<1>. QED BY <1>2, <1>3, <1>4, <1>5 DEF Successor

(* Connections go on, none is new. *)
Continue ==
  /\ conn' \in [Clients -> Connection]
  /\ \A c \in Clients : Successor(conn[c], conn'[c])

LEMMA OneContinues ==
  ASSUME IngressInv, NEW c \in Clients, NEW l, Successor(conn[c], l),
         conn' = [conn EXCEPT ![c] = l]
  PROVE  Continue
<1>1. \A b \in Clients : Successor(conn[b], conn[b])
  BY IngressTypes, Successors
<1>. QED BY <1>1, IngressTypes DEF Continue, Successor

LEMMA NoneMoves ==
  ASSUME IngressInv, conn' = conn
  PROVE  Continue
BY IngressTypes, Successors DEF Continue

(* Steps that open no listener: listeners may close, bindings be dropped.  *)
LEMMA FewerKeep ==
  ASSUME IngressInv, Continue, listening' \subseteq listening,
         bindings' \in [Ports -> Services \cup {None}],
         \A p \in Ports : bindings'[p] \in {bindings[p], None},
         row' \in Rows, opening' \in SUBSET Services, restore' \in SUBSET Services,
         \A s \in opening' \cup restore' : row'[s] # "none",
         \A s \in Services : Opens(s)' => Opens(s),
         deletes' \in [Deletes -> DeleteSlot],
         NoDeadBinding',
         restarts' \in 0 .. MaxRestarts
  PROVE  IngressInv'
<1>1. IngressTypeOK'
  BY IngressTypes DEF IngressTypeOK, Continue, Rows, DeleteSlot, Connection
<1>2. ASSUME NEW c \in Clients, conn'[c].at \in listening'
      PROVE  conn'[c].of \in {None, conn'[c].at}
  <2>1. conn'[c].at = conn[c].at /\ conn[c].at \in listening
    BY <1>2, IngressTypes DEF Continue, Successor
  <2>. QED BY <2>1 DEF Continue, Successor, IngressInv, IngressSafe, OpenListenerServesOwn
<1>3. OneListener'
  BY DEF IngressInv, OneListener
<1>4. ASSUME NEW s \in listening' PROVE bindings'[PortOf[s]] \in {s, None}
  <2>1. s \in listening /\ PortOf[s] \in Ports
    BY IngressTypes
  <2>. QED BY <2>1 DEF IngressInv, OwnBinding
<1>5. OpensOnce'
  <2>1. ASSUME NEW s \in Services, Opens(s)'
        PROVE  s \notin listening' /\ \A c \in Clients : conn'[c].at # s
    <3>1. s \notin listening /\ \A c \in Clients : conn[c].at # s
      BY <2>1 DEF IngressInv, OpensOnce
    <3>. QED BY <3>1, IngressTypes DEF Continue, Successor
  <2>. QED BY <2>1 DEF OpensOnce
<1>. QED BY <1>1, <1>2, <1>3, <1>4, <1>5
         DEF IngressInv, IngressSafe, OpenListenerServesOwn, OwnBinding, Continue

(* Bindings are as live as they were. *)
LEMMA BindingsLive ==
  ASSUME IngressInv, listening' = listening,
         \A p \in Ports : bindings'[p] \in {bindings[p], None},
         \A s \in Services : Draining(s) # {} => Draining(s)' # {}
  PROVE  NoDeadBinding'
<1> SUFFICES ASSUME NEW p \in Ports, NEW s \in Services, bindings'[p] = s
             PROVE  PortOf[s] = p /\ (s \in listening' \/ Draining(s)' # {})
  BY DEF NoDeadBinding
<1>1. bindings[p] = s
  BY IngressTypes
<1>. QED BY <1>1 DEF IngressInv, IngressSafe, NoDeadBinding

(* Steps of one connection that look nothing up. *)
LEMMA ConnectionSteps ==
  ASSUME IngressInv, NEW c \in Clients,
         \/ Reuse(c) \/ RouteToPod(c) \/ HandleIngressResponse(c) \/ Timeout(c)
         \/ KeepAliveEnds(c) \/ CutOff(c) \/ ClientLeaves(c)
  PROVE  IngressInv'
<1>1. UNCHANGED <<row, opening, listening, bindings, deletes, restore, restarts>>
  BY DEF Reuse, RouteToPod, HandleIngressResponse, Timeout, KeepAliveEnds, CutOff, ClientLeaves,
         Close
<1>2. conn[c] \in Connection
  BY IngressTypes
<1>3. \E l : Successor(conn[c], l) /\ conn' = [conn EXCEPT ![c] = l]
  <2>1. CASE conn' = [conn EXCEPT ![c] = Closed]
    BY <2>1, <1>2, Successors, IngressTypes
  <2>2. CASE conn[c].at # None /\ conn' = [conn EXCEPT ![c] = Answered(conn[c])]
    BY <2>2, <1>2, Successors, IngressTypes
  <2>3. CASE conn[c].at # None /\ \E stage \in {"sending", "pending"} :
               conn' = [conn EXCEPT ![c] = [conn[c] EXCEPT !.stage = stage]]
    BY <2>3, <1>2, Successors, IngressTypes
  <2>4. conn[c].stage # "closed" => conn[c].at # None
    BY <1>2 DEF Connection
  <2>5. \A stage : Goes(c, stage) => conn' = [conn EXCEPT ![c] = [conn[c] EXCEPT !.stage = stage]]
    BY <1>2, IngressTypes DEF Goes
  <2>6. CASE Reuse(c) \/ RouteToPod(c)
    BY <2>2, <2>3, <2>4, <2>5, <2>6 DEF Reuse, RouteToPod
  <2>7. CASE HandleIngressResponse(c) \/ Timeout(c)
    BY <2>2, <2>4, <2>7 DEF HandleIngressResponse, Timeout, Pending
  <2>8. CASE KeepAliveEnds(c) \/ CutOff(c) \/ ClientLeaves(c)
    BY <2>1, <2>8 DEF KeepAliveEnds, CutOff, ClientLeaves, Close
  <2>. QED BY <2>6, <2>7, <2>8
<1>4. Continue
  BY <1>3, OneContinues
<1>5. NoDeadBinding'
  BY <1>1, BindingsLive DEF Draining
<1>. QED BY <1>1, <1>4, <1>5, IngressTypes, FewerKeep DEF IngressInv, OpensOnce, Opens

(* Steps that concern a connection in another way: it is accepted, or the  *)
(* binding of its port is looked up.                                       *)
LEMMA ConnectStep ==
  ASSUME IngressInv, NEW c \in Clients, NEW s \in Services, Connect(c, s)
  PROVE  IngressInv'
<1> DEFINE new == [stage |-> "sending", at |-> s, of |-> None]
<1>1. UNCHANGED <<row, opening, listening, bindings, deletes, restore, restarts>>
  BY DEF Connect
<1>2. conn' = [conn EXCEPT ![c] = new] /\ s \in listening
  BY DEF Connect
<1>3. new \in Connection
  BY IngressTypes DEF Connection
<1>4. conn' \in [Clients -> Connection]
      /\ \A b \in Clients : conn'[b] = IF b = c THEN new ELSE conn[b]
  BY <1>2, <1>3, IngressTypes
<1>5. IngressTypeOK'
  BY <1>1, <1>4, IngressTypes DEF IngressTypeOK, Rows, DeleteSlot, Connection
<1>6. OpenListenerServesOwn'
  BY <1>1, <1>4 DEF IngressInv, IngressSafe, OpenListenerServesOwn
<1>7. NoDeadBinding' /\ OneListener' /\ OwnBinding'
  BY <1>1 DEF IngressInv, IngressSafe, NoDeadBinding, Draining, OneListener, OwnBinding
<1>8. OpensOnce'
  BY <1>1, <1>2, <1>4 DEF IngressInv, OpensOnce, Opens
<1>. QED BY <1>1, <1>4, <1>5, <1>6, <1>7, <1>8, IngressTypes DEF IngressInv, IngressSafe

LEMMA LookUpStep ==
  ASSUME IngressInv, NEW c \in Clients, HandleIngressRequest(c)
  PROVE  IngressInv'
<1> DEFINE bound == bindings[PortOf[conn[c].at]]
<1>1. UNCHANGED <<row, opening, listening, bindings, deletes, restore, restarts>>
  BY DEF HandleIngressRequest
<1>2. CASE conn' = [conn EXCEPT ![c] = Answered(conn[c])]
  <2>1. conn[c].at # None
    BY IngressTypes DEF HandleIngressRequest, Connection
  <2>3. Continue
    BY <1>2, <2>1, IngressTypes, Successors, OneContinues
  <2>2. NoDeadBinding'
    BY <1>1, BindingsLive DEF Draining
  <2>. QED BY <1>1, <2>2, <2>3, IngressTypes, FewerKeep DEF IngressInv, OpensOnce, Opens
<1>3. CASE bound # None /\ conn' = [conn EXCEPT ![c].stage = "reading", ![c].of = bound]
  <2> DEFINE new == [conn[c] EXCEPT !.stage = "reading", !.of = bound]
  <2>1. \A b \in Clients : conn'[b] = IF b = c THEN new ELSE conn[b]
    BY <1>3, IngressTypes
  <2>2. CASE conn[c].at \in Services
    <3>1. bound \in Services
      BY <1>3, <2>2, IngressTypes
    <3>2. new \in Connection /\ new.at = conn[c].at /\ new.of = bound
      BY <2>2, <3>1, IngressTypes DEF Connection
    <3>3. conn' \in [Clients -> Connection]
      BY <1>3, <2>1, <3>2, IngressTypes
    <3>4. IngressTypeOK'
      BY <1>1, <3>3, IngressTypes DEF IngressTypeOK, Rows, DeleteSlot, Connection
    <3>5. conn[c].at \in listening => bound = conn[c].at
      BY <1>3 DEF IngressInv, OwnBinding
    <3>6. OpenListenerServesOwn'
      BY <1>1, <2>1, <3>2, <3>5 DEF IngressInv, IngressSafe, OpenListenerServesOwn
    <3>7. NoDeadBinding' /\ OneListener' /\ OwnBinding'
      BY <1>1 DEF IngressInv, IngressSafe, NoDeadBinding, Draining, OneListener, OwnBinding
    <3>8. OpensOnce'
      BY <1>1, <2>1, <3>2 DEF IngressInv, OpensOnce, Opens
    <3>. QED BY <1>1, <3>3, <3>4, <3>6, <3>7, <3>8, IngressTypes DEF IngressInv, IngressSafe
  <2>. QED BY <2>2, IngressTypes DEF HandleIngressRequest, Connection
<1>. QED BY <1>2, <1>3 DEF HandleIngressRequest

(* A listener that comes up finds no other on its port, and is bound to it. *)
LEMMA ListenStep ==
  ASSUME IngressInv, NEW s \in Services, Listen(s)
  PROVE  IngressInv'
<1>1. /\ UNCHANGED <<row, deletes, conn, restarts>> /\ Continue
      /\ opening' \in SUBSET opening /\ restore' \in SUBSET restore
      /\ s \in opening /\ s \notin opening' \cup restore'
  BY NoneMoves DEF Listen
<1>2. \A t \in Services : Opens(t)' => Opens(t)
  BY <1>1 DEF Opens
<1>3. \A t \in opening' \cup restore' : row'[t] # "none"
  BY <1>1 DEF IngressInv, OpensOnce
<1>4. CASE UNCHANGED <<listening, bindings>>
  <2>1. NoDeadBinding'
    BY <1>1, <1>4, BindingsLive DEF Draining
  <2>. QED BY <1>1, <1>2, <1>3, <1>4, <2>1, IngressTypes, FewerKeep
<1>5. CASE /\ ~ \E t \in listening : PortOf[t] = PortOf[s]
           /\ listening' = listening \cup {s}
           /\ bindings' = [bindings EXCEPT ![PortOf[s]] = s]
  <2>1. IngressTypeOK'
    BY <1>1, <1>5, IngressTypes DEF IngressTypeOK, Rows, DeleteSlot, Connection
  <2>2. \A c \in Clients : conn[c].at # s
    BY <1>1 DEF IngressInv, OpensOnce, Opens
  <2>3. OpenListenerServesOwn'
    BY <1>1, <1>5, <2>2 DEF IngressInv, IngressSafe, OpenListenerServesOwn
  <2>4. ASSUME NEW p \in Ports, NEW t \in Services, bindings'[p] = t
        PROVE  PortOf[t] = p /\ (t \in listening' \/ Draining(t)' # {})
    BY <1>1, <1>5, <2>4, IngressTypes DEF IngressInv, IngressSafe, NoDeadBinding, Draining
  <2>5. NoDeadBinding'
    BY <2>4 DEF NoDeadBinding
  <2>6. OneListener'
    BY <1>5 DEF IngressInv, OneListener
  <2>7. ASSUME NEW t \in listening' PROVE bindings'[PortOf[t]] \in {t, None}
    BY <1>5, <2>7, IngressTypes DEF IngressInv, OwnBinding
  <2>8. row[s] # "none"
    BY <1>1 DEF IngressInv, OpensOnce
  <2>9. OpensOnce'
    BY <1>1, <1>2, <1>3, <1>5, <2>8 DEF IngressInv, OpensOnce, Opens
  <2>. QED BY <1>1, <2>1, <2>3, <2>5, <2>6, <2>7, <2>9 DEF IngressInv, IngressSafe, OwnBinding
<1>. QED BY <1>4, <1>5 DEF Listen, Bind

(* The listener of a service whose DELETE finds its binding is closed: the *)
(* binding is left to the DELETE.                                          *)
LEMMA CloseStepKeeps ==
  ASSUME IngressInv, NEW d \in Deletes, CloseIngress(d)
  PROVE  IngressInv'
<1> DEFINE s == deletes[d].of
<1>1. UNCHANGED <<row, opening, bindings, restore, restarts>>
  BY DEF CloseIngress
<1>2. \A t \in Services : Opens(t)' => Opens(t)
  BY <1>1 DEF Opens
<1>3. \A t \in opening' \cup restore' : row'[t] # "none"
  BY <1>1 DEF IngressInv, OpensOnce
<1>4. deletes[d] \in DeleteSlot /\ deletes[d].stage = "close"
  BY IngressTypes DEF CloseIngress
<1>5. CASE deletes' = [deletes EXCEPT ![d].stage = "row"] /\ UNCHANGED <<conn, listening>>
  <2>1. [deletes[d] EXCEPT !.stage = "row"] \in DeleteSlot
    BY <1>4 DEF DeleteSlot
  <2>2. deletes' \in [Deletes -> DeleteSlot]
        /\ \A e \in Deletes \ {d} : deletes'[e] = deletes[e]
    BY <1>5, <2>1, IngressTypes
  <2>3. \A t \in Services : Draining(t) # {} => Draining(t)' # {}
    BY <1>4, <2>2 DEF Draining
  <2>4. NoDeadBinding' /\ Continue
    BY <1>1, <1>5, <2>3, BindingsLive, NoneMoves
  <2>. QED BY <1>1, <1>2, <1>3, <1>5, <2>2, <2>4, IngressTypes, FewerKeep
<1>6. CASE /\ \E p \in Ports : bindings[p] = s
           /\ conn' = [c \in Clients |-> Dropped(s, Aborted(s, conn[c]))]
           /\ listening' = listening \ {s}
           /\ deletes' = [deletes EXCEPT ![d].stage = "drain"]
  <2>1. [deletes[d] EXCEPT !.stage = "drain"] \in DeleteSlot
        /\ [deletes[d] EXCEPT !.stage = "drain"] = [stage |-> "drain", of |-> s]
    BY <1>4 DEF DeleteSlot
  <2>2. /\ deletes' \in [Deletes -> DeleteSlot]
        /\ \A e \in Deletes \ {d} : deletes'[e] = deletes[e]
        /\ deletes'[d] = [stage |-> "drain", of |-> s]
    BY <1>6, <2>1, IngressTypes
  <2>3. ASSUME NEW t \in Services PROVE Draining(t) \subseteq Draining(t)'
    BY <1>4, <2>2 DEF Draining
  <2>5. ASSUME NEW p \in Ports, NEW t \in Services, bindings'[p] = t
        PROVE  PortOf[t] = p /\ (t \in listening' \/ Draining(t)' # {})
    <3>1. bindings[p] = t
      BY <1>1, <2>5
    <3>2. PortOf[t] = p /\ (t \in listening \/ Draining(t) # {})
      BY <3>1 DEF IngressInv, IngressSafe, NoDeadBinding
    <3>3. CASE t = s
      <4>1. Draining(t)' = {e \in Deletes : deletes'[e] = [stage |-> "drain", of |-> t]}
        BY DEF Draining
      <4>. QED BY <3>2, <3>3, <4>1, <2>2
    <3>4. CASE t # s
      BY <1>6, <3>2, <3>4, <2>3
    <3>. QED BY <3>3, <3>4
  <2>6. NoDeadBinding'
    BY <2>5 DEF NoDeadBinding
  <2>7. s \in Services
    BY <1>4 DEF DeleteSlot
  <2>8. ASSUME NEW c \in Clients
        PROVE  Successor(conn[c], conn'[c]) /\ conn'[c] \in Connection
    <3>1. Successor(conn[c], Dropped(s, Aborted(s, conn[c])))
      BY <2>7, IngressTypes, Successors
    <3>. QED BY <1>6, <3>1 DEF Successor
  <2>9. Continue
    BY <1>6, <2>8 DEF Continue
  <2>. QED BY <1>1, <1>2, <1>3, <1>6, <2>2, <2>6, <2>9, IngressTypes, FewerKeep
<1>. QED BY <1>5, <1>6 DEF CloseIngress

(* The port's binding is dropped by all that waited. *)
LEMMA ClosedStepKeeps ==
  ASSUME IngressInv, NEW s \in Services, ListenerClosed(s)
  PROVE  IngressInv'
<1>1. /\ UNCHANGED <<row, opening, listening, restore, conn, restarts>>
      /\ bindings' = [bindings EXCEPT ![PortOf[s]] = None]
      /\ deletes' = [d \in Deletes |->
            IF d \in Draining(s) THEN [stage |-> "row", of |-> s] ELSE deletes[d]]
  BY DEF ListenerClosed
<1>2. deletes' \in [Deletes -> DeleteSlot]
  BY <1>1, IngressTypes DEF DeleteSlot
<1>3. /\ bindings' \in [Ports -> Services \cup {None}]
      /\ \A p \in Ports : bindings'[p] = IF p = PortOf[s] THEN None ELSE bindings[p]
  BY <1>1, IngressTypes
<1>4. ASSUME NEW p \in Ports, NEW t \in Services, bindings'[p] = t
      PROVE  PortOf[t] = p /\ (t \in listening' \/ Draining(t)' # {})
  <2>1. p # PortOf[s] /\ bindings[p] = t
    BY <1>3, <1>4, IngressTypes
  <2>2. PortOf[t] = p /\ (t \in listening \/ Draining(t) # {})
    BY <2>1 DEF IngressInv, IngressSafe, NoDeadBinding
  <2>3. t # s
    BY <2>1, <2>2
  <2>4. Draining(t) \subseteq Draining(t)'
    BY <1>1, <2>3 DEF Draining
  <2>. QED BY <1>1, <2>2, <2>4
<1>5. NoDeadBinding'
  BY <1>4 DEF NoDeadBinding
<1>. QED BY <1>1, <1>2, <1>3, <1>5, NoneMoves, IngressTypes, FewerKeep
         DEF IngressInv, OpensOnce, Opens

(* Rows and DELETEs, listeners and bindings left alone. *)
LEMMA RowSteps ==
  ASSUME IngressInv, UNCHANGED <<listening, bindings, conn, restarts>>,
         row' \in Rows, \A s \in Services : row[s] # "none" => row'[s] # "none",
         UNCHANGED <<opening, restore>>,
         deletes' \in [Deletes -> DeleteSlot],
         \A d \in Deletes : deletes[d].stage = "drain" => deletes'[d] = deletes[d]
  PROVE  IngressInv'
<1>1. \A s \in Services : Draining(s) \subseteq Draining(s)'
  BY DEF Draining
<1>2. NoDeadBinding'
  BY <1>1, BindingsLive
<1>3. \A s \in Services : Opens(s)' => Opens(s)
  BY DEF Opens
<1>4. \A s \in opening' \cup restore' : row'[s] # "none"
  BY IngressTypes DEF IngressInv, OpensOnce
<1>. QED BY <1>2, <1>3, <1>4, NoneMoves, IngressTypes, FewerKeep

LEMMA DeleteSteps ==
  ASSUME IngressInv, NEW d \in Deletes,
         RowDeleted(d) \/ \E s \in Services : DeleteService(d, s)
  PROVE  IngressInv'
<1>1. UNCHANGED <<opening, listening, bindings, restore, conn, restarts>>
  BY DEF RowDeleted, DeleteService
<1>2. row' \in Rows /\ \A s \in Services : row[s] # "none" => row'[s] # "none"
  BY IngressTypes DEF RowDeleted, DeleteService, Rows
<1>3. \E new \in DeleteSlot : deletes' = [deletes EXCEPT ![d] = new]
  <2>1. NoDelete \in DeleteSlot
        /\ \A s \in Services : [stage |-> "close", of |-> s] \in DeleteSlot
    BY IngressTypes DEF DeleteSlot, NoDelete
  <2>. QED BY <2>1 DEF RowDeleted, DeleteService
<1>4. deletes[d].stage # "drain"
  BY DEF RowDeleted, DeleteService, NoDelete
<1>5. /\ deletes' \in [Deletes -> DeleteSlot]
      /\ \A e \in Deletes : deletes[e].stage = "drain" => deletes'[e] = deletes[e]
  BY <1>3, <1>4, IngressTypes
<1>. QED BY <1>1, <1>2, <1>5, RowSteps

(* A service is created, or its turn comes after a restart. *)
LEMMA OpenSteps ==
  ASSUME IngressInv, NEW s \in Services, CreateService(s) \/ RestoreIngress(s)
  PROVE  IngressInv'
<1>1. UNCHANGED <<listening, bindings, deletes, conn, restarts>>
  BY DEF CreateService, RestoreIngress
<1>2. /\ opening' \subseteq opening \cup {s} /\ restore' \subseteq restore
      /\ Opens(s) /\ row'[s] # "none"
      /\ row' \in Rows /\ \A t \in Services \ {s} : row'[t] = row[t]
  BY IngressTypes DEF CreateService, RestoreIngress, OpenIngress, Opens, Rows, IngressInv, OpensOnce
<1>3. \A t \in Services : Opens(t)' => Opens(t)
  BY <1>2 DEF Opens
<1>4. opening' \in SUBSET Services /\ restore' \in SUBSET Services
  BY <1>2, IngressTypes
<1>5. \A t \in opening' \cup restore' : row'[t] # "none"
  BY <1>2, <1>4, IngressTypes DEF IngressInv, OpensOnce
<1>6. NoDeadBinding'
  BY <1>1, BindingsLive DEF Draining
<1>. QED BY <1>1, <1>2, <1>3, <1>4, <1>5, <1>6, NoneMoves, IngressTypes, FewerKeep

LEMMA RestartKeeps ==
  ASSUME IngressInv, IngressRestarts
  PROVE  IngressInv'
<1>1. /\ listening' = {} /\ opening' = {} /\ row' = row
      /\ bindings' = [p \in Ports |-> None] /\ deletes' = [d \in Deletes |-> NoDelete]
      /\ conn' = [c \in Clients |-> Closed]
      /\ restore' = {s \in Services : row[s] = "active"}
      /\ restarts < MaxRestarts /\ restarts' = restarts + 1
  BY DEF IngressRestarts
<1>2. Closed \in Connection /\ Closed.at = None /\ Closed.of = None /\ NoDelete \in DeleteSlot
  BY DEF Closed, Connection, NoDelete, DeleteSlot
<1>3. restarts' \in 0 .. MaxRestarts
  BY <1>1, IngressTypes, IngressAssumption
<1>4. /\ IngressTypeOK' /\ conn' \in [Clients -> Connection]
      /\ deletes' \in [Deletes -> DeleteSlot]
  BY <1>1, <1>2, <1>3, IngressTypes DEF IngressTypeOK, Rows, DeleteSlot, Connection
<1>5. OpenListenerServesOwn' /\ OneListener' /\ OwnBinding'
  BY <1>1 DEF OpenListenerServesOwn, OneListener, OwnBinding
<1>6. NoDeadBinding'
  BY <1>1, IngressAssumption DEF NoDeadBinding
<1>7. OpensOnce'
  BY <1>1, <1>2, IngressTypes DEF OpensOnce
<1>. QED BY <1>4, <1>5, <1>6, <1>7 DEF IngressInv, IngressSafe

LEMMA IngressInductive == IngressInv /\ [IngressNext]_ingressVars => IngressInv'
<1> SUFFICES ASSUME IngressInv, [IngressNext]_ingressVars PROVE IngressInv'
  OBVIOUS
<1>1. ASSUME NEW s \in Services, CreateService(s) \/ RestoreIngress(s) PROVE IngressInv'
  BY <1>1, OpenSteps
<1>2. ASSUME NEW s \in Services, Listen(s) PROVE IngressInv'
  BY <1>2, ListenStep
<1>3. ASSUME NEW s \in Services, ListenerClosed(s) PROVE IngressInv'
  BY <1>3, ClosedStepKeeps
<1>4. ASSUME NEW s \in Services, NEW c \in Clients, Connect(c, s) PROVE IngressInv'
  BY <1>4, ConnectStep
<1>5. ASSUME NEW d \in Deletes, RowDeleted(d) \/ \E s \in Services : DeleteService(d, s)
      PROVE  IngressInv'
  BY <1>5, DeleteSteps
<1>6. ASSUME NEW d \in Deletes, CloseIngress(d) PROVE IngressInv'
  BY <1>6, CloseStepKeeps
<1>7. ASSUME NEW c \in Clients, HandleIngressRequest(c) PROVE IngressInv'
  BY <1>7, LookUpStep
<1>8. ASSUME NEW c \in Clients,
             \/ Reuse(c) \/ RouteToPod(c) \/ HandleIngressResponse(c) \/ Timeout(c)
             \/ KeepAliveEnds(c) \/ CutOff(c) \/ ClientLeaves(c)
      PROVE  IngressInv'
  BY <1>8, ConnectionSteps
<1>9. CASE IngressRestarts
  BY <1>9, RestartKeeps
<1>10. CASE UNCHANGED ingressVars
  BY <1>10, IngressTypes, RowSteps DEF ingressVars
<1>. QED BY <1>1, <1>2, <1>3, <1>4, <1>5, <1>6, <1>7, <1>8, <1>9, <1>10 DEF IngressNext

(* Whoever deletes, creates or restores services, and whatever clients send *)
(* on connections they kept: what a listener that is open has accepted is   *)
(* relayed to pods of its own service or refused, and a port stays claimed  *)
(* by an open listener or one whose DELETE is about to give it up only.     *)
THEOREM OpenIngressIsSafe == IngressSpec => []IngressSafe
<1>1. IngressInit => IngressInv
  <2> SUFFICES ASSUME IngressInit PROVE IngressInv
    OBVIOUS
  <2>1. Closed \in Connection /\ Closed.at = None /\ NoDelete \in DeleteSlot
    BY DEF Closed, Connection, NoDelete, DeleteSlot
  <2>2. /\ IngressTypeOK /\ conn \in [Clients -> Connection]
        /\ deletes \in [Deletes -> DeleteSlot]
    BY <2>1, IngressAssumption DEF IngressInit, IngressTypeOK, DeleteSlot, Connection
  <2>3. OpenListenerServesOwn /\ NoDeadBinding /\ OneListener /\ OwnBinding
    BY IngressAssumption DEF IngressInit, OpenListenerServesOwn, NoDeadBinding, OneListener, OwnBinding
  <2>4. OpensOnce
    BY <2>1, IngressAssumption DEF IngressInit, OpensOnce
  <2>. QED BY <2>2, <2>3, <2>4 DEF IngressInv, IngressSafe
<1>2. IngressInv => IngressSafe
  BY DEF IngressInv
<1>. QED BY <1>1, <1>2, IngressInductive, PTL DEF IngressSpec

=============================================================================
