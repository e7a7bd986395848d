-------------------------------- MODULE Ingress --------------------------------
(***************************************************************************)
(* The ingress manager: a service with an ingress port gets a listener on  *)
(* it, requests to the listener are relayed to a pod, and a request waits  *)
(* for the pod's answer, a timeout, or the removal of the service.         *)
(*                                                                         *)
(* Opening awaits the certificates and the port, closing awaits the end of *)
(* every connection of the listener, and both are called from HTTP         *)
(* handlers and from the start of the server, which await them in turn.    *)
(* That several services ask for one port is decided by the bindings map   *)
(* and by the operating system.                                            *)
(*                                                                         *)
(* Clients keep their connections: a listener that is closed takes no new  *)
(* ones, but the requests of those it has go on being handled, by the      *)
(* binding the port has at the time.  The HTTP server is Node's (external): *)
(* it drops idle connections, when they idle too long and when it is       *)
(* closed, and cuts off a request that is not complete in time, but no     *)
(* longer once it is closed.                                               *)
(***************************************************************************)
EXTENDS Integers, FiniteSets

CONSTANTS Services, Ports,
          Clients,       (* connections clients may have open at a time     *)
          Deletes,       (* bound: DELETE requests under way at a time      *)
          PortOf,        (* [Services -> Ports]: ingressPort                *)
          None,
          MaxRestarts    (* bound: restarts of the server                   *)

ASSUME IngressAssumption ==
  /\ PortOf \in [Services -> Ports]
  /\ None \notin Services
  /\ MaxRestarts \in Nat

VARIABLES
  row,         (* the service's row: "none", "active", "deleting", "gone"   *)
  opening,     (* services whose openIngress has passed its test            *)
  listening,   (* services whose listener holds their port                  *)
  bindings,    (* bindings: port -> service, or None                        *)
  deletes,     (* stage and service of every DELETE under way               *)
  restore,     (* services read from the database whose turn is not over    *)
  conn,        (* stage, listener and service (once looked up) of every     *)
               (* connection and of the request on it                       *)
  restarts     (* bound                                                     *)

ingressVars == <<row, opening, listening, bindings, deletes, restore, conn, restarts>>

Closed == [stage |-> "closed", at |-> None, of |-> None]
NoDelete == [stage |-> "no", of |-> None]

IngressInit ==
  /\ row = [s \in Services |-> "none"]
  /\ opening = {} /\ listening = {} /\ restore = {}
  /\ bindings = [p \in Ports |-> None]
  /\ deletes = [d \in Deletes |-> NoDelete]
  /\ conn = [c \in Clients |-> Closed]
  /\ restarts = 0

-----------------------------------------------------------------------------
(* openIngress *)

(* Nobody else may have claimed the port; a service's own binding makes    *)
(* the call a no-op.                                                       *)
OpenIngress(s) ==
  opening' = IF bindings[PortOf[s]] = None THEN opening \cup {s} ELSE opening

(* POST /api/services *)
CreateService(s) ==
  /\ row[s] = "none"
  /\ row' = [row EXCEPT ![s] = "active"]
  /\ OpenIngress(s)
  /\ UNCHANGED <<listening, bindings, deletes, restore, conn, restarts>>

(* Mutant: a binding that is there stays. *)
BindIfFree(s) ==
  bindings' = [bindings EXCEPT ![PortOf[s]] = IF @ = None THEN s ELSE @]

Bind(s) == bindings' = [bindings EXCEPT ![PortOf[s]] = s]

(* listen() succeeds if no other listener holds the port, and the binding  *)
(* is made in the same turn; otherwise the service stays without.          *)
Listen(s) ==
  /\ s \in opening
  /\ opening' = opening \ {s} /\ restore' = restore \ {s}
  /\ \/ /\ \E t \in listening : PortOf[t] = PortOf[s]
        /\ UNCHANGED <<listening, bindings>>
     \/ /\ ~ \E t \in listening : PortOf[t] = PortOf[s]
        /\ listening' = listening \cup {s}
        /\ Bind(s)
  /\ UNCHANGED <<row, deletes, conn, restarts>>

-----------------------------------------------------------------------------
(* Connections and requests *)

Goes(c, stage) == conn' = [conn EXCEPT ![c].stage = stage]

(* The request on the connection is answered. *)
Answered(k) == [k EXCEPT !.stage = "idle", !.of = None]

(* Only a listener accepts connections; a request is on its way.           *)
Connect(c, s) ==
  /\ conn[c] = Closed /\ s \in listening
  /\ conn' = [conn EXCEPT ![c] = [stage |-> "sending", at |-> s, of |-> None]]
  /\ UNCHANGED <<row, opening, listening, bindings, deletes, restore, restarts>>

(* A kept connection carries its client's next request, whether or not the *)
(* listener has been closed since.                                         *)
Reuse(c) ==
  /\ conn[c].stage = "idle"
  /\ Goes(c, "sending")
  /\ UNCHANGED <<row, opening, listening, bindings, deletes, restore, restarts>>

(* The head has arrived: the binding is looked up by port.  Without one    *)
(* the answer is 502; the network policy may deny the request, with 403.   *)
HandleIngressRequest(c) ==
  /\ conn[c].stage = "sending"
  /\ LET bound == bindings[PortOf[conn[c].at]] IN
     \/ conn' = [conn EXCEPT ![c] = Answered(@)]
     \/ bound # None /\ conn' = [conn EXCEPT ![c].stage = "reading", ![c].of = bound]
  /\ UNCHANGED <<row, opening, listening, bindings, deletes, restore, restarts>>

(* The body is complete: the request is sent to a pod and waits, or is     *)
(* answered with 503; a read error answers it too.                         *)
RouteToPod(c) ==
  /\ conn[c].stage = "reading"
  /\ \/ Goes(c, "pending")
     \/ conn' = [conn EXCEPT ![c] = Answered(@)]
  /\ UNCHANGED <<row, opening, listening, bindings, deletes, restore, restarts>>

(* A pod's answer; one that is late finds nothing pending. *)
HandleIngressResponse(c) ==
  /\ conn[c].stage = "pending"
  /\ conn' = [conn EXCEPT ![c] = Answered(@)]
  /\ UNCHANGED <<row, opening, listening, bindings, deletes, restore, restarts>>


Pending(c) == conn[c].stage = "pending"

Timeout(c) ==
  /\ Pending(c)
  /\ conn' = [conn EXCEPT ![c] = Answered(@)]
  /\ UNCHANGED <<row, opening, listening, bindings, deletes, restore, restarts>>

Close(c) ==
  /\ conn' = [conn EXCEPT ![c] = Closed]
  /\ UNCHANGED <<row, opening, listening, bindings, deletes, restore, restarts>>

(* Node's timeouts: of an idle connection, at any time; of a request that  *)
(* is not complete, while the server is not closed.                        *)
KeepAliveEnds(c) == conn[c].stage = "idle" /\ Close(c)
CutOff(c) ==
  /\ conn[c].stage \in {"sending", "reading"} /\ conn[c].at \in listening
  /\ Close(c)

(* What was pending times out unseen. *)
ClientLeaves(c) == conn[c] # Closed /\ Close(c)

-----------------------------------------------------------------------------
(* closeIngress *)

(* DELETE /api/services/:id: the row is marked first, which may fail       *)
(* without notice, and nobody asks whether another DELETE is under way or  *)
(* the service is gone.                                                    *)
DeleteService(d, s) ==
  /\ row[s] # "none" /\ deletes[d] = NoDelete
  /\ row' \in {row, [row EXCEPT ![s] = IF @ = "gone" THEN @ ELSE "deleting"]}
  /\ deletes' = [deletes EXCEPT ![d] = [stage |-> "close", of |-> s]]
  /\ UNCHANGED <<opening, listening, bindings, restore, conn, restarts>>

(* Pending requests of the service, on whichever listener's connection,    *)
(* are answered with 503; those whose body is still being read are not     *)
(* pending yet.                                                            *)
Aborted(s, k) == IF k.stage = "pending" /\ k.of = s THEN Answered(k) ELSE k

(* close() drops the listener's connections that are idle, those just      *)
(* answered among them.                                                    *)
Dropped(s, k) == IF k.stage = "idle" /\ k.at = s THEN Closed ELSE k

(* The binding is looked up by service: an opening that is under way has   *)
(* none yet.  The listener takes no new connections from here on.          *)
CloseIngress(d) ==
  /\ deletes[d].stage = "close"
  /\ LET s == deletes[d].of IN
     \/ /\ \E p \in Ports : bindings[p] = s
        /\ conn' = [c \in Clients |-> Dropped(s, Aborted(s, conn[c]))]
        /\ listening' = listening \ {s}
        /\ deletes' = [deletes EXCEPT ![d].stage = "drain"]
     \/ /\ ~ \E p \in Ports : bindings[p] = s
        /\ deletes' = [deletes EXCEPT ![d].stage = "row"]
        /\ UNCHANGED <<conn, listening>>
  /\ UNCHANGED <<row, opening, bindings, restore, restarts>>

Draining(s) == {d \in Deletes : deletes[d] = [stage |-> "drain", of |-> s]}

(* The last connection of the listener is closed: every close() that waits *)
(* for it calls back, and the binding of the port is dropped, whoever's it *)
(* is by now.                                                              *)
ListenerClosed(s) ==
  /\ Draining(s) # {}
  /\ \A c \in Clients : conn[c].at # s
  /\ bindings' = [bindings EXCEPT ![PortOf[s]] = None]
  /\ deletes' = [d \in Deletes |->
       IF d \in Draining(s) THEN [stage |-> "row", of |-> s] ELSE deletes[d]]
  /\ UNCHANGED <<row, opening, listening, restore, conn, restarts>>

(* The row is deleted, or the error is reported and it stays. *)
RowDeleted(d) ==
  /\ deletes[d].stage = "row"
  /\ row' \in {row, [row EXCEPT ![deletes[d].of] = "gone"]}
  /\ deletes' = [deletes EXCEPT ![d] = NoDelete]
  /\ UNCHANGED <<opening, listening, bindings, restore, conn, restarts>>

-----------------------------------------------------------------------------
(* The server stops and starts again: callers are cut off, the active      *)
(* services are read, and their listeners opened one after the other.      *)
IngressRestarts ==
  /\ restarts < MaxRestarts /\ restarts' = restarts + 1
  /\ opening' = {} /\ listening' = {}
  /\ bindings' = [p \in Ports |-> None]
  /\ deletes' = [d \in Deletes |-> NoDelete]
  /\ conn' = [c \in Clients |-> Closed]
  /\ restore' = {s \in Services : row[s] = "active"}
  /\ UNCHANGED row

RestoreIngress(s) ==
  /\ s \in restore /\ restore \cap opening = {}
  /\ OpenIngress(s)
  /\ restore' = IF s \in opening' THEN restore ELSE restore \ {s}
  /\ UNCHANGED <<row, listening, bindings, deletes, conn, restarts>>

-----------------------------------------------------------------------------
IngressNext ==
  \/ \E s \in Services :
       \/ CreateService(s) \/ Listen(s) \/ ListenerClosed(s) \/ RestoreIngress(s)
       \/ \E c \in Clients : Connect(c, s)
       \/ \E d \in Deletes : DeleteService(d, s)
  \/ \E d \in Deletes : CloseIngress(d) \/ RowDeleted(d)
  \/ \E c \in Clients :
       \/ Reuse(c) \/ HandleIngressRequest(c) \/ RouteToPod(c) \/ HandleIngressResponse(c)
       \/ Timeout(c) \/ KeepAliveEnds(c) \/ CutOff(c) \/ ClientLeaves(c)
  \/ IngressRestarts

(* Awaited operations settle, timers fire.  That a client completes its    *)
(* request, stops sending more or leaves, or that a pod answers, is not    *)
(* fair.                                                                   *)
IngressFairness ==
  /\ \A s \in Services :
       /\ WF_ingressVars(Listen(s)) /\ WF_ingressVars(ListenerClosed(s))
       /\ WF_ingressVars(RestoreIngress(s))
  /\ \A d \in Deletes : WF_ingressVars(CloseIngress(d)) /\ WF_ingressVars(RowDeleted(d))
  /\ \A c \in Clients :
       /\ WF_ingressVars(Timeout(c)) /\ WF_ingressVars(KeepAliveEnds(c))
       /\ WF_ingressVars(CutOff(c))

IngressSpec == IngressInit /\ [][IngressNext]_ingressVars

FairIngressSpec == IngressSpec /\ IngressFairness

-----------------------------------------------------------------------------
IngressTypeOK ==
  /\ row \in [Services -> {"none", "active", "deleting", "gone"}]
  /\ opening \in SUBSET Services /\ listening \in SUBSET Services
  /\ restore \in SUBSET Services
  /\ bindings \in [Ports -> Services \cup {None}]
  /\ deletes \in [Deletes -> [stage : {"no", "close", "drain", "row"},
                              of : Services \cup {None}]]
  /\ conn \in [Clients -> [stage : {"closed", "idle", "sending", "reading", "pending"},
                           at : Services \cup {None}, of : Services \cup {None}]]
  /\ restarts \in 0 .. MaxRestarts

(* While a service's listener is open, what it accepts is relayed to pods  *)
(* of that service or refused, although the port it got may have been given *)
(* up by another service that is still draining and drops the port's       *)
(* binding when it has.                                                    *)
OpenListenerServesOwn ==
  \A c \in Clients : conn[c].at \in listening => conn[c].of \in {None, conn[c].at}

(* A binding that stays claims its port for good: it belongs to an open    *)
(* listener, or a DELETE is about to drop it.                              *)
NoDeadBinding ==
  \A p \in Ports, s \in Services : bindings[p] = s =>
    PortOf[s] = p /\ (s \in listening \/ Draining(s) # {})

IngressSafe == IngressTypeOK /\ OpenListenerServesOwn /\ NoDeadBinding


(* A client keeps the listener from closing by what it has yet to send. *)
Held(s) == \E c \in Clients : conn[c].at = s /\ conn[c].stage \in {"sending", "reading"}


(* What the code's comments say and the code does not keep (README); TLC    *)
(* refutes each, and no run is kept of them.                               *)

(* What the header says (line 13): the listener goes when its service is   *)
(* removed.                                                                *)
RemovedServicesGoSilent ==
  \A s \in Services : row[s] = "gone" ~> s \notin listening /\ s \notin opening

(* What the header says (line 8): a listener forwards requests to its own  *)
(* service's pods; those of a connection kept across a close are not.      *)
OwnRequestsOnly == \A c \in Clients : conn[c].of \in {None, conn[c].at}

(* A DELETE ends, whatever clients do. *)
EveryDeleteEnds == \A d \in Deletes : deletes[d] # NoDelete ~> deletes[d] = NoDelete

=============================================================================
