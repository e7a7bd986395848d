------------------------------ MODULE NodeAgent ------------------------------
(***************************************************************************)
(* A node agent: its pods (PodRuntime), its connection (AgentConnection),  *)
(* and what the server knows of the pods.  The agent reports a status the  *)
(* moment it changes, if it is registered then, and once more, as the list *)
(* of pods that run, when it reconnects.  Nothing is kept for later.       *)
(*                                                                         *)
(* The browser's agent has the same connection but another executor: its   *)
(* pods are not modelled.                                                  *)
(***************************************************************************)
EXTENDS AgentConnection, PodRuntime

VARIABLES
  row,         (* table pods: none, active, ended or deleted                *)
  listed,      (* runningPodIds of the reconnect each socket's greeting led to *)
  unlisted     (* history: active pods that ended while the agent was       *)
               (* getting registered                                        *)

serverVars == <<row, listed, unlisted>>
idleVars == <<session, state, ws, socket, authed, requests, timerVars, refusals>>
vars == <<connVars, podVars, serverVars>>

Init ==
  /\ ConnInit
  /\ PodInit
  /\ row = [p \in Pods |-> "none"]
  /\ listed = [s \in Sockets |-> {}]
  /\ unlisted = {}

(* Registered, on a socket over which the server hears the agent.          *)
Reachable == state = "registered" /\ ws \in authed /\ socket[ws] \in Up

(* The server may command a node as soon as one of its sockets is known.   *)
Commandable == nodeRow /\ \E s \in authed : socket[s] \in Up

(* Mutant: every pod the agent has heard of is listed. *)
EveryPod == {p \in Pods : status[p] # "none"}

(* getRunningPods *)
RunningPods == {p \in Pods : status[p] = "running"}

-----------------------------------------------------------------------------
(* handlePodStatusChange sends the status unless the agent is not          *)
(* registered; what is sent on a lost socket is lost.  (The row of a pod   *)
(* that is deployed is there before.)                                      *)
Row(p) ==
  LET changed  == status'[p] \notin {status[p], "stopping"}
      reported == IF status'[p] \in Terminal THEN "ended" ELSE "active"
      new      == CASE row[p] = "deleted" -> "deleted"
                    [] row[p] # "deleted" /\ Reachable /\ changed -> reported
                    [] OTHER -> IF row[p] = "none" THEN "active" ELSE row[p]
  IN  [row EXCEPT ![p] = new]

PodEvent(p) ==
  /\ runtime = "node"
  /\ \/ Commanded(p) /\ Commandable /\ UNCHANGED connVars
     \/ (Handled(p) \/ Happens(p)) /\ UNCHANGED connVars
     \/ DeployFails(p) /\ Commandable /\ Fault /\ UNCHANGED idleVars
     \/ Fails(p) /\ Fault /\ UNCHANGED idleVars
  /\ row' = Row(p)
  /\ unlisted' = IF status'[p] \in Terminal /\ row'[p] = "active" /\ requests # {}
                 THEN unlisted \cup {p} ELSE unlisted
  /\ UNCHANGED listed

-----------------------------------------------------------------------------
(* The requests to reconnect that a step sends, and those the server       *)
(* answers in it: rows of pods the node does not list have ended.          *)
Sent == {r \in requests' \ requests : r.kind = "reconnect" /\ r.answer = "none"}
Accepted == {r \in requests : r.kind = "reconnect" /\ r.answer = "none"
                               /\ [r EXCEPT !.answer = "ok"] \in requests'}

ConnEvent ==
  /\ ConnStep
  /\ listed' = [s \in Sockets |->
       IF \E r \in Sent : r.of = s THEN RunningPods
       ELSE IF \E r \in requests' : r.of = s /\ r.kind = "reconnect" /\ r.answer = "none"
            THEN listed[s] ELSE {}]
  /\ row' = [p \in Pods |->
       CASE row[p] # "none" /\ nodeRow /\ ~ nodeRow' -> "deleted"
         [] row[p] = "active" /\ \E r \in Accepted : p \notin listed[r.of] -> "ended"
         [] OTHER -> row[p]]
  /\ unlisted' = {p \in unlisted : row'[p] = "active"}
  /\ UNCHANGED podVars

(* A node that is not heard of loses its pods (NodeLease). *)
Revoke(p) ==
  /\ ~ Reachable /\ row[p] = "active"
  /\ row' = [row EXCEPT ![p] = "ended"]
  /\ unlisted' = unlisted \ {p}
  /\ UNCHANGED <<connVars, podVars, listed>>

-----------------------------------------------------------------------------
Next == ConnEvent \/ \E p \in Pods : PodEvent(p) \/ Revoke(p)

Spec == Init /\ [][Next]_vars

(* As in the two components; and leases run out. *)
Fairness ==
  /\ WF_vars(ConnEvent /\ \E r \in requests : AgentStep(r) \/ ServerStep(r))
  /\ WF_vars(ConnEvent /\ \E s \in Sockets : SocketStep(s))
  /\ \A p \in Pods : WF_vars(PodEvent(p) /\ Handled(p)) /\ WF_vars(Revoke(p))

FairSpec == Spec /\ Fairness

-----------------------------------------------------------------------------
TypeOK ==
  /\ ConnTypeOK
  /\ PodTypeOK
  /\ row \in [Pods -> {"none", "active", "ended", "deleted"}]
  /\ listed \in [Sockets -> SUBSET Pods]
  /\ unlisted \in SUBSET Pods

(* The agent's account of its pods: it claims no more than it holds, and   *)
(* what it calls ended does not work, whatever its connection goes through.*)
AgentSafe == TypeOK /\ AllocatedNeverOver /\ EndedPodsAreDead

(* The agent always waits for something that brings it back, and the       *)
(* browser's agent for one thing only.                                     *)
ReconnectSafe == NeverForgets /\ OneReconnect

(* The server learns of every end: by the report, by the next list of      *)
(* running pods, or because the lease runs out; except for pods that end   *)
(* between the list and the answer to it.                                  *)
EndIsKnown ==
  \A p \in Pods : status[p] \in Terminal /\ row[p] = "active"
                    ~> row[p] # "active" \/ p \in unlisted

(* Ends are noticed on the node and become known to the server. *)
EndsAreKnown == EndsAreNoticed /\ EndIsKnown

=============================================================================
