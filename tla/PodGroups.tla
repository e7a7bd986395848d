------------------------------- MODULE PodGroups -------------------------------
(***************************************************************************)
(* A pod's membership in pod groups, over the connection of PodRouting:    *)
(* the pod sends group requests on its stack's socket, the server answers  *)
(* them on connections a pod has registered on, and every way the server   *)
(* loses sight of the pod takes it out of its groups.  Every step of       *)
(* PodRouting is joined with what it does to the membership.               *)
(*                                                                         *)
(* One group stands for all of them; that a membership lapses, and how the *)
(* store keeps it, is PodGroupStore.                                       *)
(***************************************************************************)
EXTENDS PodRouting

VARIABLES
  asks,     (* sockets with a group request under way *)
  member    (* the pod is in a group                  *)

groupVars == <<asks, member>>
allVars == <<vars, groupVars>>

GroupInit == Init /\ asks = {} /\ member = FALSE

-----------------------------------------------------------------------------
(* groupRequest: sent over the stack's own socket, or dropped. *)
GroupRequest ==
  /\ ws # 0 /\ client[ws] = "open"
  /\ asks' = asks \cup {ws}
  /\ UNCHANGED <<vars, member>>

(* Mutant: whoever asks is let in. *)
AuthenticatedAll(s) == s \in server

(* A connection is authenticated by the pod's registration on it. *)
Authenticated(s) == s \in podsOf

HandleRequest(s) ==
  /\ s \in asks /\ s \in server
  /\ asks' = asks \ {s}
  /\ UNCHANGED vars

HandleJoin(s) == HandleRequest(s) /\ Authenticated(s) /\ member' = TRUE

(* group:leave and group:leave-all *)
HandleLeave(s) == HandleRequest(s) /\ Authenticated(s) /\ member' = FALSE

RefuseRequest(s) == HandleRequest(s) /\ ~ Authenticated(s) /\ UNCHANGED member

(* Mutant: the memberships of a pod with a newer connection stay. *)
LeaveWithRoute(s) ==
  /\ asks' = asks \ {s}
  /\ member' = (member /\ (s \notin podsOf \/ route # s))

(* A closing connection takes the pods it lists out of their groups. *)
LeaveWithConnection(s) ==
  /\ asks' = asks \ {s}
  /\ member' = (member /\ s \notin podsOf)

GroupConnectionCloses(s) == ConnectionCloses(s) /\ LeaveWithConnection(s)

(* The store is in memory. *)
GroupServerRestarts == ServerRestarts /\ asks' = {} /\ member' = FALSE

(* The node's lease ends: its pods leave their groups; it reconnects: they *)
(* do not.                                                                 *)
GroupUnregister ==
  /\ UnregisterPodsOnNode
  /\ member' \in {member, FALSE}
  /\ UNCHANGED asks

(* The connection of the node's agent closes: its pods in the registry     *)
(* leave their groups, also those whose own connection is open.            *)
NodeConnectionCloses ==
  /\ registered /\ member' = FALSE
  /\ UNCHANGED <<vars, asks>>

-----------------------------------------------------------------------------
OtherSteps ==
  \/ \E s \in Sockets :
       \/ Boot(s) \/ Reconnect(s) \/ SocketOpens(s) \/ ConnectTimesOut(s)
       \/ SocketRefused(s) \/ SocketCloses(s) \/ HandlePodRegister(s)
  \/ End \/ RelaySignal \/ TokenExpires

GroupNext ==
  \/ OtherSteps /\ UNCHANGED groupVars
  \/ \E s \in Sockets :
       HandleJoin(s) \/ HandleLeave(s) \/ RefuseRequest(s) \/ GroupConnectionCloses(s)
  \/ GroupRequest \/ GroupServerRestarts \/ GroupUnregister \/ NodeConnectionCloses

GroupSpec == GroupInit /\ [][GroupNext]_allVars

(* Timers fire, sockets open or are refused and raise their close events,   *)
(* the server handles what was sent and notices what is closed.            *)
GroupFairness ==
  /\ WF_allVars(UNCHANGED groupVars /\ \E s \in Sockets : Boot(s))
  /\ WF_allVars(UNCHANGED groupVars /\ \E s \in Sockets : Reconnect(s))
  /\ \A s \in Sockets :
       /\ WF_allVars(SocketOpens(s) /\ UNCHANGED groupVars)
       /\ WF_allVars(client[s] # "connecting" /\ ConnectTimesOut(s) /\ UNCHANGED groupVars)
       /\ WF_allVars(s \notin server /\ SocketCloses(s) /\ UNCHANGED groupVars)
       /\ WF_allVars(HandlePodRegister(s) /\ UNCHANGED groupVars)
       /\ WF_allVars(client[s] = "closed" /\ GroupConnectionCloses(s))

FairGroupSpec == GroupSpec /\ GroupFairness

-----------------------------------------------------------------------------
AsksTypeOK == asks \in SUBSET Sockets /\ member \in BOOLEAN

GroupTypeOK == TypeOK /\ AsksTypeOK

(* Nobody is a member without a connection whose closing takes him out: a  *)
(* join that arrives after the pod's old connection is gone, its lease has *)
(* ended or the server has restarted is let in only over a connection that *)
(* still stands for the pod.                                               *)
MembersAreConnected == member => \E s \in podsOf : s \in server

GroupsSafe == GroupTypeOK /\ MembersAreConnected

(* A pod that ended is out of its groups for good, without waiting for its *)
(* membership to lapse, whatever requests were under way.                  *)
EndedPodStaysOut == [](Ended => <>[](~ member))

(* An ended pod is forgotten everywhere: routes, registry, groups. *)
EndedPodIsGone == EndedPodLeaves /\ EndedPodStaysOut

=============================================================================
