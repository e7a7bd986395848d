----------------------------- MODULE PodPlaces -------------------------------
(***************************************************************************)
(* What the orchestrator promises of the places of pods, whoever writes    *)
(* rows and whatever is lost: a pod runs on one node at a time, starts     *)
(* only on the node its row names, and its row names another node only     *)
(* while no process of the pod is left.  Who decides, when a process ends, *)
(* and what the rows say of it, are left open.                             *)
(***************************************************************************)
CONSTANTS Pods, Nodes

VARIABLES may,   (* the nodes a pod may start on: its row's, or any for a pod *)
                 (* whose row is gone with a deploy still under way           *)
          runs   (* the nodes on which a process of the pod is                *)

vars == <<may, runs>>

Init ==
  /\ may = [p \in Pods |-> Nodes]
  /\ runs = [p \in Pods |-> {}]

(* A row is inserted, or assigned, with a node or none. *)
Place(p, place) ==
  /\ runs[p] = {}
  /\ may' = [may EXCEPT ![p] = place]
  /\ UNCHANGED runs

(* The row is deleted; the process, if there is one, stays for a while. *)
Forget(p) ==
  /\ may' = [may EXCEPT ![p] = Nodes]
  /\ UNCHANGED runs

Start(p, n) ==
  /\ runs[p] = {} /\ n \in may[p]
  /\ runs' = [runs EXCEPT ![p] = {n}]
  /\ UNCHANGED may

(* The process ends, by itself or when told to. *)
End(p) ==
  /\ runs' = [runs EXCEPT ![p] = {}]
  /\ UNCHANGED may

(* A node goes with all its processes. *)
Crash(n) ==
  /\ runs' = [p \in Pods |-> runs[p] \ {n}]
  /\ UNCHANGED may

Next ==
  \/ \E p \in Pods : \/ Forget(p) \/ End(p)
                     \/ \E n \in Nodes : Start(p, n) \/ Place(p, {n})
                     \/ Place(p, {})
  \/ \E n \in Nodes : Crash(n)

Spec == Init /\ [][Next]_vars

-----------------------------------------------------------------------------
(* What follows from it: a process is where its row says.                  *)
RunsInPlace == \A p \in Pods : runs[p] \subseteq may[p]

===============================================================================
