--------------------------- MODULE CoreScheduler ---------------------------
(***************************************************************************)
(* The resource accounting of the core library: PodScheduler creates pods  *)
(* against a namespace quota, places them on nodes, preempts pods of lower *)
(* priority and ends pods in five ways; NodeManager registers nodes, takes *)
(* their heartbeats and cordons them.  Both write one in-memory store, and *)
(* every method runs to its end in one turn, so an action is one call.     *)
(* Any call may come at any time: the methods are the library's API and    *)
(* guard themselves.                                                       *)
(*                                                                         *)
(* Memory is accounted exactly as cpu is, so cpu stands for both.  There   *)
(* is one namespace, the default one, which can be neither deleted nor     *)
(* made to terminate.  Scores only rank the candidates: Schedule takes any *)
(* of them.  Two inputs that overwrite the counters from outside are left  *)
(* out: a heartbeat that reports `allocated', and the direct allocation    *)
(* calls of the two managers.                                              *)
(***************************************************************************)
EXTENDS Integers, FiniteSets

CONSTANTS
    Pods,           \* ids of pods; an id is created once
    Nodes,          \* ids of nodes; an id is registered once
    NoNode,         \* a pod's nodeId before it is placed
    Cpu,            \* [Pods -> Nat]: resourceRequests.cpu
    Priority,       \* [Pods -> Nat]: the value of the pod's priority class
    Preemptors,     \* pods whose priority class lets them preempt
    SystemPods,     \* pods of packs of the namespace 'system'
    Trusted,        \* nodes of an admin
    Allocatable,    \* what a node offers: a record of cpu and pods
    Quota           \* the namespace's hard quota: a record of cpu and pods

ASSUME RequestsAreNumbers == Cpu \in [Pods -> Nat] /\ Priority \in [Pods -> Nat]
ASSUME LimitsAreNumbers == {Allocatable, Quota} \subseteq [cpu : Nat, pods : Nat]
ASSUME NoNodeIsNoNode == NoNode \notin Nodes

VARIABLES
    pod,         \* each pod's status and nodeId
    node,        \* each node's status and its unschedulable flag
    allocated,   \* each node's allocated resources
    usage,       \* the namespace's resourceUsage
    endedTwice   \* history: some call ended a pod that had already ended

vars == <<pod, node, allocated, usage, endedTwice>>

Placed  == {"scheduled", "starting", "running"}
Live    == Placed \cup {"pending"}
Present == Live \cup {"stopping", "stopped", "failed", "evicted"}

Resources == [cpu : Nat, pods : Nat]
Nothing == [cpu |-> 0, pods |-> 0]

\* The single units of cpu that the pods in P ask for: their number is the
\* sum of what each asks for, and needs no recursion.
Units(P) == UNION {{p} \X (1 .. Cpu[p]) : p \in P}

\* What the pods in P ask for together.
Requests(P) == [cpu |-> Cardinality(Units(P)), pods |-> Cardinality(P)]

Plus(r, s) == [cpu |-> r.cpu + s.cpu, pods |-> r.pods + s.pods]

\* Math.max(0, r - s) in each component.
Minus(r, s) ==
    LET Less(x, y) == IF x > y THEN x - y ELSE 0
    IN [cpu |-> Less(r.cpu, s.cpu), pods |-> Less(r.pods, s.pods)]

AtMost(r, s) == r.cpu <= s.cpu /\ r.pods <= s.pods

Registered == {n \in Nodes : node[n].status \notin {"none", "removed"}}
PodsOn(n) == {p \in Pods : pod[p].status \in Present /\ pod[p].node = n}
LivePods == {p \in Pods : pod[p].status \in Live}
PlacedOn(n) == {p \in PodsOn(n) : pod[p].status \in Placed}

Init ==
    /\ pod = [p \in Pods |-> [status |-> "none", node |-> NoNode]]
    /\ node = [n \in Nodes |-> [status |-> "none", cordoned |-> FALSE]]
    /\ allocated = [n \in Nodes |-> Nothing]
    /\ usage = Nothing
    /\ endedTwice = FALSE

-----------------------------------------------------------------------------
(* PodScheduler: creation and placement *)

\* Mutant: the quota is compared with what is used already.
HasRoomLeft(p) == AtMost(usage, Quota)

HasQuota(p) == AtMost(Plus(usage, Requests({p})), Quota)

Create(p) ==
    /\ pod[p].status = "none"
    /\ HasQuota(p)
    /\ pod' = [pod EXCEPT ![p].status = "pending"]
    /\ usage' = Plus(usage, Requests({p}))
    /\ UNCHANGED <<node, allocated, endedTwice>>

Schedulable(n) == node[n].status = "online" /\ ~node[n].cordoned

Candidates(p) ==
    {n \in Nodes : /\ Schedulable(n)
                   /\ p \in SystemPods => n \in Trusted
                   /\ AtMost(Plus(allocated[n], Requests({p})), Allocatable)}

Schedule(p, n) ==
    /\ pod[p].status = "pending"
    /\ n \in Candidates(p)
    /\ pod' = [pod EXCEPT ![p] = [status |-> "scheduled", node |-> n]]
    /\ allocated' = [allocated EXCEPT ![n] = Plus(@, Requests({p}))]
    /\ UNCHANGED <<node, usage, endedTwice>>

\* The pods of lower priority on n that preemption may take.
Evictable(p, n) ==
    {q \in PodsOn(n) : /\ pod[q].status \in {"running", "scheduled"}
                       /\ Priority[q] < Priority[p]}

\* The cpu of n suffices for p once the pods in V are gone.
Frees(V, p, n) == allocated[n].cpu + Cpu[p] <= Allocatable.cpu + Requests(V).cpu

\* Mutant: the loop takes the pods as they come.
VictimsUnsorted(V, p, n) ==
    /\ V # {}
    /\ Frees(V, p, n)
    /\ \E last \in V : V = {last} \/ ~Frees(V \ {last}, p, n)

\* V is what the loop collects: lowest priority first, until p fits.
Victims(V, p, n) ==
    /\ V # {}
    /\ \A q \in V : \A r \in Evictable(p, n) \ V : Priority[q] <= Priority[r]
    /\ Frees(V, p, n)
    /\ \E last \in V : /\ \A q \in V : Priority[q] <= Priority[last]
                       /\ V = {last} \/ ~Frees(V \ {last}, p, n)

Preempt(p, n) ==
    /\ pod[p].status = "pending"
    /\ p \in Preemptors
    /\ Candidates(p) = {}
    /\ Schedulable(n)
    /\ \E V \in SUBSET Evictable(p, n) :
          /\ Victims(V, p, n)
          /\ pod' = [q \in Pods |->
                        IF q = p THEN [status |-> "scheduled", node |-> n]
                        ELSE IF q \in V THEN [pod[q] EXCEPT !.status = "evicted"]
                        ELSE pod[q]]
          /\ allocated' = [allocated EXCEPT ![n] =
                              Plus(Minus(@, Requests(V)), Requests({p}))]
          /\ usage' = Minus(usage, Requests(V))
    /\ UNCHANGED <<node, endedTwice>>

-----------------------------------------------------------------------------
(* PodScheduler: the life of a pod *)

Start(p) ==
    /\ pod[p].status = "scheduled"
    /\ pod' = [pod EXCEPT ![p].status = "starting"]
    /\ UNCHANGED <<node, allocated, usage, endedTwice>>

SetRunning(p) ==
    /\ pod[p].status = "starting"
    /\ pod' = [pod EXCEPT ![p].status = "running"]
    /\ UNCHANGED <<node, allocated, usage, endedTwice>>

\* allocated once the nodes of the pods in P have what P asked for back;
\* a pod that was never placed, or whose node is gone, gives nothing back.
ReleasedOnNodes(P) ==
    [n \in Nodes |-> IF n \in Registered
                     THEN Minus(allocated[n], Requests({p \in P : pod[p].node = n}))
                     ELSE allocated[n]]

ReleasedInNamespace(P) == Minus(usage, Requests(P))

\* The pods in P end with the given status and their shares are released.
End(P, status) ==
    /\ pod' = [p \in Pods |-> IF p \in P THEN [pod[p] EXCEPT !.status = status]
                              ELSE pod[p]]
    /\ allocated' = ReleasedOnNodes(P)
    /\ usage' = ReleasedInNamespace(P)
    /\ endedTwice' = (endedTwice \/ ~(P \subseteq LivePods))

Stop(p) ==
    /\ pod[p].status \in Placed
    /\ End({p}, "stopping")
    /\ UNCHANGED node

SetStopped(p) ==
    /\ pod[p].status = "stopping"
    /\ pod' = [pod EXCEPT ![p].status = "stopped"]
    /\ UNCHANGED <<node, allocated, usage, endedTwice>>

Fail(p) ==
    /\ pod[p].status \in Present
    /\ End({p}, "failed")
    /\ UNCHANGED node

Evict(p) ==
    /\ pod[p].status \in Present
    /\ End({p}, "evicted")
    /\ UNCHANGED node

\* Mutant: only a running pod's share is released when it is deleted.
DeleteIfRunning(p) ==
    /\ pod[p].status \in Present
    /\ pod' = [pod EXCEPT ![p] = [status |-> "deleted", node |-> NoNode]]
    /\ allocated' = ReleasedOnNodes({p} \cap {q \in Pods : pod[q].status = "running"})
    /\ usage' = ReleasedInNamespace({p})
    /\ endedTwice' = (endedTwice \/ p \notin LivePods)
    /\ UNCHANGED node

\* The node's share is released only for a pod in Placed, the namespace's
\* for every pod.
Delete(p) ==
    /\ pod[p].status \in Present
    /\ pod' = [pod EXCEPT ![p] = [status |-> "deleted", node |-> NoNode]]
    /\ allocated' = ReleasedOnNodes({p} \cap {q \in Pods : pod[q].status \in Placed})
    /\ usage' = ReleasedInNamespace({p})
    /\ endedTwice' = (endedTwice \/ p \notin LivePods)
    /\ UNCHANGED node

ActiveOn(n) == {p \in PodsOn(n) : pod[p].status \in Live \cup {"stopping"}}

-----------------------------------------------------------------------------
(* NodeManager.  "offline" stands for offline and unhealthy, "draining" for
   draining and maintenance. *)

SetNode(n, status, cordoned) ==
    node' = [node EXCEPT ![n] = [status |-> status, cordoned |-> cordoned]]

Register(n) ==
    /\ node[n].status = "none"
    /\ SetNode(n, "online", FALSE)
    /\ UNCHANGED <<pod, allocated, usage, endedTwice>>

\* A heartbeat or a reconnect; a heartbeat may name the status itself.
\* The flag set by a drain outlives it.
Heartbeat(n) ==
    /\ n \in Registered
    /\ \E status \in {"online", "offline", "draining"} :
          SetNode(n, status, node[n].cordoned)
    /\ UNCHANGED <<pod, allocated, usage, endedTwice>>

\* A node gone stale is marked, and the callback fails the pods on it.
MissedHeartbeats(n) ==
    /\ node[n].status \in {"online", "draining"}
    /\ SetNode(n, "offline", node[n].cordoned)
    /\ End(ActiveOn(n), "failed")

Disconnect(n) ==
    /\ n \in Registered
    /\ SetNode(n, "offline", node[n].cordoned)
    /\ UNCHANGED <<pod, allocated, usage, endedTwice>>

Drain(n) ==
    /\ n \in Registered
    /\ SetNode(n, "draining", TRUE)
    /\ UNCHANGED <<pod, allocated, usage, endedTwice>>

Uncordon(n) ==
    /\ n \in Registered
    /\ SetNode(n, "online", FALSE)
    /\ UNCHANGED <<pod, allocated, usage, endedTwice>>

Deregister(n) ==
    /\ n \in Registered
    /\ SetNode(n, "removed", FALSE)
    /\ allocated' = [allocated EXCEPT ![n] = Nothing]
    /\ UNCHANGED <<pod, usage, endedTwice>>

-----------------------------------------------------------------------------
Next ==
    \/ \E p \in Pods : \/ Create(p)
                       \/ \E n \in Nodes : Schedule(p, n) \/ Preempt(p, n)
                       \/ Start(p)
                       \/ SetRunning(p)
                       \/ Stop(p)
                       \/ SetStopped(p)
                       \/ Fail(p)
                       \/ Evict(p)
                       \/ Delete(p)
    \/ \E n \in Nodes : \/ Register(n)
                        \/ Heartbeat(n)
                        \/ MissedHeartbeats(n)
                        \/ Disconnect(n)
                        \/ Drain(n)
                        \/ Uncordon(n)
                        \/ Deregister(n)

Spec == Init /\ [][Next]_vars

-----------------------------------------------------------------------------
(* Properties *)

TypeOK ==
    /\ pod \in [Pods -> [status : Present \cup {"none", "deleted"},
                         node : Nodes \cup {NoNode}]]
    /\ node \in [Nodes -> [status : {"none", "online", "offline", "draining", "removed"},
                           cordoned : BOOLEAN]]
    /\ allocated \in [Nodes -> Resources]
    /\ usage \in Resources
    /\ endedTwice \in BOOLEAN

\* No share is lost: whichever of the five ends a pod comes to, by whichever
\* calls, what a node or the namespace counts as taken is at most what its
\* pods ask for, so capacity never shrinks for good.
NothingLeaks ==
    /\ \A n \in Registered : AtMost(allocated[n], Requests(PlacedOn(n)))
    /\ AtMost(usage, Requests(LivePods))

SharesSafe == TypeOK /\ NothingLeaks

\* As long as no pod was ended twice, the counters are exact, through
\* preemption, node failure and deregistration too, so no node is
\* over-committed and the namespace keeps its quota.
EndedOnceIsExact ==
    ~endedTwice =>
        /\ \A n \in Registered : /\ allocated[n] = Requests(PlacedOn(n))
                                 /\ AtMost(allocated[n], Allocatable)
        /\ usage = Requests(LivePods)
        /\ AtMost(usage, Quota)

\* Placement and eviction in one step: the evicted pods were on the node the
\* placed pod goes to, have a lower priority than it, and none has a higher
\* priority than a pod that was spared.
PreemptionServesPriority ==
    [][\A p, q \in Pods :
         (/\ pod[p].status = "pending" /\ pod'[p].status = "scheduled"
          /\ pod[q].status # "evicted" /\ pod'[q].status = "evicted") =>
            /\ pod[q].node = pod'[p].node
            /\ Priority[q] < Priority[p]
            /\ \A r \in Pods :
                  (/\ r # p /\ pod'[r].node = pod[q].node
                   /\ pod'[r].status \in {"running", "scheduled"})
                     => Priority[q] <= Priority[r]]_vars

\* What the code's comments say and the code does not keep (README); TLC
\* refutes each, and no run is kept of them.

\* What namespace.ts:18-22 says of the hard quota: the pods of the namespace
\* never exceed it.  A pod that has ended gives its share back again when it
\* is failed or deleted, and another pod is created in the room it never held.
QuotaIsHard == AtMost(Requests(LivePods), Quota)

\* What node.ts:39-48 says a node offers: the pods placed on a node fit in it.
\* fail() of a pod that is stopping releases the share stop() has released.
NodesAreNotOvercommitted ==
    \A n \in Registered : AtMost(Requests(PlacedOn(n)), Allocatable)

\* pod-scheduler.ts:698 and node.ts:218: a pod of a system pack is only
\* placed on a trusted node.  Preemption does not look at trust.
SystemPodsOnTrustedNodes ==
    \A p \in SystemPods : pod[p].status \in Placed => pod[p].node \in Trusted
=============================================================================
