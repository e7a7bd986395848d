-------------------------- MODULE CoreSchedulerProofs --------------------------
(***************************************************************************)
(* Proofs about CoreScheduler, for any pods and nodes, finitely or         *)
(* infinitely many, any requests, limits and quota: no share is lost, the  *)
(* counters are exact while no pod is ended twice, and preemption serves   *)
(* the higher priority.                                                    *)
(***************************************************************************)
EXTENDS CoreScheduler, FiniteSetTheorems, TLAPS

-----------------------------------------------------------------------------
(* Sums of requests *)

(* The units of one pod are as many as it asks for.                        *)
LEMMA UnitsOfOne ==
  ASSUME NEW p \in Pods
  PROVE  /\ Units({p}) = {p} \X (1 .. Cpu[p])
         /\ IsFiniteSet(Units({p}))
         /\ Cardinality(Units({p})) = Cpu[p]
<1>1. Units({p}) = {p} \X (1 .. Cpu[p])
  BY DEF Units
<1>2. Cpu[p] \in Nat
  BY RequestsAreNumbers
<1>3. IsFiniteSet(1 .. Cpu[p]) /\ Cardinality(1 .. Cpu[p]) = Cpu[p]
  BY <1>2, FS_Interval
<1>4. IsFiniteSet({p}) /\ Cardinality({p}) = 1
  BY FS_Singleton
<1>5. /\ IsFiniteSet({p} \X (1 .. Cpu[p]))
      /\ Cardinality({p} \X (1 .. Cpu[p])) = Cardinality({p}) * Cardinality(1 .. Cpu[p])
  BY <1>3, <1>4, FS_Product
<1>6. Cardinality({p} \X (1 .. Cpu[p])) = Cpu[p]
  BY <1>2, <1>3, <1>4, <1>5
<1>. QED BY <1>1, <1>5, <1>6

(* Finitely many pods ask for finitely many units. *)
LEMMA UnitsAreFinite ==
  ASSUME NEW P \in SUBSET Pods, IsFiniteSet(P)
  PROVE  IsFiniteSet(Units(P))
<1> DEFINE f == [p \in P |-> {p} \X (1 .. Cpu[p])]
           T == {{p} \X (1 .. Cpu[p]) : p \in P}
<1>1. f \in Surjection(P, T)
  BY DEF Surjection
<1>2. IsFiniteSet(T)
  BY <1>1, FS_Surjection
<1>3. \A t \in T : IsFiniteSet(t)
  BY UnitsOfOne
<1>4. IsFiniteSet(UNION T)
  BY <1>2, <1>3, FS_UNION
<1>. QED BY <1>4 DEF Units

(* The units of two sets of pods meet in those of the pods they share.     *)
LEMMA UnitsOfParts ==
  ASSUME NEW P \in SUBSET Pods, NEW V \in SUBSET P
  PROVE  Units(P \ V) = Units(P) \ Units(V) /\ Units(V) \subseteq Units(P)
BY DEF Units

(* What a set of pods asks for is what a part and its rest ask for. *)
LEMMA SumOfParts ==
  ASSUME NEW P \in SUBSET Pods, NEW V \in SUBSET P, IsFiniteSet(P)
  PROVE  /\ Requests(P) \in Resources /\ Requests(V) \in Resources
         /\ Requests(P \ V) \in Resources
         /\ Requests(P) = Plus(Requests(P \ V), Requests(V))
<1>1. IsFiniteSet(V) /\ IsFiniteSet(P \ V)
  BY FS_Subset, FS_Difference
<1>2. IsFiniteSet(Units(P)) /\ IsFiniteSet(Units(V)) /\ IsFiniteSet(Units(P \ V))
  BY <1>1, UnitsAreFinite
<1>3. /\ Cardinality(Units(P)) \in Nat /\ Cardinality(Units(V)) \in Nat
      /\ Cardinality(Units(P \ V)) \in Nat
      /\ Cardinality(P) \in Nat /\ Cardinality(V) \in Nat /\ Cardinality(P \ V) \in Nat
  BY <1>1, <1>2, FS_CardinalityType
<1>4. Cardinality(P \ V) = Cardinality(P) - Cardinality(V)
  <2>1. P \cap V = V
    OBVIOUS
  <2>. QED BY <2>1, FS_Difference
<1>5. Cardinality(Units(P \ V)) = Cardinality(Units(P)) - Cardinality(Units(V))
  <2>1. Units(P) \cap Units(V) = Units(V)
    BY UnitsOfParts
  <2>2. Units(P \ V) = Units(P) \ Units(V)
    BY UnitsOfParts
  <2>3. Cardinality(Units(P) \ Units(V))
          = Cardinality(Units(P)) - Cardinality(Units(P) \cap Units(V))
    BY <1>2, FS_Difference
  <2>. QED BY <2>1, <2>2, <2>3
<1>6. /\ Cardinality(P) = Cardinality(P \ V) + Cardinality(V)
      /\ Cardinality(Units(P)) = Cardinality(Units(P \ V)) + Cardinality(Units(V))
  BY <1>3, <1>4, <1>5
<1>7. Requests(P) = Plus(Requests(P \ V), Requests(V))
  BY <1>6 DEF Requests, Plus
<1>. QED BY <1>3, <1>7 DEF Requests, Resources

LEMMA RequestOfOne ==
  ASSUME NEW p \in Pods
  PROVE  Requests({p}) = [cpu |-> Cpu[p], pods |-> 1] /\ Requests({p}) \in Resources
<1>1. Cardinality(Units({p})) = Cpu[p] /\ Cpu[p] \in Nat
  BY UnitsOfOne, RequestsAreNumbers
<1>2. Cardinality({p}) = 1
  BY FS_Singleton
<1>. QED BY <1>1, <1>2 DEF Requests, Resources

LEMMA RequestOfNone == Requests({}) = Nothing
<1>1. Units({}) = {}
  BY DEF Units
<1>2. Cardinality({}) = 0
  BY FS_EmptySet
<1>. QED BY <1>1, <1>2 DEF Requests, Nothing

(* One pod more asks for its own request more. *)
LEMMA SumWithOne ==
  ASSUME NEW P \in SUBSET Pods, IsFiniteSet(P), NEW p \in Pods \ P
  PROVE  /\ IsFiniteSet(P \cup {p})
         /\ Requests(P) \in Resources
         /\ Requests(P \cup {p}) = Plus(Requests(P), Requests({p}))
<1>1. IsFiniteSet(P \cup {p})
  BY FS_AddElement
<1>2. (P \cup {p}) \ {p} = P
  OBVIOUS
<1>3. /\ Requests((P \cup {p}) \ {p}) \in Resources
      /\ Requests(P \cup {p}) = Plus(Requests((P \cup {p}) \ {p}), Requests({p}))
  BY <1>1, SumOfParts
<1>. QED BY <1>1, <1>2, <1>3

(* Comparing and subtracting, in each component. *)
LEMMA Subtraction ==
  ASSUME NEW r \in Resources, NEW s \in Resources, NEW t \in Resources
  PROVE  /\ Minus(r, s) \in Resources /\ Plus(r, s) \in Resources
         /\ AtMost(Minus(r, s), r)
         /\ AtMost(r, Plus(t, s)) => AtMost(Minus(r, s), t)
         /\ r = Plus(t, s) => Minus(r, s) = t
BY DEF Resources, Minus, Plus, AtMost

(* A counter r of the pods in X, after the pods in R gave back their       *)
(* requests, whether or not they were counted.                             *)
LEMMA Release ==
  ASSUME NEW X \in SUBSET Pods, NEW R \in SUBSET Pods, NEW r \in Resources,
         IsFiniteSet(X), IsFiniteSet(R), AtMost(r, Requests(X))
  PROVE  /\ Minus(r, Requests(R)) \in Resources
         /\ AtMost(Minus(r, Requests(R)), r)
         /\ AtMost(Minus(r, Requests(R)), Requests(X \ R))
         /\ R \subseteq X /\ r = Requests(X) => Minus(r, Requests(R)) = Requests(X \ R)
<1> DEFINE Y == X \cap R
<1>1. X \ Y = X \ R
  OBVIOUS
<1>2. /\ Requests(X) \in Resources /\ Requests(Y) \in Resources /\ Requests(X \ R) \in Resources
      /\ Requests(X) = Plus(Requests(X \ R), Requests(Y))
  BY <1>1, SumOfParts
<1>3. /\ Requests(R) \in Resources /\ Requests(R \ Y) \in Resources
      /\ Requests(R) = Plus(Requests(R \ Y), Requests(Y))
  BY SumOfParts
<1>4. AtMost(Requests(Y), Requests(R))
  BY <1>2, <1>3 DEF AtMost, Plus, Resources
<1>5. AtMost(Requests(X), Plus(Requests(X \ R), Requests(R)))
  BY <1>2, <1>3, <1>4 DEF AtMost, Plus, Resources
<1>6. AtMost(r, Plus(Requests(X \ R), Requests(R)))
  BY <1>2, <1>3, <1>5 DEF AtMost, Plus, Resources
<1>7. ASSUME R \subseteq X, r = Requests(X)
      PROVE  Minus(r, Requests(R)) = Requests(X \ R)
  <2>1. Y = R
    BY <1>7
  <2>2. r = Plus(Requests(X \ R), Requests(R))
    BY <1>2, <1>7, <2>1
  <2>. QED BY <1>2, <1>3, <2>2, Subtraction
<1>. QED BY <1>2, <1>3, <1>6, <1>7, Subtraction

-----------------------------------------------------------------------------
(* The inductive invariant *)

Created == {p \in Pods : pod[p].status # "none"}

(* A pod that was not placed names no node, and a node that was not yet    *)
(* registered has neither pods nor shares.                                 *)
Placement ==
  /\ \A p \in Pods : pod[p].status \in {"none", "pending"} => pod[p].node = NoNode
  /\ \A n \in Nodes : node[n].status = "none" =>
        allocated[n] = Nothing /\ \A p \in Pods : pod[p].node # n

(* A counter that never exceeds what it counts, and is exact and within    *)
(* its limit while no pod was ended twice.                                 *)
Account(counter, pods, limit) ==
  /\ AtMost(counter, Requests(pods))
  /\ ~ endedTwice => counter = Requests(pods) /\ AtMost(counter, limit)

CoreInv ==
  /\ TypeOK
  /\ IsFiniteSet(Created)
  /\ Placement
  /\ \A n \in Registered : Account(allocated[n], PlacedOn(n), Allocatable)
  /\ Account(usage, LivePods, Quota)

LEMMA Transitive ==
  ASSUME NEW r \in Resources, NEW s \in Resources, NEW t \in Resources,
         AtMost(r, s), AtMost(s, t)
  PROVE  AtMost(r, t)
BY DEF Resources, AtMost

LEMMA LimitsTyped == Allocatable \in Resources /\ Quota \in Resources
BY LimitsAreNumbers DEF Resources

LEMMA CountedAreFinite ==
  ASSUME IsFiniteSet(Created), NEW P \in SUBSET Created
  PROVE  IsFiniteSet(P)
BY FS_Subset

(* What is counted has been created. *)
LEMMA CountedAreCreated ==
  /\ LivePods \in SUBSET Created
  /\ \A n \in Nodes : PlacedOn(n) \in SUBSET Created /\ ActiveOn(n) \in SUBSET Created
BY DEF LivePods, PlacedOn, ActiveOn, PodsOn, Created, Live, Placed, Present

LEMMA InitHolds == Init => CoreInv
<1> SUFFICES ASSUME Init PROVE CoreInv
  OBVIOUS
<1>1. TypeOK
  BY DEF Init, TypeOK, Resources, Nothing
<1>2. Created = {} /\ LivePods = {} /\ Registered = {}
  BY DEF Init, Created, LivePods, Live, Placed, Registered
<1>3. IsFiniteSet({})
  BY FS_EmptySet
<1>4. Placement
  BY NoNodeIsNoNode DEF Init, Placement
<1>5. AtMost(Nothing, Requests({})) /\ AtMost(Nothing, Quota)
  BY RequestOfNone, LimitsTyped DEF AtMost, Nothing, Resources
<1>. QED BY <1>1, <1>2, <1>3, <1>4, <1>5, RequestOfNone DEF CoreInv, Account, Init

-----------------------------------------------------------------------------
(* Steps that move no share *)

(* The pods that are counted, the counters and the history stay. *)
LEMMA NothingMoves ==
  ASSUME CoreInv, TypeOK', Placement',
         UNCHANGED <<usage, endedTwice>>,
         Created' = Created, LivePods' = LivePods,
         \A n \in Registered' :
            /\ allocated'[n] = allocated[n] /\ PlacedOn(n)' = PlacedOn(n)
            /\ n \in Registered \/ node[n].status = "none"
  PROVE  CoreInv'
<1>1. ASSUME NEW n \in Registered'
      PROVE  Account(allocated[n], PlacedOn(n), Allocatable)'
  <2>1. CASE n \in Registered
    BY <1>1, <2>1 DEF CoreInv, Account
  <2>2. CASE node[n].status = "none"
    <3>1. n \in Nodes
      BY DEF Registered
    <3>2. allocated[n] = Nothing /\ PlacedOn(n) = {}
      BY <2>2, <3>1 DEF CoreInv, Placement, PlacedOn, PodsOn
    <3>3. AtMost(Nothing, Requests({})) /\ AtMost(Nothing, Allocatable)
      BY RequestOfNone, LimitsTyped DEF AtMost, Nothing, Resources
    <3>. QED BY <1>1, <3>2, <3>3, RequestOfNone DEF Account
  <2>. QED BY <1>1, <2>1, <2>2
<1>. QED BY <1>1 DEF CoreInv, Account

(* A pod goes on from one status to the next: it stays where it is and     *)
(* counts as before.                                                       *)
LEMMA PodGoesOn ==
  ASSUME CoreInv, NEW p \in Pods, Start(p) \/ SetRunning(p) \/ SetStopped(p)
  PROVE  CoreInv'
<1> DEFINE GoesTo(status) ==
             /\ pod' = [pod EXCEPT ![p].status = status]
             /\ UNCHANGED <<node, allocated, usage, endedTwice>>
             /\ \/ pod[p].status \in Placed /\ status \in Placed
                \/ pod[p].status = "stopping" /\ status = "stopped"
<1>0. GoesTo("starting") \/ GoesTo("running") \/ GoesTo("stopped")
  BY DEF Start, SetRunning, SetStopped, Placed
<1>1. PICK status \in {"starting", "running", "stopped"} : GoesTo(status)
  BY <1>0
<1>2. pod \in [Pods -> [status : Present \cup {"none", "deleted"}, node : Nodes \cup {NoNode}]]
  BY DEF CoreInv, TypeOK
<1>3. status \in Present
  BY DEF Present, Live, Placed
<1>4. /\ pod'[p] = [status |-> status, node |-> pod[p].node]
      /\ \A q \in Pods \ {p} : pod'[q] = pod[q]
  BY <1>1, <1>2
<1>5. TypeOK'
  BY <1>1, <1>2, <1>3 DEF CoreInv, TypeOK
<1>6. /\ Created' = Created /\ LivePods' = LivePods
      /\ Registered' = Registered /\ \A n \in Nodes : PlacedOn(n)' = PlacedOn(n)
  BY <1>1, <1>4 DEF Created, LivePods, Registered, PlacedOn, PodsOn, Present, Live, Placed
<1>7. Placement'
  BY <1>1, <1>4 DEF CoreInv, Placement
<1>. QED BY <1>1, <1>5, <1>6, <1>7, NothingMoves DEF Registered

(* A node comes, changes or goes: none that went comes back. *)
LEMMA NodeChanges ==
  ASSUME CoreInv, NEW n \in Nodes,
         Register(n) \/ Heartbeat(n) \/ Disconnect(n) \/ Drain(n) \/ Uncordon(n)
           \/ Deregister(n)
  PROVE  CoreInv'
<1> DEFINE Changes(status, flag) ==
             /\ node' = [node EXCEPT ![n] = [status |-> status, cordoned |-> flag]]
             /\ allocated' = IF status = "removed" THEN [allocated EXCEPT ![n] = Nothing]
                             ELSE allocated
           Some == \E status \in {"online", "offline", "draining", "removed"}, flag \in BOOLEAN :
                     Changes(status, flag)
<1>0. node[n].cordoned \in BOOLEAN
  BY DEF CoreInv, TypeOK
<1>1. UNCHANGED <<pod, usage, endedTwice>> /\ node[n].status # "removed" /\ Some
  <2>1. CASE Register(n) \/ Uncordon(n)
    <3>1. Changes("online", FALSE)
      BY <2>1 DEF Register, Uncordon, SetNode
    <3>. QED BY <2>1, <3>1 DEF Register, Uncordon, Registered
  <2>2. CASE Heartbeat(n)
    <3>1. PICK status \in {"online", "offline", "draining"} : Changes(status, node[n].cordoned)
      BY <2>2 DEF Heartbeat, SetNode
    <3>. QED BY <1>0, <2>2, <3>1 DEF Heartbeat, Registered
  <2>3. CASE Disconnect(n)
    <3>1. Changes("offline", node[n].cordoned)
      BY <2>3 DEF Disconnect, SetNode
    <3>. QED BY <1>0, <2>3, <3>1 DEF Disconnect, Registered
  <2>4. CASE Drain(n)
    <3>1. Changes("draining", TRUE)
      BY <2>4 DEF Drain, SetNode
    <3>. QED BY <2>4, <3>1 DEF Drain, Registered
  <2>5. CASE Deregister(n)
    <3>1. Changes("removed", FALSE)
      BY <2>5 DEF Deregister, SetNode
    <3>. QED BY <2>5, <3>1 DEF Deregister, Registered
  <2>. QED BY <2>1, <2>2, <2>3, <2>4, <2>5
<1>2. PICK status \in {"online", "offline", "draining", "removed"}, flag \in BOOLEAN :
         Changes(status, flag)
  BY <1>1
<1>3. TypeOK'
  BY <1>1, <1>2 DEF CoreInv, TypeOK, Resources, Nothing
<1>4. /\ node'[n].status = status
      /\ \A m \in Nodes \ {n} : node'[m] = node[m] /\ allocated'[m] = allocated[m]
  BY <1>2 DEF CoreInv, TypeOK
<1>5. /\ Created' = Created /\ LivePods' = LivePods
      /\ \A m \in Nodes : PlacedOn(m)' = PlacedOn(m)
  BY <1>1 DEF Created, LivePods, PlacedOn, PodsOn
<1>6. Placement'
  BY <1>1, <1>4 DEF CoreInv, Placement
<1>7. ASSUME NEW m \in Registered'
      PROVE  /\ allocated'[m] = allocated[m]
             /\ m \in Registered \/ node[m].status = "none"
  <2>1. m \in Nodes /\ node'[m].status # "removed"
    BY DEF Registered
  <2>2. CASE m = n
    BY <1>1, <1>2, <1>4, <2>1, <2>2 DEF Registered
  <2>3. CASE m # n
    BY <1>4, <2>1, <2>3 DEF Registered
  <2>. QED BY <2>2, <2>3
<1>8. Registered' \subseteq Nodes
  BY DEF Registered
<1>. QED BY <1>1, <1>3, <1>5, <1>6, <1>7, <1>8, NothingMoves

-----------------------------------------------------------------------------
(* Steps that take a share *)

(* A counter r of the pods in X, after p was added to both. *)
LEMMA Take ==
  ASSUME NEW X \in SUBSET Pods, IsFiniteSet(X), NEW p \in Pods \ X,
         NEW r \in Resources, AtMost(r, Requests(X))
  PROVE  /\ Plus(r, Requests({p})) \in Resources
         /\ AtMost(Plus(r, Requests({p})), Requests(X \cup {p}))
         /\ r = Requests(X) => Plus(r, Requests({p})) = Requests(X \cup {p})
<1>1. /\ Requests(X) \in Resources /\ Requests({p}) \in Resources
      /\ Requests(X \cup {p}) = Plus(Requests(X), Requests({p}))
  BY SumWithOne, RequestOfOne
<1>2. AtMost(Plus(r, Requests({p})), Plus(Requests(X), Requests({p})))
  BY <1>1 DEF AtMost, Plus, Resources
<1>. QED BY <1>1, <1>2, Subtraction

LEMMA CreateKeeps ==
  ASSUME CoreInv, NEW p \in Pods, Create(p)
  PROVE  CoreInv'
<1>1. /\ pod'[p] = [status |-> "pending", node |-> NoNode]
      /\ \A q \in Pods \ {p} : pod'[q] = pod[q]
      /\ pod \in [Pods -> [status : Present \cup {"none", "deleted"}, node : Nodes \cup {NoNode}]]
      /\ pod'[p].node = pod[p].node
  BY DEF Create, CoreInv, TypeOK, Placement
<1>2. /\ LivePods' = LivePods \cup {p} /\ p \notin LivePods
      /\ Created' = Created \cup {p}
      /\ Registered' = Registered /\ \A n \in Nodes : PlacedOn(n)' = PlacedOn(n)
  BY <1>1, NoNodeIsNoNode
     DEF Create, Created, LivePods, Registered, PlacedOn, PodsOn, Present, Live, Placed
<1>3. IsFiniteSet(LivePods) /\ LivePods \in SUBSET Pods
  BY CountedAreFinite, CountedAreCreated DEF CoreInv, LivePods
<1>4. /\ Plus(usage, Requests({p})) \in Resources
      /\ AtMost(Plus(usage, Requests({p})), Requests(LivePods \cup {p}))
      /\ usage = Requests(LivePods)
           => Plus(usage, Requests({p})) = Requests(LivePods \cup {p})
  BY <1>2, <1>3, Take DEF CoreInv, Account, TypeOK
<1>5. Account(usage, LivePods, Quota)'
  BY <1>2, <1>4 DEF Create, HasQuota, CoreInv, Account
<1>6. TypeOK'
  BY <1>4 DEF Create, CoreInv, TypeOK, Present, Live
<1>7. IsFiniteSet(Created')
  BY <1>2, FS_AddElement DEF CoreInv
<1>8. Placement'
  BY <1>1 DEF Create, CoreInv, Placement
<1>9. \A n \in Registered' : Account(allocated[n], PlacedOn(n), Allocatable)'
  BY <1>2 DEF Create, CoreInv, Account, Registered
<1>. QED BY <1>5, <1>6, <1>7, <1>8, <1>9 DEF CoreInv

LEMMA ScheduleKeeps ==
  ASSUME CoreInv, NEW p \in Pods, NEW n \in Nodes, Schedule(p, n)
  PROVE  CoreInv'
<1>1. /\ pod'[p] = [status |-> "scheduled", node |-> n]
      /\ \A q \in Pods \ {p} : pod'[q] = pod[q]
      /\ pod[p] = [status |-> "pending", node |-> NoNode]
      /\ pod' \in [Pods -> [status : Present \cup {"none", "deleted"},
                            node : Nodes \cup {NoNode}]]
  BY DEF Schedule, CoreInv, TypeOK, Placement, Present, Live, Placed
<1>2. node[n].status = "online"
  BY DEF Schedule, Candidates, Schedulable
<1>3. /\ LivePods' = LivePods /\ Created' = Created
      /\ Registered' = Registered
      /\ \A m \in Nodes \ {n} : PlacedOn(m)' = PlacedOn(m)
  BY <1>1, NoNodeIsNoNode
     DEF Schedule, Created, LivePods, Registered, PlacedOn, PodsOn, Present, Live, Placed
<1>4. PlacedOn(n)' = PlacedOn(n) \cup {p} /\ p \notin PlacedOn(n)
  BY <1>1, NoNodeIsNoNode DEF PlacedOn, PodsOn, Present, Live, Placed
<1>5. IsFiniteSet(PlacedOn(n)) /\ PlacedOn(n) \in SUBSET Pods
  BY CountedAreFinite, CountedAreCreated DEF CoreInv, PlacedOn, PodsOn
<1>6. n \in Registered /\ allocated[n] \in Resources
  BY <1>2 DEF Registered, CoreInv, TypeOK
<1>7. /\ Plus(allocated[n], Requests({p})) \in Resources
      /\ AtMost(Plus(allocated[n], Requests({p})), Requests(PlacedOn(n) \cup {p}))
      /\ allocated[n] = Requests(PlacedOn(n))
           => Plus(allocated[n], Requests({p})) = Requests(PlacedOn(n) \cup {p})
  BY <1>4, <1>5, <1>6, Take DEF CoreInv, Account
<1>8. /\ allocated'[n] = Plus(allocated[n], Requests({p}))
      /\ \A m \in Nodes \ {n} : allocated'[m] = allocated[m]
      /\ AtMost(Plus(allocated[n], Requests({p})), Allocatable)
  BY DEF Schedule, Candidates, CoreInv, TypeOK
<1>9. ASSUME NEW m \in Registered'
      PROVE  Account(allocated[m], PlacedOn(m), Allocatable)'
  <2>1. CASE m = n
    BY <1>4, <1>6, <1>7, <1>8, <2>1 DEF Schedule, CoreInv, Account
  <2>2. CASE m # n
    BY <1>3, <1>8, <2>2 DEF Schedule, CoreInv, Account, Registered
  <2>. QED BY <2>1, <2>2
<1>10. TypeOK'
  BY <1>1, <1>7 DEF Schedule, CoreInv, TypeOK
<1>11. Placement'
  BY <1>1, <1>2, <1>8 DEF Schedule, CoreInv, Placement
<1>12. Account(usage, LivePods, Quota)'
  BY <1>3 DEF Schedule, CoreInv, Account
<1>. QED BY <1>3, <1>9, <1>10, <1>11, <1>12 DEF CoreInv

(* What preemption frees is enough: with the victims gone, the counter     *)
(* that was exact fits the limit with p added.                             *)
LEMMA FreedIsEnough ==
  ASSUME NEW a \in Resources, NEW v \in Resources, NEW r \in Resources,
         r.pods = 1, v.pods >= 1, AtMost(v, a), AtMost(a, Allocatable),
         a.cpu + r.cpu <= Allocatable.cpu + v.cpu
  PROVE  AtMost(Plus(Minus(a, v), r), Allocatable)
<1>1. Minus(a, v) = [cpu |-> a.cpu - v.cpu, pods |-> a.pods - v.pods]
  BY DEF Minus, AtMost, Resources
<1>. QED BY <1>1, LimitsTyped DEF AtMost, Plus, Resources

LEMMA PreemptKeeps ==
  ASSUME CoreInv, NEW p \in Pods, NEW n \in Nodes, Preempt(p, n)
  PROVE  CoreInv'
<1>1. PICK V \in SUBSET Evictable(p, n) :
         /\ Victims(V, p, n)
         /\ pod' = [q \in Pods |->
                       IF q = p THEN [status |-> "scheduled", node |-> n]
                       ELSE IF q \in V THEN [pod[q] EXCEPT !.status = "evicted"]
                       ELSE pod[q]]
         /\ allocated' = [allocated EXCEPT ![n] =
                             Plus(Minus(@, Requests(V)), Requests({p}))]
         /\ usage' = Minus(usage, Requests(V))
  BY DEF Preempt
<1>2. /\ pod[p] = [status |-> "pending", node |-> NoNode]
      /\ node[n].status = "online"
      /\ UNCHANGED <<node, endedTwice>>
  BY DEF Preempt, Schedulable, CoreInv, TypeOK, Placement
<1>3. /\ V \in SUBSET PlacedOn(n) /\ V \in SUBSET LivePods /\ V \in SUBSET Pods
      /\ p \notin V /\ V # {} /\ Frees(V, p, n)
  <2>1. /\ \A q \in V : /\ q \in PodsOn(n) /\ q \in Pods
                          /\ pod[q].status \in {"running", "scheduled"}
    BY DEF Evictable, PodsOn
  <2>2. V # {} /\ Frees(V, p, n)
    BY <1>1 DEF Victims
  <2>. QED BY <1>2, <2>1, <2>2 DEF PlacedOn, LivePods, Live, Placed
<1>4. /\ pod'[p] = [status |-> "scheduled", node |-> n]
      /\ \A q \in V : pod'[q] = [status |-> "evicted", node |-> n]
      /\ \A q \in Pods : q # p /\ q \notin V => pod'[q] = pod[q]
      /\ \A q \in V : pod[q].node = n /\ pod[q].status \in Placed
  <2>1. \A q \in V : pod[q].node = n /\ pod[q].status \in Placed
    BY <1>3 DEF PlacedOn, PodsOn
  <2>2. \A q \in V : [pod[q] EXCEPT !.status = "evicted"] = [status |-> "evicted", node |-> n]
    BY <1>3, <2>1 DEF CoreInv, TypeOK
  <2>. QED BY <1>1, <1>3, <2>1, <2>2
<1>5. /\ LivePods' = LivePods \ V /\ Created' = Created /\ Registered' = Registered
      /\ \A m \in Nodes \ {n} : PlacedOn(m)' = PlacedOn(m)
      /\ PlacedOn(n)' = (PlacedOn(n) \ V) \cup {p}
      /\ p \notin PlacedOn(n)
  <2>1. LivePods' = LivePods \ V /\ Created' = Created
    BY <1>2, <1>4 DEF LivePods, Created, Live, Placed
  <2>2. \A m \in Nodes \ {n} : PlacedOn(m)' = PlacedOn(m)
    BY <1>2, <1>4, NoNodeIsNoNode DEF PlacedOn, PodsOn, Present, Live, Placed
  <2>3. PlacedOn(n)' = (PlacedOn(n) \ V) \cup {p} /\ p \notin PlacedOn(n)
    BY <1>2, <1>4, NoNodeIsNoNode DEF PlacedOn, PodsOn, Present, Live, Placed
  <2>. QED BY <1>2, <2>1, <2>2, <2>3 DEF Registered
<1>6. /\ n \in Registered /\ allocated[n] \in Resources /\ usage \in Resources
      /\ AtMost(allocated[n], Requests(PlacedOn(n))) /\ AtMost(usage, Requests(LivePods))
  BY <1>2 DEF Registered, CoreInv, TypeOK, Account
<1>7. /\ IsFiniteSet(PlacedOn(n)) /\ IsFiniteSet(LivePods) /\ IsFiniteSet(V)
      /\ IsFiniteSet(PlacedOn(n) \ V)
      /\ PlacedOn(n) \in SUBSET Pods /\ LivePods \in SUBSET Pods
  <2>1. IsFiniteSet(PlacedOn(n)) /\ IsFiniteSet(LivePods)
    BY CountedAreFinite, CountedAreCreated DEF CoreInv
  <2>2. IsFiniteSet(V) /\ IsFiniteSet(PlacedOn(n) \ V)
    BY <1>3, <2>1, FS_Subset, FS_Difference
  <2>. QED BY <2>1, <2>2 DEF PlacedOn, PodsOn, LivePods
<1>8. /\ Minus(usage, Requests(V)) \in Resources
      /\ AtMost(Minus(usage, Requests(V)), usage)
      /\ AtMost(Minus(usage, Requests(V)), Requests(LivePods \ V))
      /\ usage = Requests(LivePods) => Minus(usage, Requests(V)) = Requests(LivePods \ V)
  BY <1>3, <1>6, <1>7, Release
<1>9. Account(usage, LivePods, Quota)'
  <2>1. ~ endedTwice => AtMost(Minus(usage, Requests(V)), Quota)
    BY <1>6, <1>8, LimitsTyped, Transitive DEF CoreInv, Account
  <2>. QED BY <1>1, <1>2, <1>5, <1>8, <2>1 DEF CoreInv, Account
<1> DEFINE left == Minus(allocated[n], Requests(V))
<1>10. /\ left \in Resources
       /\ AtMost(left, Requests(PlacedOn(n) \ V))
       /\ allocated[n] = Requests(PlacedOn(n)) => left = Requests(PlacedOn(n) \ V)
  BY <1>3, <1>6, <1>7, Release
<1>11. /\ Plus(left, Requests({p})) \in Resources
       /\ AtMost(Plus(left, Requests({p})), Requests((PlacedOn(n) \ V) \cup {p}))
       /\ left = Requests(PlacedOn(n) \ V)
            => Plus(left, Requests({p})) = Requests((PlacedOn(n) \ V) \cup {p})
  <2>1. PlacedOn(n) \ V \in SUBSET Pods /\ p \in Pods \ (PlacedOn(n) \ V)
    BY <1>5, <1>7
  <2>. QED BY <1>7, <1>10, <2>1, Take
<1>12. ~ endedTwice => AtMost(Plus(left, Requests({p})), Allocatable)
  <2> SUFFICES ASSUME ~ endedTwice PROVE AtMost(Plus(left, Requests({p})), Allocatable)
    OBVIOUS
  <2>1. allocated[n] = Requests(PlacedOn(n)) /\ AtMost(allocated[n], Allocatable)
    BY <1>6 DEF CoreInv, Account
  <2>2. /\ Requests(V) \in Resources /\ Requests(PlacedOn(n) \ V) \in Resources
        /\ Requests(PlacedOn(n)) = Plus(Requests(PlacedOn(n) \ V), Requests(V))
    BY <1>3, <1>7, SumOfParts
  <2>3. AtMost(Requests(V), allocated[n])
    BY <2>1, <2>2 DEF AtMost, Plus, Resources
  <2>4. Requests(V).pods >= 1
    <3>1. Cardinality(V) # 0
      BY <1>3, <1>7, FS_EmptySet
    <3>2. Cardinality(V) \in Nat
      BY <1>7, FS_CardinalityType
    <3>. QED BY <3>1, <3>2 DEF Requests
  <2>5. Requests({p}) \in Resources /\ Requests({p}).pods = 1 /\ Requests({p}).cpu = Cpu[p]
    <3>1. Requests({p}) = [cpu |-> Cpu[p], pods |-> 1] /\ Requests({p}) \in Resources
      BY RequestOfOne
    <3>. QED BY <3>1
  <2>6. allocated[n].cpu + Requests({p}).cpu <= Allocatable.cpu + Requests(V).cpu
    BY <1>3, <2>5 DEF Frees
  <2>. QED BY <1>6, <2>1, <2>2, <2>3, <2>4, <2>5, <2>6, FreedIsEnough
<1>13. /\ allocated'[n] = Plus(left, Requests({p}))
       /\ \A m \in Nodes \ {n} : allocated'[m] = allocated[m]
  BY <1>1 DEF CoreInv, TypeOK
<1>14. ASSUME NEW m \in Registered'
       PROVE  Account(allocated[m], PlacedOn(m), Allocatable)'
  <2>1. CASE m = n
    BY <1>2, <1>5, <1>6, <1>10, <1>11, <1>12, <1>13, <2>1 DEF CoreInv, Account
  <2>2. CASE m # n
    BY <1>2, <1>5, <1>13, <2>2 DEF CoreInv, Account, Registered
  <2>. QED BY <2>1, <2>2
<1>15. TypeOK'
  <2>1. pod' \in [Pods -> [status : Present \cup {"none", "deleted"}, node : Nodes \cup {NoNode}]]
    BY <1>1, <1>3, <1>4 DEF CoreInv, TypeOK, Present, Live, Placed
  <2>. QED BY <1>1, <1>2, <1>8, <1>11, <2>1 DEF CoreInv, TypeOK
<1>16. Placement'
  <2>1. ASSUME NEW q \in Pods, pod'[q].status \in {"none", "pending"}
        PROVE  pod'[q].node = NoNode
    BY <1>3, <1>4, <2>1 DEF CoreInv, Placement
  <2>2. ASSUME NEW m \in Nodes, node'[m].status = "none"
        PROVE  allocated'[m] = Nothing /\ \A q \in Pods : pod'[q].node # m
    <3>1. m # n /\ node[m].status = "none"
      BY <1>2, <2>2
    <3>. QED BY <1>3, <1>4, <1>13, <3>1 DEF CoreInv, Placement
  <2>. QED BY <2>1, <2>2 DEF Placement
<1>. QED BY <1>5, <1>9, <1>14, <1>15, <1>16 DEF CoreInv

-----------------------------------------------------------------------------
(* Steps that give shares back *)

NodeType == [status : {"none", "online", "offline", "draining", "removed"}, cordoned : BOOLEAN]
PodType == [status : Present \cup {"none", "deleted"}, node : Nodes \cup {NoNode}]

(* The pods in P end, those in Q give their share of their node back: all  *)
(* that were placed, and perhaps some that had given it back before.       *)
LEMMA EndKeeps ==
  ASSUME CoreInv, NEW P \in SUBSET Created, NEW Q \in SUBSET P,
         \A p \in P : pod[p].status \in Placed => p \in Q,
         pod' \in [Pods -> PodType],
         \A p \in Pods \ P : pod'[p] = pod[p],
         \A p \in P : /\ pod'[p].status \notin Live \cup {"none"}
                      /\ pod'[p].node \in {pod[p].node, NoNode},
         allocated' = ReleasedOnNodes(Q),
         usage' = ReleasedInNamespace(P),
         endedTwice' = (endedTwice \/ ~ (P \subseteq LivePods)),
         node' \in [Nodes -> NodeType],
         Registered' = Registered,
         \A n \in Nodes : node'[n].status = "none" => node[n].status = "none"
  PROVE  CoreInv'
<1>1. /\ P \in SUBSET Pods /\ Q \in SUBSET Pods
      /\ IsFiniteSet(P) /\ IsFiniteSet(LivePods) /\ LivePods \in SUBSET Pods
      /\ usage \in Resources /\ AtMost(usage, Requests(LivePods))
  BY CountedAreFinite, CountedAreCreated DEF CoreInv, Account, TypeOK, Created, LivePods
<1>2. LivePods' = LivePods \ P
  BY <1>1 DEF LivePods
<1>3. Created' = Created
  BY <1>1 DEF Created
<1>4. /\ Minus(usage, Requests(P)) \in Resources
      /\ AtMost(Minus(usage, Requests(P)), usage)
      /\ AtMost(Minus(usage, Requests(P)), Requests(LivePods \ P))
      /\ P \subseteq LivePods /\ usage = Requests(LivePods)
           => Minus(usage, Requests(P)) = Requests(LivePods \ P)
  BY <1>1, Release
<1>5. Account(usage, LivePods, Quota)'
  <2>1. ~ endedTwice => AtMost(Minus(usage, Requests(P)), Quota)
    BY <1>1, <1>4, LimitsTyped, Transitive DEF CoreInv, Account
  <2>. QED BY <1>2, <1>4, <2>1 DEF CoreInv, Account, ReleasedInNamespace
<1> DEFINE R(n) == {p \in Q : pod[p].node = n}
<1>6. ASSUME NEW n \in Registered
      PROVE  /\ allocated'[n] = Minus(allocated[n], Requests(R(n)))
             /\ allocated'[n] \in Resources
             /\ Account(allocated[n], PlacedOn(n), Allocatable)'
  <2>1. n \in Nodes /\ n # NoNode
    BY NoNodeIsNoNode DEF Registered
  <2>2. /\ allocated'[n] = Minus(allocated[n], Requests(R(n)))
        /\ allocated[n] \in Resources /\ AtMost(allocated[n], Requests(PlacedOn(n)))
    BY <2>1 DEF ReleasedOnNodes, CoreInv, TypeOK, Account
  <2>3. PlacedOn(n)' = PlacedOn(n) \ R(n)
    BY <1>1, <2>1 DEF PlacedOn, PodsOn, Present, Live
  <2>4. P \subseteq LivePods => R(n) \subseteq PlacedOn(n)
    BY <1>1, <2>1 DEF CoreInv, Placement, LivePods, PlacedOn, PodsOn, Present, Live
  <2>5. /\ IsFiniteSet(PlacedOn(n)) /\ IsFiniteSet(R(n))
        /\ PlacedOn(n) \in SUBSET Pods /\ R(n) \in SUBSET Pods
    <3>1. R(n) \in SUBSET Created
      OBVIOUS
    <3>. QED BY <1>1, <2>1, <3>1, CountedAreFinite, CountedAreCreated DEF CoreInv, PlacedOn, PodsOn
  <2>6. /\ Minus(allocated[n], Requests(R(n))) \in Resources
        /\ AtMost(Minus(allocated[n], Requests(R(n))), allocated[n])
        /\ AtMost(Minus(allocated[n], Requests(R(n))), Requests(PlacedOn(n) \ R(n)))
        /\ R(n) \subseteq PlacedOn(n) /\ allocated[n] = Requests(PlacedOn(n))
             => Minus(allocated[n], Requests(R(n))) = Requests(PlacedOn(n) \ R(n))
    BY <2>2, <2>5, Release
  <2>7. ~ endedTwice => AtMost(Minus(allocated[n], Requests(R(n))), Allocatable)
    BY <2>2, <2>6, LimitsTyped, Transitive DEF CoreInv, Account
  <2>. QED BY <2>2, <2>3, <2>4, <2>6, <2>7 DEF CoreInv, Account
<1>7. \A n \in Nodes \ Registered : allocated'[n] = allocated[n]
  BY DEF ReleasedOnNodes
<1>8. TypeOK'
  <2>1. allocated' \in [Nodes -> Resources]
    <3>1. \A n \in Nodes : allocated'[n] \in Resources
      BY <1>6, <1>7 DEF CoreInv, TypeOK
    <3>2. DOMAIN allocated' = Nodes /\ allocated' = [n \in Nodes |-> allocated'[n]]
      BY DEF ReleasedOnNodes
    <3>. QED BY <3>1, <3>2
  <2>2. usage' \in Resources
    BY <1>4 DEF ReleasedInNamespace
  <2>3. endedTwice' \in BOOLEAN
    BY DEF CoreInv, TypeOK
  <2>. QED BY <2>1, <2>2, <2>3 DEF TypeOK, PodType, NodeType
<1>9. Placement'
  <2>1. ASSUME NEW p \in Pods, pod'[p].status \in {"none", "pending"}
        PROVE  pod'[p].node = NoNode
    BY <2>1 DEF CoreInv, Placement, Live
  <2>2. ASSUME NEW n \in Nodes, node'[n].status = "none"
        PROVE  allocated'[n] = Nothing /\ \A p \in Pods : pod'[p].node # n
    <3>1. node[n].status = "none" /\ n \notin Registered
      BY <2>2 DEF Registered
    <3>. QED BY <1>7, <3>1, NoNodeIsNoNode DEF CoreInv, Placement
  <2>. QED BY <2>1, <2>2 DEF Placement
<1>. QED BY <1>3, <1>5, <1>6, <1>8, <1>9 DEF CoreInv

LEMMA PodEnds ==
  ASSUME CoreInv, NEW p \in Pods, Stop(p) \/ Fail(p) \/ Evict(p) \/ Delete(p)
  PROVE  CoreInv'
<1>1. /\ {p} \in SUBSET Created
      /\ UNCHANGED node /\ Registered' = Registered
      /\ node' \in [Nodes -> NodeType]
      /\ pod \in [Pods -> PodType]
  BY DEF Stop, Fail, Evict, Delete, Created, Present, Live, Placed, Registered, CoreInv, TypeOK,
         PodType, NodeType
<1>2. ASSUME NEW status \in Present \ Live, End({p}, status)
      PROVE  CoreInv'
  <2>1. pod'[p] = [pod[p] EXCEPT !.status = status]
    BY <1>2 DEF End
  <2>2. pod'[p] = [status |-> status, node |-> pod[p].node]
    BY <1>1, <2>1 DEF PodType
  <2>3. \A q \in Pods \ {p} : pod'[q] = pod[q]
    BY <1>2 DEF End
  <2>4. pod' \in [Pods -> PodType]
    <3>1. \A q \in Pods : pod'[q] \in PodType
      BY <1>1, <2>2, <2>3 DEF PodType
    <3>2. pod' = [q \in Pods |-> pod'[q]]
      BY <1>2 DEF End
    <3>. QED BY <3>1, <3>2
  <2>5. status \notin Live \cup {"none"}
    BY DEF Present, Live, Placed
  <2>6. /\ allocated' = ReleasedOnNodes({p}) /\ usage' = ReleasedInNamespace({p})
        /\ endedTwice' = (endedTwice \/ ~ ({p} \subseteq LivePods))
    BY <1>2 DEF End
  <2>. QED BY <1>1, <2>2, <2>3, <2>4, <2>5, <2>6, EndKeeps
<1>3. CASE Stop(p)
  BY <1>2, <1>3 DEF Stop, Present, Live, Placed
<1>4. CASE Fail(p)
  BY <1>2, <1>4 DEF Fail, Present, Live, Placed
<1>5. CASE Evict(p)
  BY <1>2, <1>5 DEF Evict, Present, Live, Placed
<1>6. CASE Delete(p)
  <2> DEFINE Q == {p} \cap {q \in Pods : pod[q].status \in Placed}
  <2>1. /\ pod'[p] = [status |-> "deleted", node |-> NoNode]
        /\ \A q \in Pods \ {p} : pod'[q] = pod[q]
        /\ pod' \in [Pods -> PodType]
    BY <1>1, <1>6 DEF Delete, PodType
  <2>2. "deleted" \notin Live \cup {"none"}
    BY DEF Live, Placed
  <2>3. /\ allocated' = ReleasedOnNodes(Q) /\ usage' = ReleasedInNamespace({p})
        /\ endedTwice' = (endedTwice \/ p \notin LivePods)
    BY <1>6 DEF Delete
  <2>4. Q \in SUBSET {p} /\ (pod[p].status \in Placed => p \in Q)
    OBVIOUS
  <2>. QED BY <1>1, <2>1, <2>2, <2>3, <2>4, EndKeeps
<1>. QED BY <1>3, <1>4, <1>5, <1>6

LEMMA MissedKeeps ==
  ASSUME CoreInv, NEW n \in Nodes, MissedHeartbeats(n)
  PROVE  CoreInv'
<1> DEFINE P == ActiveOn(n)
<1>1. /\ P \in SUBSET Created /\ pod \in [Pods -> PodType]
      /\ End(P, "failed") /\ SetNode(n, "offline", node[n].cordoned)
      /\ node[n].status \in {"online", "draining"}
  BY CountedAreCreated DEF MissedHeartbeats, CoreInv, TypeOK, PodType
<1>2. \A p \in P : pod'[p] = [status |-> "failed", node |-> pod[p].node]
  BY <1>1 DEF End, PodType, Created
<1>3. \A q \in Pods \ P : pod'[q] = pod[q]
  BY <1>1 DEF End
<1>4. pod' \in [Pods -> PodType]
  <2>1. \A q \in Pods : pod'[q] \in PodType
    <3> TAKE q \in Pods
    <3>1. CASE q \in P
      <4>1. pod'[q] = [status |-> "failed", node |-> pod[q].node] /\ pod[q] \in PodType
        BY <1>1, <1>2, <3>1
      <4>. QED BY <4>1 DEF PodType, Present
    <3>2. CASE q \notin P
      BY <1>1, <1>3, <3>2
    <3>. QED BY <3>1, <3>2
  <2>2. pod' = [q \in Pods |-> pod'[q]]
    BY <1>1 DEF End
  <2>. QED BY <2>1, <2>2
<1>5. /\ node' \in [Nodes -> NodeType] /\ Registered' = Registered
      /\ \A m \in Nodes : node'[m].status = "none" => node[m].status = "none"
  BY <1>1 DEF SetNode, CoreInv, TypeOK, NodeType, Registered
<1>6. "failed" \notin Live \cup {"none"}
  BY DEF Live, Placed
<1>7. /\ allocated' = ReleasedOnNodes(P) /\ usage' = ReleasedInNamespace(P)
      /\ endedTwice' = (endedTwice \/ ~ (P \subseteq LivePods))
  BY <1>1 DEF End
<1>8. \A p \in P : /\ pod'[p].status \notin Live \cup {"none"}
                   /\ pod'[p].node \in {pod[p].node, NoNode}
  <2> TAKE p \in P
  <2>1. pod'[p] = [status |-> "failed", node |-> pod[p].node]
    BY <1>2
  <2>. QED BY <1>6, <2>1
<1>9. P \in SUBSET P /\ \A p \in P : pod[p].status \in Placed => p \in P
  OBVIOUS
<1> HIDE DEF P
<1>. QED BY <1>1, <1>3, <1>4, <1>5, <1>7, <1>8, <1>9, EndKeeps

LEMMA StepKeeps == CoreInv /\ [Next]_vars => CoreInv'
<1> SUFFICES ASSUME CoreInv, [Next]_vars PROVE CoreInv'
  OBVIOUS
<1>1. ASSUME NEW p \in Pods, Create(p) PROVE CoreInv'
  BY <1>1, CreateKeeps
<1>2. ASSUME NEW p \in Pods, NEW n \in Nodes, Schedule(p, n) PROVE CoreInv'
  BY <1>2, ScheduleKeeps
<1>3. ASSUME NEW p \in Pods, NEW n \in Nodes, Preempt(p, n) PROVE CoreInv'
  BY <1>3, PreemptKeeps
<1>4. ASSUME NEW p \in Pods, Start(p) \/ SetRunning(p) \/ SetStopped(p) PROVE CoreInv'
  BY <1>4, PodGoesOn
<1>5. ASSUME NEW p \in Pods, Stop(p) \/ Fail(p) \/ Evict(p) \/ Delete(p) PROVE CoreInv'
  BY <1>5, PodEnds
<1>6. ASSUME NEW n \in Nodes,
             Register(n) \/ Heartbeat(n) \/ Disconnect(n) \/ Drain(n) \/ Uncordon(n)
               \/ Deregister(n)
      PROVE  CoreInv'
  BY <1>6, NodeChanges
<1>7. ASSUME NEW n \in Nodes, MissedHeartbeats(n) PROVE CoreInv'
  BY <1>7, MissedKeeps
<1>8. CASE UNCHANGED vars
  BY <1>8 DEF vars, CoreInv, TypeOK, Created, Placement, Account, Registered, PlacedOn, PodsOn,
              LivePods
<1>. QED BY <1>1, <1>2, <1>3, <1>4, <1>5, <1>6, <1>7, <1>8 DEF Next

LEMMA CoreInvariant == Spec => []CoreInv
<1>. QED BY InitHolds, StepKeeps, PTL DEF Spec

(* pod-scheduler.ts, node-manager.ts: in every order of the calls, no      *)
(* share of a node or of the namespace is counted for good.                *)
THEOREM NoShareIsLost == Spec => []SharesSafe
<1>1. CoreInv => SharesSafe
  BY DEF CoreInv, SharesSafe, NothingLeaks, Account
<1>. QED BY <1>1, CoreInvariant, PTL

(* The same: while no pod is ended twice, the counters are exact, no node  *)
(* is over-committed and the quota holds.                                  *)
THEOREM CountersAreExact == Spec => []EndedOnceIsExact
<1>1. CoreInv => EndedOnceIsExact
  BY DEF CoreInv, EndedOnceIsExact, Account
<1>. QED BY <1>1, CoreInvariant, PTL

-----------------------------------------------------------------------------
(* Preemption *)

(* What PreemptionServesPriority says of p placed and q evicted. *)
Serves(p, q) ==
  /\ pod[q].node = pod'[p].node
  /\ Priority[q] < Priority[p]
  /\ \A r \in Pods : (/\ r # p /\ pod'[r].node = pod[q].node
                      /\ pod'[r].status \in {"running", "scheduled"})
                       => Priority[q] <= Priority[r]

(* Only Preempt places a pod and evicts another in one step. *)
LEMMA OnlyPreemptDoesBoth ==
  ASSUME CoreInv, Next, NEW p \in Pods, NEW q \in Pods,
         pod[p].status = "pending", pod'[p].status = "scheduled",
         pod[q].status # "evicted", pod'[q].status = "evicted"
  PROVE  \E n \in Nodes : Preempt(p, n)
<1>1. p # q
  OBVIOUS
<1>2. pod \in [Pods -> PodType]
  BY DEF CoreInv, TypeOK, PodType
<1>3. ASSUME NEW r \in Pods, Create(r) \/ Start(r) \/ SetRunning(r) \/ SetStopped(r)
      PROVE  FALSE
  BY <1>2, <1>3 DEF Create, Start, SetRunning, SetStopped, PodType
<1>4. ASSUME NEW r \in Pods, NEW n \in Nodes, Schedule(r, n) PROVE FALSE
  BY <1>2, <1>4 DEF Schedule, PodType
<1>5. ASSUME NEW P \in SUBSET Pods, NEW status \in {"stopping", "failed", "evicted"},
             End(P, status)
      PROVE  FALSE
  <2>1. pod'[p] = pod[p] \/ pod'[p] = [status |-> status, node |-> pod[p].node]
    <3>1. pod'[p] = IF p \in P THEN [pod[p] EXCEPT !.status = status] ELSE pod[p]
      BY <1>5 DEF End
    <3>2. [pod[p] EXCEPT !.status = status] = [status |-> status, node |-> pod[p].node]
      BY <1>2 DEF PodType
    <3>. QED BY <3>1, <3>2
  <2>. QED BY <2>1
<1>6. ASSUME NEW r \in Pods, Stop(r) \/ Fail(r) \/ Evict(r) PROVE FALSE
  BY <1>5, <1>6 DEF Stop, Fail, Evict
<1>7. ASSUME NEW r \in Pods, Delete(r) PROVE FALSE
  BY <1>2, <1>7 DEF Delete, PodType
<1>8. ASSUME NEW n \in Nodes, MissedHeartbeats(n) PROVE FALSE
  BY <1>5, <1>8 DEF MissedHeartbeats, ActiveOn, PodsOn
<1>9. ASSUME NEW n \in Nodes,
             Register(n) \/ Heartbeat(n) \/ Disconnect(n) \/ Drain(n) \/ Uncordon(n)
               \/ Deregister(n)
      PROVE  FALSE
  BY <1>9 DEF Register, Heartbeat, Disconnect, Drain, Uncordon, Deregister
<1>10. PICK r \in Pods, n \in Nodes : Preempt(r, n)
  BY <1>3, <1>4, <1>6, <1>7, <1>8, <1>9 DEF Next
<1>11. r = p
  <2>1. PICK V \in SUBSET Evictable(r, n) :
          pod' = [s \in Pods |->
                    IF s = r THEN [status |-> "scheduled", node |-> n]
                    ELSE IF s \in V THEN [pod[s] EXCEPT !.status = "evicted"]
                    ELSE pod[s]]
    BY <1>10 DEF Preempt
  <2>2. p \notin V
    BY DEF Evictable
  <2>. QED BY <2>1, <2>2
<1>. QED BY <1>10, <1>11

LEMMA PreemptServes ==
  ASSUME CoreInv, NEW p \in Pods, NEW q \in Pods, NEW n \in Nodes, Preempt(p, n),
         pod[q].status # "evicted", pod'[q].status = "evicted"
  PROVE  Serves(p, q)
<1>1. PICK V \in SUBSET Evictable(p, n) :
         /\ Victims(V, p, n)
         /\ pod' = [s \in Pods |->
                       IF s = p THEN [status |-> "scheduled", node |-> n]
                       ELSE IF s \in V THEN [pod[s] EXCEPT !.status = "evicted"]
                       ELSE pod[s]]
  BY DEF Preempt
<1>2. q \in V /\ q # p
  BY <1>1
<1>3. pod[q].node = n /\ Priority[q] < Priority[p] /\ pod'[p].node = n
  BY <1>1, <1>2 DEF Evictable, PodsOn
<1>4. ASSUME NEW r \in Pods, r # p, pod'[r].node = n,
             pod'[r].status \in {"running", "scheduled"}
      PROVE  Priority[q] <= Priority[r]
  <2>0. pod \in [Pods -> PodType]
    BY DEF CoreInv, TypeOK, PodType
  <2>1. r \notin V
    BY <1>1, <1>4, <2>0 DEF PodType
  <2>2. pod'[r] = pod[r]
    BY <1>1, <1>4, <2>1
  <2>3. r \in PodsOn(n)
    BY <1>4, <2>2 DEF PodsOn, Present, Live, Placed
  <2>4. CASE Priority[r] < Priority[p]
    <3>1. r \in Evictable(p, n) \ V
      BY <1>4, <2>1, <2>2, <2>3, <2>4 DEF Evictable
    <3>. QED BY <1>1, <1>2, <3>1 DEF Victims
  <2>5. CASE ~ (Priority[r] < Priority[p])
    BY <1>3, <2>5, RequestsAreNumbers
  <2>. QED BY <2>4, <2>5
<1>. QED BY <1>3, <1>4 DEF Serves

(* pod-scheduler.ts: a pod is evicted for one of higher priority only, on  *)
(* the node that one goes to, and before pods of higher priority than its  *)
(* own.                                                                    *)
THEOREM PriorityIsServed == Spec => PreemptionServesPriority
<1> DEFINE A == \A p, q \in Pods :
                  (/\ pod[p].status = "pending" /\ pod'[p].status = "scheduled"
                   /\ pod[q].status # "evicted" /\ pod'[q].status = "evicted") => Serves(p, q)
<1>1. CoreInv /\ [Next]_vars => [A]_vars
  BY OnlyPreemptDoesBoth, PreemptServes
<1>2. CoreInv /\ [Next]_vars =>
        [\A p, q \in Pods :
           (/\ pod[p].status = "pending" /\ pod'[p].status = "scheduled"
            /\ pod[q].status # "evicted" /\ pod'[q].status = "evicted") =>
              /\ pod[q].node = pod'[p].node
              /\ Priority[q] < Priority[p]
              /\ \A r \in Pods :
                    (/\ r # p /\ pod'[r].node = pod[q].node
                     /\ pod'[r].status \in {"running", "scheduled"})
                       => Priority[q] <= Priority[r]]_vars
  BY <1>1 DEF Serves
<1>. QED BY <1>2, CoreInvariant, PTL DEF Spec, PreemptionServesPriority

=============================================================================
