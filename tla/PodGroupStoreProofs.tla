-------------------------- MODULE PodGroupStoreProofs --------------------------
(***************************************************************************)
(* Proofs about PodGroupStore, for any groups, pods, times to live and     *)
(* limits: the indices are the cache's keys, the limits hold, no metadata  *)
(* leaks, and the store implements GroupMembership.                        *)
(***************************************************************************)
EXTENDS PodGroupStore, FiniteSetTheorems, TLAPS

(* Rounding up to whole seconds never shortens a time to live. *)
LEMMA RoundedUp == ASSUME NEW t \in Nat PROVE CacheTtl(t) \in Nat /\ t <= CacheTtl(t)
<1> DEFINE k == TicksPerSecond
           q == (t + k - 1) \div k
           r == (t + k - 1) % k
<1>1. k \in Nat \ {0}
  BY StoreAssumption
<1>2. q \in Int /\ r \in 0 .. k - 1 /\ t + k - 1 = k * q + r
  BY <1>1
<1>3. k * q \in Int /\ q * k = k * q
  BY <1>1, <1>2
<1>. QED BY <1>1, <1>2, <1>3 DEF CacheTtl

LEMMA InitStore == Init => StoreInv /\ NoMetaLeak
BY StoreAssumption DEF Init, StoreInv, TypeOK, IndexIsCache, NoMetaLeak, Members, Ages

(* What deleting keys does to the rest of the store. *)
LEMMA DropKeeps ==
  ASSUME StoreInv, NEW S \in SUBSET Members, Drop(S)
  PROVE  /\ StoreInv'
         /\ NoMetaLeak => NoMetaLeak'
         /\ \A g \in Groups : groupIndex'[g] \subseteq groupIndex[g]
<1> USE DEF StoreInv, TypeOK, Drop
<1>1. TypeOK'
  BY StoreAssumption DEF PodsOf, GroupsOf, Ages
<1>2. IndexIsCache'
  BY DEF IndexIsCache, PodsOf, GroupsOf, Members
<1>3. ASSUME NoMetaLeak, NEW g \in groupMeta' PROVE g \in ActiveGroups'
  <2>1. g \in Groups /\ g \in ActiveGroups /\ ~ groupIndex[g] \subseteq PodsOf(g, S)
    BY <1>3 DEF NoMetaLeak, ActiveGroups
  <2>2. groupIndex'[g] # {}
    BY <2>1
  <2>. QED BY <2>1, <2>2 DEF ActiveGroups
<1>4. \A g \in Groups : groupIndex'[g] \subseteq groupIndex[g]
  OBVIOUS
<1>. QED BY <1>1, <1>2, <1>3, <1>4 DEF NoMetaLeak

(* What the operations that delete keys delete. *)
Lapsed == {m \in keys : ~ Fresh(m)}

(* Ages and times to live are numbers. *)
LEMMA Times == ASSUME TypeOK, NEW m \in Members PROVE age[m] \in Nat /\ ttl[m] \in Nat
<1>1. Ttls \subseteq Nat /\ MaxAge \in Nat
  BY StoreAssumption
<1>2. Ttls \cup {0} \subseteq Nat /\ Ages \subseteq Nat
  BY <1>1 DEF Ages
<1>3. age[m] \in Ages /\ ttl[m] \in Ttls \cup {0}
  BY DEF TypeOK
<1>. QED BY <1>2, <1>3

LEMMA ExpiredLapsed == ASSUME StoreInv, NEW m \in Members, Expired(m) \/ Reapable(m)
                       PROVE  m \in Lapsed
<1>1. m \in keys /\ ttl[m] > 0
  BY DEF Expired, Reapable
<1>2. age[m] \in Nat /\ ttl[m] \in Nat
  BY Times DEF StoreInv
<1>3. age[m] > ttl[m]
  <2>1. CASE Reapable(m)
    BY <2>1 DEF Reapable
  <2>2. CASE Expired(m)
    <3>1. age[m] > CacheTtl(ttl[m])
      BY <2>2 DEF Expired
    <3>2. CacheTtl(ttl[m]) \in Nat /\ ttl[m] <= CacheTtl(ttl[m])
      BY <1>2, RoundedUp
    <3>. QED BY <1>2, <3>1, <3>2
  <2>. QED BY <2>1, <2>2
<1>. QED BY <1>1, <1>2, <1>3 DEF Lapsed, Fresh

LEMMA UnlistedLapsed == ASSUME StoreInv, NEW g \in Groups PROVE Unlisted(g) \subseteq Lapsed
<1> SUFFICES ASSUME NEW p \in groupIndex[g], <<g, p>> \notin keys \/ Expired(<<g, p>>)
             PROVE  <<g, p>> \in Lapsed
  BY DEF Unlisted
<1>1. p \in Pods /\ <<g, p>> \in Members /\ <<g, p>> \in keys
  BY DEF StoreInv, TypeOK, IndexIsCache, Members
<1>. QED BY <1>1, ExpiredLapsed

(* Every step joins, lets a pod leave, expires lapsed keys, clears, ages. *)
StoreSteps ==
  \/ \E g \in Groups, p \in Pods, t \in Ttls : JoinGroup(g, p, t)
  \/ \E p \in Pods : \E S \in SUBSET (Groups \X {p}) : S \subseteq keys /\ Drop(S)
  \/ \E S \in SUBSET Lapsed : Drop(S)
  \/ Clear
  \/ Tick
  \/ UNCHANGED vars

LEMMA StepKinds == ASSUME StoreInv, [Next]_vars PROVE StoreSteps
<1> USE DEF StoreSteps
<1>1. ASSUME NEW g \in Groups, NEW p \in Pods, LeaveGroup(g, p) PROVE StoreSteps
  <2>1. {<<g, p>>} \in SUBSET (Groups \X {p}) /\ {<<g, p>>} \subseteq keys /\ Drop({<<g, p>>})
    BY <1>1 DEF LeaveGroup
  <2>. QED BY <2>1
<1>2. ASSUME NEW g \in Groups, NEW p \in Pods, IsMember(g, p) PROVE StoreSteps
  <2>1. {<<g, p>>} \subseteq Lapsed /\ Drop({<<g, p>>})
    BY <1>2, ExpiredLapsed DEF IsMember, Members
  <2>. QED BY <2>1
<1>3. ASSUME NEW p \in Pods, LeaveAllGroups(p) PROVE StoreSteps
  <2> DEFINE S == {<<g, p>> : g \in podIndex[p]}
  <2>1. S \in SUBSET (Groups \X {p}) /\ S \subseteq keys
    BY DEF StoreInv, TypeOK, IndexIsCache
  <2>2. Drop(S)
    BY <1>3 DEF LeaveAllGroups
  <2>. QED BY <2>1, <2>2
<1>4. ASSUME NEW g \in Groups, GetGroupPods(g) PROVE StoreSteps
  BY <1>4, UnlistedLapsed DEF GetGroupPods
<1>5. CASE Snapshot
  <2> DEFINE gone == UNION {Unlisted(g) : g \in ActiveGroups \cap groupMeta}
  <2>1. gone \subseteq Lapsed
    BY UnlistedLapsed DEF ActiveGroups
  <2>2. Drop(gone)
    BY <1>5 DEF Snapshot
  <2>. QED BY <2>1, <2>2
<1>6. CASE ReapStaleMembers
  <2> DEFINE stale == {m \in keys : Expired(m) \/ Reapable(m)}
  <2>1. stale \subseteq Lapsed
    BY ExpiredLapsed DEF StoreInv, TypeOK
  <2>2. Drop(stale)
    BY <1>6 DEF ReapStaleMembers
  <2>. QED BY <2>1, <2>2
<1>. QED BY <1>1, <1>2, <1>3, <1>4, <1>5, <1>6 DEF Next

LEMMA JoinKeeps ==
  ASSUME StoreInv, NEW g \in Groups, NEW p \in Pods, NEW t \in Ttls, JoinGroup(g, p, t)
  PROVE  /\ StoreInv'
         /\ NoMetaLeak => NoMetaLeak'
<1> USE DEF StoreInv, TypeOK, JoinGroup
<1>1. TypeOK'
  BY StoreAssumption DEF Members, Ages
<1>2. IndexIsCache'
  BY DEF IndexIsCache, Members
<1>3. NoMetaLeak => NoMetaLeak'
  BY DEF NoMetaLeak, ActiveGroups
<1>. QED BY <1>1, <1>2, <1>3

LEMMA ClearKeeps == Clear => StoreInv' /\ NoMetaLeak'
BY StoreAssumption DEF Clear, StoreInv, TypeOK, IndexIsCache, NoMetaLeak, Members, Ages

LEMMA TickKeeps == StoreInv /\ Tick => StoreInv' /\ (NoMetaLeak => NoMetaLeak')
BY StoreAssumption
   DEF Tick, StoreInv, TypeOK, IndexIsCache, NoMetaLeak, ActiveGroups, Members, Ages

LEMMA LapsedType == StoreInv => SUBSET Lapsed \subseteq SUBSET Members
BY DEF StoreInv, TypeOK, Lapsed

LEMMA StoreKept ==
  ASSUME StoreInv, [Next]_vars
  PROVE  StoreInv' /\ (NoMetaLeak => NoMetaLeak')
<1>1. CASE UNCHANGED vars
  BY <1>1 DEF vars, StoreInv, TypeOK, IndexIsCache, NoMetaLeak, ActiveGroups
<1>2. ASSUME NEW p \in Pods, NEW S \in SUBSET (Groups \X {p}), Drop(S)
      PROVE  StoreInv' /\ (NoMetaLeak => NoMetaLeak')
  <2>1. S \in SUBSET Members
    BY DEF Members
  <2>. QED BY <1>2, <2>1, DropKeeps
<1>3. ASSUME NEW S \in SUBSET Lapsed, Drop(S)
      PROVE  StoreInv' /\ (NoMetaLeak => NoMetaLeak')
  BY <1>3, DropKeeps, LapsedType
<1>. QED BY <1>1, <1>2, <1>3, StepKinds, JoinKeeps, ClearKeeps, TickKeeps DEF StoreSteps

(* The indices always hold exactly the cache's keys. *)
THEOREM IndexAgrees == Spec => []StoreInv
<1>1. StoreInv /\ [Next]_vars => StoreInv'
  BY StoreKept
<1>. QED BY <1>1, InitStore, PTL DEF Spec

(* A group that is gone leaves no metadata behind. *)
THEOREM MetaOfGroups == Spec => []NoMetaLeak
<1>1. StoreInv /\ NoMetaLeak /\ [Next]_vars => NoMetaLeak'
  BY StoreKept
<1>. QED BY <1>1, IndexAgrees, InitStore, PTL DEF Spec

(* Indices, cache and metadata agree in every reachable state.             *)
THEOREM StoreIsSafe == Spec => []StoreSafe
BY IndexAgrees, MetaOfGroups, PTL DEF StoreSafe

-----------------------------------------------------------------------------
(* The limits. *)

LEMMA FiniteParts ==
  ASSUME TypeOK
  PROVE  /\ IsFiniteSet(ActiveGroups) /\ Cardinality(ActiveGroups) \in Nat
         /\ \A g \in Groups : IsFiniteSet(groupIndex[g]) /\ Cardinality(groupIndex[g]) \in Nat
<1>1. ActiveGroups \in SUBSET Groups /\ \A g \in Groups : groupIndex[g] \in SUBSET Pods
  BY DEF ActiveGroups, TypeOK
<1>. QED BY <1>1, StoreAssumption, FS_Subset, FS_CardinalityType

(* Fewer members, fewer groups: the limits still hold. *)
LEMMA FewerMembers ==
  ASSUME TypeOK, LimitsHold, \A g \in Groups : groupIndex'[g] \subseteq groupIndex[g]
  PROVE  LimitsHold'
<1>1. ActiveGroups' \in SUBSET ActiveGroups
  BY DEF ActiveGroups
<1>2. Cardinality(ActiveGroups') <= Cardinality(ActiveGroups)
  BY <1>1, FiniteParts, FS_Subset
<1>3. IsFiniteSet(ActiveGroups') /\ Cardinality(ActiveGroups') \in Nat
  BY <1>1, FiniteParts, FS_Subset, FS_CardinalityType
<1>4. ASSUME NEW g \in Groups
      PROVE  /\ Cardinality(groupIndex'[g]) \in Nat
             /\ Cardinality(groupIndex'[g]) <= Cardinality(groupIndex[g])
  <2>1. groupIndex'[g] \in SUBSET groupIndex[g]
    OBVIOUS
  <2>. QED BY <2>1, FiniteParts, FS_Subset, FS_CardinalityType
<1>. QED BY <1>2, <1>3, <1>4, FiniteParts, StoreAssumption DEF LimitsHold

LEMMA JoinWithinLimits ==
  ASSUME TypeOK, LimitsHold, NEW g \in Groups, NEW p \in Pods, NEW t \in Ttls, JoinGroup(g, p, t)
  PROVE  LimitsHold'
<1>1. ASSUME MaxGroups > 0 PROVE Cardinality(ActiveGroups') <= MaxGroups
  <2>1. ActiveGroups' = ActiveGroups \cup {g}
    BY DEF ActiveGroups, JoinGroup, TypeOK
  <2>2. Cardinality(ActiveGroups') =
          IF g \in ActiveGroups THEN Cardinality(ActiveGroups) ELSE Cardinality(ActiveGroups) + 1
    BY <2>1, FiniteParts, FS_AddElement
  <2>3. g \notin ActiveGroups => ~ (Cardinality(ActiveGroups) >= MaxGroups)
    BY <1>1 DEF JoinGroup, GroupsFull
  <2>. QED BY <1>1, <2>2, <2>3, FiniteParts, StoreAssumption DEF LimitsHold
<1>2. ASSUME MaxMembers > 0, NEW h \in Groups PROVE Cardinality(groupIndex'[h]) <= MaxMembers
  <2>1. CASE h # g
    BY <1>2, <2>1 DEF LimitsHold, JoinGroup, TypeOK
  <2>2. CASE h = g
    <3>1. groupIndex'[g] = groupIndex[g] \cup {p}
      BY DEF JoinGroup, TypeOK
    <3>2. Cardinality(groupIndex'[g]) =
            IF p \in groupIndex[g] THEN Cardinality(groupIndex[g])
                                   ELSE Cardinality(groupIndex[g]) + 1
      BY <3>1, FiniteParts, FS_AddElement
    <3>3. CASE p \in groupIndex[g]
      BY <1>2, <2>2, <3>2, <3>3 DEF LimitsHold
    <3>4. CASE g \notin ActiveGroups
      <4>1. Cardinality(groupIndex[g]) = 0
        BY <3>4, FS_EmptySet DEF ActiveGroups
      <4>. QED BY <1>2, <2>2, <3>2, <4>1, StoreAssumption
    <3>5. CASE g \in ActiveGroups /\ p \notin groupIndex[g]
      <4>1. ~ (Cardinality(groupIndex[g]) >= MaxMembers)
        BY <1>2, <3>5 DEF JoinGroup, MembersFull
      <4>. QED BY <2>2, <3>2, <3>5, <4>1, FiniteParts, StoreAssumption
    <3>. QED BY <3>3, <3>4, <3>5
  <2>. QED BY <2>1, <2>2
<1>. QED BY <1>1, <1>2 DEF LimitsHold

LEMMA LimitsKept == ASSUME StoreInv, LimitsHold, [Next]_vars PROVE LimitsHold'
<1> USE DEF StoreInv
<1>1. CASE Clear \/ Tick \/ UNCHANGED vars
  BY <1>1, FewerMembers DEF Clear, Tick, vars
<1>2. ASSUME NEW p \in Pods, NEW S \in SUBSET (Groups \X {p}), Drop(S) PROVE LimitsHold'
  <2>1. S \in SUBSET Members
    BY DEF Members
  <2>. QED BY <1>2, <2>1, DropKeeps, FewerMembers
<1>3. ASSUME NEW S \in SUBSET Lapsed, Drop(S) PROVE LimitsHold'
  BY <1>3, DropKeeps, LapsedType, FewerMembers
<1>. QED BY <1>1, <1>2, <1>3, StepKinds, JoinWithinLimits DEF StoreSteps

LEMMA InitLimits == Init => LimitsHold
<1> SUFFICES ASSUME Init PROVE LimitsHold
  OBVIOUS
<1>1. ActiveGroups = {} /\ \A g \in Groups : groupIndex[g] = {}
  BY DEF Init, ActiveGroups
<1>. QED BY <1>1, FS_EmptySet, StoreAssumption DEF LimitsHold

(* The configured numbers of groups and of members are never exceeded. *)
THEOREM Limits == Spec => []LimitsHold
<1>1. StoreInv /\ LimitsHold /\ [Next]_vars => LimitsHold'
  BY LimitsKept
<1>. QED BY <1>1, IndexAgrees, InitLimits, PTL DEF Spec

-----------------------------------------------------------------------------
(* The refinement. *)

FreshKeys == {m \in keys : Fresh(m)}

(* Dropping keys keeps the others as fresh as they were. *)
LEMMA DropFresh ==
  ASSUME StoreInv, NEW S \in SUBSET Members, Drop(S)
  PROVE  keys' = keys \ S /\ FreshKeys' = FreshKeys \ S
BY DEF Drop, FreshKeys, Fresh, StoreInv, TypeOK

LEMMA StepRefines == ASSUME StoreInv, [Next]_vars PROVE [Abstract!Next]_<<keys, FreshKeys>>
<1> USE DEF StoreInv, TypeOK, Abstract!Next
<1>1. ASSUME NEW g \in Groups, NEW p \in Pods, NEW t \in Ttls, JoinGroup(g, p, t)
      PROVE  Abstract!Next
  <2>1. keys' = keys \cup {<<g, p>>} /\ FreshKeys' = FreshKeys \cup {<<g, p>>}
    BY <1>1, StoreAssumption DEF JoinGroup, FreshKeys, Fresh, Members
  <2>. QED BY <2>1 DEF Abstract!Join, FreshKeys
<1>2. ASSUME NEW p \in Pods, NEW S \in SUBSET (Groups \X {p}), S \subseteq keys, Drop(S)
      PROVE  Abstract!Next
  <2>1. S \in SUBSET Members
    BY DEF Members
  <2>2. keys' = keys \ S /\ FreshKeys' = FreshKeys \ S
    BY <1>2, <2>1, DropFresh
  <2>3. Abstract!Leave(p, S)
    BY <1>2, <2>2 DEF Abstract!Leave, FreshKeys
  <2>. QED BY <2>3
<1>3. ASSUME NEW S \in SUBSET Lapsed, Drop(S) PROVE Abstract!Next
  <2>1. keys' = keys \ S /\ FreshKeys' = FreshKeys
    BY <1>3, DropFresh, LapsedType DEF Lapsed, FreshKeys
  <2>2. FreshKeys \subseteq keys'
    BY <2>1 DEF FreshKeys, Lapsed
  <2>. QED BY <2>1, <2>2 DEF Abstract!Expire, FreshKeys
<1>4. CASE Clear
  BY <1>4 DEF Clear, Abstract!Reset, FreshKeys
<1>5. CASE Tick
  <2>1. ASSUME NEW m \in keys, Fresh(m)' PROVE Fresh(m)
    <3>1. age[m] \in Nat /\ ttl[m] \in Nat
      BY Times
    <3>2. ttl'[m] = ttl[m] /\ age'[m] \in {age[m], age[m] + 1}
      BY <1>5 DEF Tick
    <3>3. ttl'[m] = 0 \/ age'[m] <= ttl'[m]
      BY <2>1 DEF Fresh
    <3>. QED BY <3>1, <3>2, <3>3 DEF Fresh
  <2>2. keys' = keys /\ FreshKeys' \subseteq FreshKeys
    BY <1>5, <2>1 DEF Tick, FreshKeys
  <2>. QED BY <2>2 DEF Abstract!Lapse, FreshKeys
<1>6. CASE UNCHANGED vars
  BY <1>6 DEF vars, FreshKeys, Fresh
<1>. QED BY <1>1, <1>2, <1>3, <1>4, <1>5, <1>6, StepKinds DEF StoreSteps

(* The store keeps what GroupMembership promises: a member disappears only *)
(* by leaving, by a reset of the whole store, or past its time to live.    *)
THEOREM Implementation == Spec => ImplementsMembership
<1>1. Init => Abstract!Init
  BY DEF Init, Abstract!Init
<1>2. StoreInv /\ [Next]_vars => [Abstract!Next]_(Abstract!vars)
  BY StepRefines DEF Abstract!vars, FreshKeys
<1>. QED BY <1>1, <1>2, IndexAgrees, PTL DEF Spec, ImplementsMembership, Abstract!Spec

=============================================================================
