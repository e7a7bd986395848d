----------------------------- MODULE PodGroupStore -----------------------------
(***************************************************************************)
(* The orchestrator's in-memory store of pod group memberships: a          *)
(* node-cache with a time to live per key, two indices over its keys and   *)
(* metadata per group, which four kinds of removal keep in step: leaving,  *)
(* the cache's own expiry (noticed only when a key is touched), the reap   *)
(* cycle and clearing.  Every operation runs to its end on the event loop. *)
(*                                                                         *)
(* One Tick is a fraction of a second: the cache counts whole seconds,     *)
(* rounded up, the reap cycle milliseconds, so a membership can be past    *)
(* its time to live for the one and not for the other.                     *)
(***************************************************************************)
EXTENDS Integers, FiniteSets

CONSTANTS Groups, Pods,
          Ttls,            (* times to live asked for, in ticks; 0: no end  *)
          TicksPerSecond,
          MaxGroups,       (* config.maxGroups, 0: no limit                 *)
          MaxMembers,      (* config.maxMembersPerGroup, 0: no limit        *)
          MaxAge           (* ages beyond every time to live are not told   *)
                           (* apart                                         *)

(* Whole seconds, rounded up, in ticks. *)
CacheTtl(t) == ((t + TicksPerSecond - 1) \div TicksPerSecond) * TicksPerSecond

ASSUME StoreAssumption ==
  /\ IsFiniteSet(Groups) /\ IsFiniteSet(Pods)
  /\ Ttls \subseteq Nat
  /\ TicksPerSecond \in Nat \ {0}
  /\ MaxGroups \in Nat /\ MaxMembers \in Nat /\ MaxAge \in Nat
  /\ \A t \in Ttls : CacheTtl(t) < MaxAge

VARIABLES
  keys,        (* the cache's keys, lapsed ones included *)
  age, ttl,    (* since the last refresh, and asked for, of each key *)
  groupIndex, podIndex, groupMeta

vars == <<keys, age, ttl, groupIndex, podIndex, groupMeta>>

Members == Groups \X Pods
Ages == 0 .. MaxAge

Init ==
  /\ keys = {}
  /\ age = [m \in Members |-> 0]
  /\ ttl = [m \in Members |-> 0]
  /\ groupIndex = [g \in Groups |-> {}]
  /\ podIndex = [p \in Pods |-> {}]
  /\ groupMeta = {}

(* The cache's test, made when a key is touched. *)
Expired(m) == m \in keys /\ ttl[m] > 0 /\ age[m] > CacheTtl(ttl[m])

(* Mutant: >= for >. *)
ReapableEarly(m) == m \in keys /\ ttl[m] > 0 /\ age[m] >= ttl[m]

(* The reap cycle's test. *)
Reapable(m) == m \in keys /\ ttl[m] > 0 /\ age[m] > ttl[m]

ActiveGroups == {g \in Groups : groupIndex[g] # {}}
PodsOf(g, S) == {p \in Pods : <<g, p>> \in S}
GroupsOf(p, S) == {g \in Groups : <<g, p>> \in S}

(* Mutants: the reverse index is forgotten; the metadata is. *)
DropForward(S) ==
  /\ keys' = keys \ S
  /\ age' = [m \in Members |-> IF m \in S THEN 0 ELSE age[m]]
  /\ ttl' = [m \in Members |-> IF m \in S THEN 0 ELSE ttl[m]]
  /\ groupIndex' = [g \in Groups |-> groupIndex[g] \ PodsOf(g, S)]
  /\ groupMeta' = groupMeta \ {g \in Groups : groupIndex[g] # {} /\ groupIndex[g] \subseteq PodsOf(g, S)}
  /\ UNCHANGED podIndex
DropNoMeta(S) ==
  /\ keys' = keys \ S
  /\ age' = [m \in Members |-> IF m \in S THEN 0 ELSE age[m]]
  /\ ttl' = [m \in Members |-> IF m \in S THEN 0 ELSE ttl[m]]
  /\ groupIndex' = [g \in Groups |-> groupIndex[g] \ PodsOf(g, S)]
  /\ podIndex' = [p \in Pods |-> podIndex[p] \ GroupsOf(p, S)]
  /\ UNCHANGED groupMeta

(* Keys deleted and removed from the indices; a group that loses its last  *)
(* member is dissolved, metadata and all.                                  *)
Drop(S) ==
  /\ keys' = keys \ S
  /\ age' = [m \in Members |-> IF m \in S THEN 0 ELSE age[m]]
  /\ ttl' = [m \in Members |-> IF m \in S THEN 0 ELSE ttl[m]]
  /\ groupIndex' = [g \in Groups |-> groupIndex[g] \ PodsOf(g, S)]
  /\ podIndex' = [p \in Pods |-> podIndex[p] \ GroupsOf(p, S)]
  /\ groupMeta' = groupMeta \ {g \in ActiveGroups : groupIndex[g] \subseteq PodsOf(g, S)}

-----------------------------------------------------------------------------
(* Mutants: the limits off by one. *)
GroupsOverfull == MaxGroups > 0 /\ Cardinality(ActiveGroups) > MaxGroups

GroupsFull     == MaxGroups > 0 /\ Cardinality(ActiveGroups) >= MaxGroups
MembersFull(g) == MaxMembers > 0 /\ Cardinality(groupIndex[g]) >= MaxMembers

(* joinGroup: whether the group is new is read first.  Looking for the     *)
(* pod's own membership then may expire it, and with it the group.         *)
JoinGroup(g, p, t) ==
  LET isNewGroup == g \notin ActiveGroups
      m == <<g, p>>
      dissolved == Expired(m) /\ groupIndex[g] = {p}
  IN
  /\ isNewGroup => ~ GroupsFull
  /\ ~ isNewGroup /\ p \notin groupIndex[g] => ~ MembersFull(g)
  /\ keys' = keys \cup {m}
  /\ age' = [age EXCEPT ![m] = 0]
  /\ ttl' = [ttl EXCEPT ![m] = t]
  /\ groupIndex' = [groupIndex EXCEPT ![g] = @ \cup {p}]
  /\ podIndex' = [podIndex EXCEPT ![p] = @ \cup {g}]
  /\ groupMeta' = IF isNewGroup THEN groupMeta \cup {g}
                  ELSE IF dissolved THEN groupMeta \ {g} ELSE groupMeta

LeaveGroup(g, p) ==
  /\ <<g, p>> \in keys
  /\ Drop({<<g, p>>})

LeaveAllGroups(p) ==
  /\ podIndex[p] # {}
  /\ Drop({<<g, p>> : g \in podIndex[p]})

(* Reading a group expires its lapsed members and drops index entries that *)
(* have no key.                                                            *)
Unlisted(g) == {<<g, p>> : p \in {q \in groupIndex[g] : <<g, q>> \notin keys \/ Expired(<<g, q>>)}}

GetGroupPods(g) ==
  /\ Unlisted(g) # {}
  /\ Drop(Unlisted(g))

(* isMember touches one key; getGroup and snapshot read groups that have   *)
(* metadata, snapshot all of them.                                         *)
IsMember(g, p) ==
  /\ Expired(<<g, p>>)
  /\ Drop({<<g, p>>})

Snapshot ==
  LET gone == UNION {Unlisted(g) : g \in ActiveGroups \cap groupMeta} IN
  /\ gone # {}
  /\ Drop(gone)

(* Mutant: the cycle walks the groups getGroup knows. *)
ReapKnownGroups ==
  LET stale == {m \in keys : m[1] \in groupMeta /\ (Expired(m) \/ Reapable(m))} IN
  /\ stale # {}
  /\ Drop(stale)

(* The cycle touches every key, so it also makes the cache's test. *)
ReapStaleMembers ==
  LET stale == {m \in keys : Expired(m) \/ Reapable(m)} IN
  /\ stale # {}
  /\ Drop(stale)

(* clear, or a new orchestrator process. *)
Clear ==
  /\ keys' = {}
  /\ age' = [m \in Members |-> 0]
  /\ ttl' = [m \in Members |-> 0]
  /\ groupIndex' = [g \in Groups |-> {}]
  /\ podIndex' = [p \in Pods |-> {}]
  /\ groupMeta' = {}

(* Ages are counted for the keys that have a time to live. *)
Tick ==
  /\ age' = [m \in Members |-> IF m \in keys /\ ttl[m] > 0 /\ age[m] < MaxAge
                               THEN age[m] + 1 ELSE age[m]]
  /\ UNCHANGED <<keys, ttl, groupIndex, podIndex, groupMeta>>

Next ==
  \/ \E g \in Groups, p \in Pods, t \in Ttls : JoinGroup(g, p, t)
  \/ \E g \in Groups, p \in Pods : LeaveGroup(g, p) \/ IsMember(g, p)
  \/ \E p \in Pods : LeaveAllGroups(p)
  \/ \E g \in Groups : GetGroupPods(g)
  \/ Snapshot
  \/ ReapStaleMembers
  \/ Clear
  \/ Tick

Spec == Init /\ [][Next]_vars

(* Time passes and the reap timer fires; nobody has to call anything. *)
FairSpec == Spec /\ WF_vars(Tick) /\ WF_vars(ReapStaleMembers)

-----------------------------------------------------------------------------
TypeOK ==
  /\ keys \in SUBSET Members
  /\ age \in [Members -> Ages]
  /\ ttl \in [Members -> Ttls \cup {0}]
  /\ groupIndex \in [Groups -> SUBSET Pods]
  /\ podIndex \in [Pods -> SUBSET Groups]
  /\ groupMeta \in SUBSET Groups

(* The two indices hold exactly the cache's keys, however a key went away: *)
(* a member missing from podIndex would survive leaveAllGroups, one        *)
(* missing from groupIndex could not be discovered, one too many is a dead *)
(* peer handed out.                                                        *)
IndexIsCache ==
  \A g \in Groups, p \in Pods :
    /\ p \in groupIndex[g] <=> <<g, p>> \in keys
    /\ g \in podIndex[p] <=> <<g, p>> \in keys

StoreInv == TypeOK /\ IndexIsCache

(* The configured limits hold, although joinGroup tests them before it     *)
(* expires and puts back the pod's own membership.                         *)
LimitsHold ==
  /\ MaxGroups > 0 => Cardinality(ActiveGroups) <= MaxGroups
  /\ MaxMembers > 0 => \A g \in Groups : Cardinality(groupIndex[g]) <= MaxMembers

(* No metadata is kept for a group that is gone: group names come from the *)
(* pods, and the store lives as long as the orchestrator.                  *)
NoMetaLeak == groupMeta \subseteq ActiveGroups

(* The four maps agree, whichever of them a call starts from. *)
StoreSafe == StoreInv /\ NoMetaLeak

(* The store implements GroupMembership: a member is fresh until its exact *)
(* time to live has passed.                                                *)
Fresh(m) == ttl[m] = 0 \/ age[m] <= ttl[m]
Abstract == INSTANCE GroupMembership WITH members <- keys, fresh <- {m \in keys : Fresh(m)}
ImplementsMembership == Abstract!Spec

(* A pod that stopped refreshing its membership, crashed for instance, is  *)
(* dropped although nobody asks for the group any more.                    *)
LapsedMembersGo ==
  \A m \in Members : (m \in keys /\ ~ Fresh(m)) ~> ~ (m \in keys /\ ~ Fresh(m))

-----------------------------------------------------------------------------
(* pod-group-store.ts:321 "The full PodGroup or undefined if it doesn't    *)
(* exist": getGroup finds every group that has members.                    *)
GetGroupFindsGroups == ActiveGroups \subseteq groupMeta

=============================================================================
