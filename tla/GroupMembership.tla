---------------------------- MODULE GroupMembership ----------------------------
(***************************************************************************)
(* What the store of pod groups promises: pairs <<group, pod>> that a join *)
(* adds, that the pod's leaving removes at any time, and that otherwise    *)
(* disappear only after their time to live has passed.  Limits, indices,   *)
(* clocks and when exactly a lapsed pair disappears are left open.         *)
(***************************************************************************)
CONSTANTS Groups, Pods

VARIABLES members,  (* the pairs in the store                  *)
          fresh     (* those whose time to live has not passed *)

vars == <<members, fresh>>

Init == members = {} /\ fresh = {}

(* A join or a refresh. *)
Join(m) ==
  /\ members' = members \cup {m}
  /\ fresh' = fresh \cup {m}

(* A pod leaves one or all of its groups. *)
Leave(p, left) ==
  /\ left \subseteq members \cap (Groups \X {p})
  /\ members' = members \ left
  /\ fresh' = fresh \ left

Lapse ==
  /\ fresh' \in SUBSET fresh
  /\ UNCHANGED members

(* Only lapsed pairs expire. *)
Expire ==
  /\ members' \in SUBSET members
  /\ fresh \subseteq members'
  /\ UNCHANGED fresh

(* The process that holds the store starts anew. *)
Reset == members' = {} /\ fresh' = {}

Next ==
  \/ \E m \in Groups \X Pods : Join(m)
  \/ \E p \in Pods : \E left \in SUBSET (Groups \X {p}) : Leave(p, left)
  \/ Lapse \/ Expire \/ Reset

Spec == Init /\ [][Next]_vars

=============================================================================
