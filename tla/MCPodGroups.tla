----------------------------- MODULE MCPodGroups -----------------------------
(* Small instances of PodGroups. *)
EXTENDS PodGroups

=============================================================================
