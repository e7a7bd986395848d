----------------------------- MODULE MCPodFleet -----------------------------
(* Small instances of PodFleet. *)
EXTENDS PodFleet

=============================================================================
