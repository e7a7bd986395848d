----------------------------- MODULE MCNodeAgent -----------------------------
(* Small instances of NodeAgent. *)
EXTENDS NodeAgent

=============================================================================
