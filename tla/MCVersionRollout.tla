--------------------------- MODULE MCVersionRollout ---------------------------
(* A small instance of VersionRollout. *)
EXTENDS VersionRollout

=============================================================================
