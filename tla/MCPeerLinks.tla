----------------------------- MODULE MCPeerLinks -----------------------------
(* Small instances of PeerLinks. *)
EXTENDS PeerLinks

=============================================================================
