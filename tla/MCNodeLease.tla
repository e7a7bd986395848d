----------------------------- MODULE MCNodeLease -----------------------------
(* One agent, two socket numbers, one pod row: the agent reconnects on a new *)
(* socket while handlers of the old one are still in flight.                 *)
EXTENDS NodeLease
=============================================================================
