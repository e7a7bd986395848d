------------------------------- MODULE MCIngress -------------------------------
(* Two services that ask for the same port. *)
EXTENDS Ingress

CONSTANTS s1, s2, p1, c1, c2, d1, d2
SamePort == [s \in {s1, s2} |-> p1]

=============================================================================
