-------------------------- MODULE MCCoreScheduler --------------------------
\* Four pods of one node of two units: c needs the place of one of a and b and
\* spares the other, d needs what both of them have. The quota has room for
\* all but one of the units they ask for.
EXTENDS CoreScheduler, TLC

CONSTANTS a, b, c, d, n1

MCCpu == (a :> 1) @@ (b :> 1) @@ (c :> 1) @@ (d :> 2)
MCPriority == (a :> 0) @@ (b :> 1) @@ (c :> 2) @@ (d :> 3)
MCAllocatable == [cpu |-> 2, pods |-> 2]
AllButOne == [cpu |-> 4, pods |-> 4]
Tightest == [cpu |-> 2, pods |-> 2]
=============================================================================
