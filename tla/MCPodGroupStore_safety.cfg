SPECIFICATION Spec
CONSTANTS
  Groups = {g1, g2, g3}
  Pods = {p1, p2, p3}
  Ttls = {0, 3}
  TicksPerSecond = 2
  MaxGroups = 2
  MaxMembers = 2
  MaxAge = 5
SYMMETRY Symmetric
INVARIANTS
  StoreSafe
  LimitsHold
PROPERTIES
  ImplementsMembership
