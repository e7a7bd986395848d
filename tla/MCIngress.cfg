CONSTANTS
  s1 = s1
  s2 = s2
  p1 = p1
  c1 = c1
  c2 = c2
  d1 = d1
  d2 = d2
  Services = {s1, s2}
  Ports = {p1}
  Clients = {c1, c2}
  Deletes = {d1, d2}
  None = None
  MaxRestarts = 1
  PortOf <- SamePort
SPECIFICATION FairIngressSpec
CHECK_DEADLOCK FALSE
INVARIANTS IngressSafe
  
