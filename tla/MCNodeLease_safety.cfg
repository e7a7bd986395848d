SPECIFICATION Spec
CONSTANTS
  Nodes = {n1}
  ConnIds = {1, 2}
  Pods = {p1}
  None = None
  HeartbeatTimeout = 1
  LeaseTimeout = 2
  MaxRestarts = 1
  MaxDbErrors = 1
INVARIANTS
  ExpiryTargetsSilent
  LeaseInv
PROPERTIES
  RunningPodKeepsRow
