SPECIFICATION FairSpec
CONSTANTS
  Nodes = {n1}
  ConnIds = {1, 2}
  Pods = {}
  None = None
  HeartbeatTimeout = 1
  LeaseTimeout = 2
  MaxRestarts = 1
  MaxDbErrors = 1
PROPERTIES
  DeadNodeLeavesService
  JoinResolves
  DeadSocketIsNoticed
