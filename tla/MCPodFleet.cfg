CONSTANTS
  Nodes = {n1, n2}
  Pods = {p1, p2}
  Flaky = {n1}
  None = None
  MaxReplicas = 1
  MaxFaults = 1
SPECIFICATION FairSpec
INVARIANTS FleetSafe CreatesOnlyMissing
PROPERTIES PodStaysAssigned ImplementsPlacement PodsAreProvided StaleProcessEnds
