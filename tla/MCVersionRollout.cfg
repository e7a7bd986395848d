CONSTANTS
  Pods = {p1, p2}
  None = None
  MaxVersion = 3
  Replicas = 1
  MaxConsecutiveFailures = 2
  MaxFaults = 1
  MaxTriggers = 1
SPECIFICATION FairSpec
INVARIANTS RolloutSafe BlamesOnlyCrashes
PROPERTIES AvoidsFailedVersion ServiceConverges
