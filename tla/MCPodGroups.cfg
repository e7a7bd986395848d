CONSTANTS
  MaxSockets = 4
  MaxAttempts = 3
  MaxFaults = 3
SPECIFICATION FairGroupSpec
INVARIANTS RoutesSafe NeverForgets GroupsSafe
PROPERTIES RegistersAgain EndedPodIsGone
