CONSTANTS
  Sockets = {s1, s2}
  Pods = {p1}
  None = None
  Runtimes = {"node", "browser"}
  MaxAttempts = 3
  MaxRefusals = 1
  MaxFaults = 1
SPECIFICATION FairSpec
INVARIANTS AgentSafe ReconnectSafe
PROPERTIES StopIsFinal RegistersAgain EndsAreKnown
CHECK_DEADLOCK FALSE
