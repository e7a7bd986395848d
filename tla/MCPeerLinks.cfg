CONSTANTS
  Low = low
  High = high
  Calls = {c1, c2}
  MaxRetries = 2
  MaxPeers = 6
  MaxFaults = 2
SPECIFICATION FairSpec
INVARIANTS PeersSafe
PROPERTIES ConnectedIsKept ResolvedIsConnected CallsSettle
CHECK_DEADLOCK FALSE
