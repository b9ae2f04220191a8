SPECIFICATION FairSpec
CONSTANTS
  NoErr = "none"
  QueueSize = 2
  Options <- MCOptions
  Errors = {"io", "inval", "exit"}
  MaxPackets = 3
  MaxFails = 2
INVARIANTS
  Complete
  SessionsClosed
  RestartsWithKey
PROPERTIES
  CallReturns
