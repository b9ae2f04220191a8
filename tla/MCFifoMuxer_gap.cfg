SPECIFICATION Spec
CONSTANTS
  NoErr = "none"
  QueueSize = 2
  Options <- GapOptions
  Errors = {"io", "inval", "exit"}
  MaxPackets = 5
  MaxFails = 0
INVARIANTS
  GapEndsAtKey
