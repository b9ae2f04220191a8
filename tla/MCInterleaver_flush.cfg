SPECIFICATION Spec
CONSTANTS
  Streams = {0, 1, 2}
  Tick <- UnequalTicks
  Sparse = {1}
  NonStrict = FALSE
  AvoidNeg = 1
  MaxDelta = 4
  Shortest = TRUE
  IoFails = FALSE
  NoTs = NoTs
  Dts <- LowDts
  ObeyAtZero = TRUE
  FlushEarly = TRUE
  MaxPackets = 6
INVARIANTS
  FlushKeepsAll
