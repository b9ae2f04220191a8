SPECIFICATION MuxSpec
CONSTANTS
  Streams = {0, 1}
  Tick <- Ticks
  Sparse = {}
  NonStrict = FALSE
  AvoidNeg = 0
  MaxDelta = 10
  Shortest = FALSE
  IoFails = FALSE
  NoTs = NoTs
  Dts = {}
  ObeyAtZero = FALSE
  FlushEarly = FALSE
  MaxPackets = 0
  Inputs <- WithBFrames
  VideoIn = 4
  AudioIn = 3
  FrameUnits = 10
  FrameSize = 7
  Failures = {}
INVARIANTS
  PresentationKept
