SPECIFICATION ProgramSpec
CONSTANTS
  Streams = {0, 1}
  Tick <- Ticks
  Sparse = {}
  NonStrict = FALSE
  AvoidNeg = 0
  MaxDelta = 10
  Shortest = FALSE
  IoFails = TRUE
  NoTs = NoTs
  Dts = {}
  ObeyAtZero = FALSE
  FlushEarly = FALSE
  MaxPackets = 0
  Inputs <- AllInputs
  VideoIn = 4
  AudioIn = 3
  FrameUnits = 10
  FrameSize = 7
  Failures = {"create", "header"}
  MaxDelay = 3
  MaxB = 0
  MaxFrames = 8
  MaxFails = 2
INVARIANTS
  FramesKept
  FileOrdered
  TimesKept
  FileExact
PROPERTIES
  ProgramEnds
