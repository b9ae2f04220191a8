SPECIFICATION LibSpec
CONSTANTS
  NbThreads = 3
  HasMain = TRUE
  MaxJobs = 4
  MaxCalls = 2
  Ahead = 2
  Back = 1
  Short = 2
  Chunk = 2
  NdxMod = 6
  Total = 4
  MaxRead = 2
  Targets = {0, 1, 3, 5}
  MaxFails = 1
  Interrupts = TRUE
INVARIANTS
  EachJobOnce
  OwnThreadNumber
  Quiet
  ReadExact
PROPERTIES
  CallsReturn
  CallReturns
