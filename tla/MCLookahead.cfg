SPECIFICATION FlushSpec
CONSTANTS
  SliceLen = 2
  Vfr = 1
  SyncLookahead = 1
  ThreadFrames = 3
  BFrames = 2
  MaxInput = 8
INVARIANTS
  TakeFindsFrame
  DelayedFramesExact
  ListsFit
PROPERTIES
  CallReturns
  FlushDrains
  ImplementsDelayLine
