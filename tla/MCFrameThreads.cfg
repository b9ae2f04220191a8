SPECIFICATION FairSpec
CONSTANTS
  N = 3
  Early = 0
  Delay = 1
  MaxErrors = 1
  Options <- MCOptions
INVARIANTS
  EachFrameOnce
  ReturnedComplete
  SetupHandedOn
PROPERTIES
  CallReturns
  DrainEnds
