SPECIFICATION RowsFairSpec
CONSTANTS
  Threads = 3
  NumRef = 2
  Rows = 3
  MvRange = 8
  Warmup = 1
  Pyramid = "strict"
  OpenGop = TRUE
  MaxCalls = 5
  MaxFails = 1
INVARIANTS
  ReferencesGood
  PoolExact
PROPERTIES
  CallReturns
CHECK_DEADLOCK FALSE
