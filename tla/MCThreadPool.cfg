SPECIFICATION FairSpec
CONSTANTS
  Workers = {w1, w2, w3}
  Args = {a1, a2}
  NoArg = none
  MaxRuns = 5
INVARIANTS
  NeverBlocked
  InOrder
  OwnResult
PROPERTIES
  CallsReturn
