SPECIFICATION DemuxSpec
CONSTANTS
  Inputs <- Files
  CreateFails = FALSE
INVARIANTS
  HeaderDescribes
