SPECIFICATION FairSpec
CONSTANTS
  Word = 16
  Modulus = 5
  Programs <- Made
  DoFork = TRUE
  Capacity = 1
  Pads = {1, 4}
INVARIANTS
  StoresAligned
  ResultsRecombine
PROPERTY AllCallsReturn
CHECK_DEADLOCK FALSE
