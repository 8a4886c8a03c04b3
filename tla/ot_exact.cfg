SPECIFICATION Spec
CONSTANTS
  Word = 32
  Moduli = {15, 17}
  Bits = 2
  Jobs <- ServerJobs
INVARIANTS
  ConversionExact
  OnlyWordsLost
CHECK_DEADLOCK FALSE
