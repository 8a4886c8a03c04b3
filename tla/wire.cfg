SPECIFICATION FairSpec
CONSTANTS
  ByteBits = 2
  FmpzBytes = 2
  IntBytes = 2
  MaxFmpzBatch = 2
  MaxDaBitBatch = 1
  Programs <- Offered
INVARIANTS
  RoundTrip
  WholeOrFailure
  EndIsFinal
PROPERTIES
  CallsReturn
CHECK_DEADLOCK FALSE
