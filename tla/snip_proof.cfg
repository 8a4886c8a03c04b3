SPECIFICATION Spec
CHECK_DEADLOCK FALSE
CONSTANTS
  Modulus = 17
  Gen = 3
  TwoOrder = 4
  Batches <- Offered
  Streams <- AllStreams
INVARIANTS
  ProvedPasses
  OthersPassByChance
  OnlyProducts
