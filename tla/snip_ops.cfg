SPECIFICATION FairSpec
CONSTANTS
  Word = 128
  Modulus = 53
  Bits = 2
  Campaigns <- Offered
  Junk = {{}, {0, 5}}
  Pads <- Draws
INVARIANTS
  TypeOK
  StreamsInStep
  StoredWhole
  HonestMoments
  ServesValid
PROPERTIES
  BothReturn
  ImplementsProvedAggregate
CHECK_DEADLOCK FALSE
