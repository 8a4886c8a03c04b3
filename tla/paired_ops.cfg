SPECIFICATION FairSpec
CONSTANTS
  Word = 64
  Modulus = 13
  MaxInputs = 3
  MaxIntInputs = 2
  Bits = 2
  MaxInp = 2
  Campaigns <- Offered
  MayDie <- Mortal
  Garbage <- NoGarbage
  Junk = {{}, {0}}
  Pads = {3, 60}
INVARIANTS
  TypeOK
  Lockstep
  SameInputsCounted
  StreamsInStep
  StreamsDrained
  HonestTotals
  MaxScanStops
  CountedWereDelivered
PROPERTIES
  BothReturn
  ImplementsAggregate
CHECK_DEADLOCK FALSE
