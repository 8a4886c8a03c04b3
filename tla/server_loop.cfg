SPECIFICATION FairSpec
CONSTANTS
  Campaigns <- Series
  MaxInputs = 2
  RandomXThreshold = 1
INVARIANTS
  InStep
  SnipsAgree
  PointRetired
PROPERTY AllServed
CHECK_DEADLOCK FALSE
