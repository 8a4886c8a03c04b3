SPECIFICATION FairSpec
CONSTANTS
  Word = 16
  Modulus = 5
  MaxInputs = 3
  Campaigns <- AllCampaigns
  Garbage <- StackGarbage
  Junk = {{}, {1}}
  Pads = {4}
  ClientMayCrash = TRUE
INVARIANTS
  TypeOK
  StreamsInStep
  HonestCounts
  NothingInvented
  AllOrNothing
  AllHeavyFound
PROPERTY BothReturn
CHECK_DEADLOCK FALSE
