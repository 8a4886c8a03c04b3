SPECIFICATION Spec
CONSTANTS
  Word = 16
  Modulus = 5
  MaxInputs = 2
  Campaigns <- FreqCampaigns
  Garbage <- StackGarbage
  Junk = {{}}
  Pads = {4}
  ClientMayCrash = TRUE
INVARIANT DeliveredCounted
CHECK_DEADLOCK FALSE
