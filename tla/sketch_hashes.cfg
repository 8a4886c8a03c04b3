SPECIFICATION Spec
CONSTANTS
  Word = 16
  Modulus = 5
  MaxInputs = 1
  Campaigns <- WideCountMin
  Garbage <- StackGarbage
  Junk = {{}}
  Pads = {4}
  ClientMayCrash = FALSE
INVARIANT PairwiseIndependent
CHECK_DEADLOCK FALSE
