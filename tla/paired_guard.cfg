SPECIFICATION Spec
CONSTANTS
  Word = 32
  Modulus = 17
  MaxInputs = 2
  MaxIntInputs = 2
  Bits = 4
  MaxInp = 0
  Campaigns <- Wide
  MayDie = {}
  Garbage <- NoGarbage
  Junk = {{}}
  Pads = {15}
INVARIANT HonestTotals
CHECK_DEADLOCK FALSE
