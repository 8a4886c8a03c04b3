SPECIFICATION Spec
CONSTANTS
  Word = 16
  Modulus = 9
  Programs <- MadeDaBits
  DoFork = TRUE
  Capacity = 1
  Pads = {0, 3}
INVARIANT StoresAligned
CHECK_DEADLOCK FALSE
