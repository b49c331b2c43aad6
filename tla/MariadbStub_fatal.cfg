SPECIFICATION Spec
CONSTANTS
  Calls <- TwoCalls
  Conns = {k1, k2}
  None = None
  Sequential = TRUE
  Faults = {"drop"}
  Modes = {"run"}
  Options <- SwallowingOptions
SYMMETRY ConnSymmetry
CHECK_DEADLOCK FALSE
INVARIANT
  FatalErrorExits
