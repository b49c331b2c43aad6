SPECIFICATION FairSpec
CONSTANTS
  Calls <- TwoCalls
  Conns = {k1, k2}
  None = None
  Sequential = FALSE
  Faults = {}
  Modes = {"run"}
  Options <- SwallowingOptions
CHECK_DEADLOCK FALSE
PROPERTY
  GracefulEnd
