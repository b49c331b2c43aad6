SPECIFICATION FairSpec
CONSTANTS
  Calls <- TwoCalls
  Conns = {k1, k2}
  None = None
  Sequential = TRUE
  Faults = {"statement", "deadlock", "handler", "drop", "connect"}
  Modes = {"run", "handler", "await_run"}
  Options <- SwallowingOptions
CHECK_DEADLOCK FALSE
PROPERTY
  EveryCallSettles
