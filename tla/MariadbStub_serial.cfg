SPECIFICATION Spec
CONSTANTS
  Calls <- ThreeCalls
  Conns = {k1, k2, k3}
  None = None
  Sequential = TRUE
  Faults = {"statement", "deadlock", "handler", "drop", "connect"}
  Modes = {"run", "handler"}
  Options <- SwallowingOptions
SYMMETRY ConnSymmetry
CHECK_DEADLOCK FALSE
INVARIANTS
  TypeOK
  DurableSuccess
  AtomicFailure
  HandledSavedByNext
  ConnectionOwned
PROPERTY
  ImplementsLedger
