SPECIFICATION OfflineSpec
CONSTANTS
  Calls <- TwoCalls
  Conns = {k1, k2}
  None = None
  Sequential = FALSE
  Faults = {"statement", "deadlock", "handler", "drop", "connect"}
  Modes = {"run", "handler", "await_run"}
  Options <- BothOptions
SYMMETRY ConnSymmetry
CHECK_DEADLOCK FALSE
INVARIANTS
  SuccessKept
  NoEffectBeforeBegin
  CrashOnlyOnLoss
  PartialOnlyByAnother
