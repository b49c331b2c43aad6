SPECIFICATION Spec
CONSTANTS
  Messages = {m1}
  Environments <- AsShipped
CHECK_DEADLOCK FALSE
INVARIANT FallbackTried
