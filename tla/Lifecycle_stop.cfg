SPECIFICATION FairSpec
CONSTANTS
  Objects = {o1, o2, o3, o4}
  Persistent = {o4}
  Keys <- OfStoppable
  Loggers = {o1}
  MaxCalls = 1
  MaxCount = 6
CHECK_DEADLOCK FALSE
INVARIANTS
  TypeOK
  StopsBounded
  NoneForgotten
  PersistentKept
PROPERTY CascadeEnds
