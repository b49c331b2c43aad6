SPECIFICATION FairSpec
CONSTANTS
  None = None
  sys_languages <- TwoLanguages
  Loads = {l1, l2}
  Given = {d1}
  Yp = yp
  Arguments <- AnyArguments
  MaxVersion = 2
  QueriesFail = TRUE
  MergeEarly = FALSE
CHECK_DEADLOCK FALSE
INVARIANTS
  TypeOK
  LoadedIsFilled
PROPERTIES
  NeverBackwards
  EveryLoadSettles
