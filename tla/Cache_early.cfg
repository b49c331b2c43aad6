SPECIFICATION Spec
CONSTANTS
  None = None
  sys_languages <- TwoLanguages
  Loads = {l1, l2}
  Given = {d1}
  Yp = yp
  Arguments <- AnyArguments
  MaxVersion = 1
  QueriesFail = FALSE
  MergeEarly = TRUE
CHECK_DEADLOCK FALSE
INVARIANT LoadedIsFilled
