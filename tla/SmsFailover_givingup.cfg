SPECIFICATION FairSpec
CONSTANTS
  Messages = {m1}
  Environments <- Completed
CHECK_DEADLOCK FALSE
PROPERTY GivingUpIsFinal
