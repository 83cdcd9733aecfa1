CONSTANTS
  N = 1
  Failing = {}
  MayWatch = TRUE
SPECIFICATION FairSpec
PROPERTY SaveFinishes
CHECK_DEADLOCK FALSE
